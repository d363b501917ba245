----------------------------- MODULE PolicyEngine -----------------------------
(***************************************************************************)
(* The deterministic policy engine (tool/deterministic_policy_engine.py)   *)
(* over access profiles (tool/access_profile_v2.py): a request for one     *)
(* effect is decided from the profile's ceiling, the overlays of the       *)
(* organization, the project and the user, and an explicit widening.       *)
(*                                                                         *)
(* A request is chosen, its overlays are applied layer by layer, and it is *)
(* decided.  A path is a sequence of segments, a host a name with the zone *)
(* that a "*.zone" pattern matches.                                        *)
(***************************************************************************)
EXTENDS Integers, Sequences

CONSTANTS
    PolicyRequests, \* the requests evaluated
    AccessProfiles, \* profile id -> profile
    Registry,       \* capability id -> domain, risk, actor and tools
    Context,        \* project root, account roots, sandbox root, allowlists, leases
    BudgetCeiling,  \* profile id -> budget
    Zone,           \* host -> the zone whose pattern matches it
    NoRequest

VARIABLES
    request,        \* the request
    pending,        \* its overlays that are not applied yet
    scope,          \* paths, hosts, browsers and leases left
    budget,         \* budget left
    approvalPolicy, \* strictest so far
    reasons,        \* why it is denied
    status          \* "idle", "evaluating", "allow", "deny" or "approval_required"

policyVars == <<request, pending, scope, budget, approvalPolicy, reasons, status>>

LayerOrder == [organization |-> 0, project |-> 1, user |-> 2]
ApprovalRank == [never |-> 0, high_risk_only |-> 1, always |-> 2]
Dimensions == {"paths", "hosts", "browsers", "leases"}

-----------------------------------------------------------------------------
\* validate_profile: what no profile of the kind may have.
ValidProfile(id) ==
    LET p == AccessProfiles[id] IN
    CASE id = "chat" -> /\ p.actions = {} /\ p.network = "none" /\ p.browser = "none"
                        /\ p.credentials = "none"
      [] id = "project" -> p.filesystem = "project" /\ p.elevation = "none"
      [] id \in {"owner", "owner_unattended"} ->
            /\ ~p.sandboxed /\ p.filesystem = "current_account"
            /\ id = "owner_unattended" => p.elevation = "none"
      [] id = "isolated_untrusted" ->
            /\ p.sandboxed /\ p.filesystem = "sandbox" /\ p.elevation = "none"
            /\ p.credentials = "none" /\ ~p.private /\ "listen" \notin p.actions
            /\ ~p.authenticated

ASSUME CatalogAssumption == \A id \in DOMAIN AccessProfiles : ValidProfile(id)

\* Paths, as the sequences of their segments.
Paths == Seq(STRING)

\* What the parsers of profiles, overlays and requests let through.
ASSUME PolicyAssumption ==
    /\ {Context.projectRoot, Context.sandboxRoot} \cup Context.accountRoots \subseteq Paths
    /\ \A id \in DOMAIN AccessProfiles :
          /\ AccessProfiles[id].filesystem \in {"none", "project", "current_account", "sandbox"}
          /\ AccessProfiles[id].approval \in DOMAIN ApprovalRank
          /\ BudgetCeiling[id] \in Nat
    /\ \A r \in PolicyRequests :
          /\ r.profile \in DOMAIN AccessProfiles
          /\ r.budget \in Int
          /\ r.domain = "filesystem" => r.target \in Paths
          /\ r.widening.restore.paths \subseteq Paths
          /\ \A o \in r.overlays :
                /\ o.maxBudget \in Int /\ o.approval \in DOMAIN ApprovalRank
                /\ "paths" \in DOMAIN o.limits => o.limits.paths \subseteq Paths

\* _path_within: the prefix or something below it.
Within(path, prefix) ==
    /\ Len(prefix) <= Len(path)
    /\ \A i \in 1 .. Len(prefix) : path[i] = prefix[i]

\* _destination_allowed: any host, a zone's hosts, or the host.
HostAllowed(host, allowed) == {"*", Zone[host], host} \cap allowed # {}

\* _intersection: of patterns as they are written.
Intersection(current, constraint) ==
    IF constraint = {} THEN {}
    ELSE IF "*" \in current THEN constraint
    ELSE IF "*" \in constraint THEN current
    ELSE current \cap constraint

\* _path_intersection: the narrower of each pair that is nested.
PathIntersection(current, constraint) ==
    {l \in current : \E r \in constraint : Within(l, r)}
    \cup {r \in constraint : \E l \in current : Within(r, l)}

\* _approval_policy_stricter
Stricter(l, r) == IF ApprovalRank[l] >= ApprovalRank[r] THEN l ELSE r

\* _base_scope: the ceiling that the profile sets in this context.
BaseScope(id) ==
    LET p == AccessProfiles[id] IN
    [paths |-> CASE p.filesystem = "none" -> {}
                 [] p.filesystem = "project" -> {Context.projectRoot}
                 [] p.filesystem = "current_account" -> Context.accountRoots
                 [] p.filesystem = "sandbox" -> {Context.sandboxRoot},
     hosts |-> CASE p.network = "none" -> {}
                 [] p.network = "unrestricted" -> {"*"}
                 [] p.network = "allowlist" -> IF id = "isolated_untrusted"
                                               THEN Context.grantHosts ELSE Context.projectHosts,
     browsers |-> CASE p.browser = "none" -> {}
                    [] p.browser = "isolated" -> {"isolated"}
                    [] p.browser = "user_selected" -> Context.selectedBrowsers
                    [] p.browser = "unrestricted" -> IF Context.browsers = {} THEN {"*"}
                                                     ELSE Context.browsers,
     leases |-> IF p.credentials = "none" THEN {} ELSE Context.leases]

\* _valid_approval: only a trusted source with an id approves.
Trusted(a) == a.source \in {"owner", "organization_policy"} /\ a.identified
Approved(a) == a.approved /\ Trusted(a)
ApprovalError(a) == a.approved /\ ~Trusted(a)

-----------------------------------------------------------------------------
\* The reasons that evaluate_policy finds before it looks at the overlays.
BindingReasons(r) ==
    LET known == r.capability \in DOMAIN Registry IN
    (IF known THEN {} ELSE {"unknown_capability"})
    \cup (IF known /\ r.tool \in Registry[r.capability].tools THEN {}
          ELSE {"tool_not_registered_for_capability"})
    \cup (IF known /\ r.domain = Registry[r.capability].domain THEN {}
          ELSE {"capability_effect_mismatch"})
    \cup (IF known /\ r.actor # Registry[r.capability].actor THEN {"wrong_actor"} ELSE {})
    \cup (IF r.budget < 0 THEN {"invalid_budget"} ELSE {})

PolicyInit ==
    /\ request = NoRequest
    /\ pending = {} /\ scope = {} /\ budget = 0
    /\ approvalPolicy = "never"
    /\ reasons = {}
    /\ status = "idle"

ReceiveRequest(r) ==
    /\ status' = "evaluating"
    /\ request' = r
    /\ pending' = r.overlays
    /\ scope' = BaseScope(r.profile)
    /\ budget' = IF r.budget < 0 THEN 0
                 ELSE IF r.budget < BudgetCeiling[r.profile] THEN r.budget
                 ELSE BudgetCeiling[r.profile]
    /\ approvalPolicy' = AccessProfiles[r.profile].approval
    /\ reasons' = BindingReasons(r)

\* The overlays, lowest layer first (_overlay_key).
IsNext(o) == o \in pending /\ \A p \in pending : LayerOrder[o.layer] <= LayerOrder[p.layer]

\* Mutant: an overlay sets the scope instead of narrowing it.
Narrowed_Replaced(o) ==
    [d \in Dimensions |-> IF d \in DOMAIN o.limits THEN o.limits[d] ELSE scope[d]]

\* The scope after an overlay; a dimension it does not mention stays.
Narrowed(o) ==
    [d \in Dimensions |->
        IF d \notin DOMAIN o.limits THEN scope[d]
        ELSE IF d = "paths" THEN PathIntersection(scope.paths, o.limits.paths)
        ELSE Intersection(scope[d], o.limits[d])]

ApplyOverlay(o) ==
    /\ status = "evaluating" /\ IsNext(o)
    /\ pending' = pending \ {o}
    /\ scope' = Narrowed(o)
    /\ budget' = IF o.maxBudget >= 0 /\ o.maxBudget < budget THEN o.maxBudget ELSE budget
    /\ approvalPolicy' = Stricter(approvalPolicy, o.approval)
    /\ reasons' = reasons
          \cup (IF request.capability \in o.deny THEN {"capability_denied_by_overlay"} ELSE {})
          \cup (IF request.tool \in o.deny THEN {"tool_denied_by_overlay"} ELSE {})
          \cup (IF o.forceDeny THEN {"force_deny"} ELSE {})
          \cup (IF o.maxBudget < 0 THEN {"invalid_overlay_budget"} ELSE {})
    /\ UNCHANGED <<request, status>>

\* What a widening may restore: what the profile's ceiling covers.
InCeiling(d, x) ==
    LET base == BaseScope(request.profile) IN
    CASE d = "paths" -> \E p \in base.paths : Within(x, p)
      [] d = "hosts" -> HostAllowed(x, base.hosts)
      [] d = "browsers" -> {"*", x} \cap base.browsers # {}
      [] d = "leases" -> x \in base.leases

\* The scope after the explicit widening, when it is approved.
Widened(d) ==
    scope[d] \cup IF Approved(request.widening)
                  THEN {x \in request.widening.restore[d] : InCeiling(d, x)} ELSE {}

WideningReasons(w) ==
    IF \A d \in Dimensions : w.restore[d] = {} THEN {}
    ELSE (IF ApprovalError(w) THEN {"untrusted_authority_source"} ELSE {})
         \cup (IF ~Approved(w) THEN {"explicit_widening_not_approved"}
               ELSE IF \E d \in Dimensions : \E x \in w.restore[d] : ~InCeiling(d, x)
               THEN {"widening_exceeds_profile_ceiling"} ELSE {})

\* The effect against the widened scope and the profile, by its domain.
EffectReasons(r) ==
    LET p == AccessProfiles[r.profile] IN
    CASE r.domain = "filesystem" ->
            (IF r.action \in p.actions THEN {} ELSE {"filesystem_action_denied"})
            \cup (IF \E q \in Widened("paths") : Within(r.target, q) THEN {}
                  ELSE {"path_outside_effective_scope"})
      [] r.domain = "process" ->
            IF r.action = "elevation"
            THEN IF p.elevation \in {"interactive_only", "preconfigured"} THEN {}
                 ELSE {"elevation_denied"}
            ELSE IF r.action \in p.actions THEN {} ELSE {"process_action_denied"}
      [] r.domain = "network" ->
            (IF HostAllowed(r.target, Widened("hosts")) THEN {}
             ELSE {"network_destination_denied"})
            \cup (IF Context.privateNetwork /\ ~p.private THEN {"private_network_denied"} ELSE {})
            \cup (IF r.action = "listen" /\ "listen" \notin p.actions
                  THEN {"network_listen_denied"} ELSE {})
      [] r.domain = "browser" ->
            (IF {"*", r.target} \cap Widened("browsers") # {} THEN {}
             ELSE {"browser_profile_denied"})
            \cup (IF Context.authenticatedBrowser /\ ~p.authenticated
                  THEN {"authenticated_browser_denied"} ELSE {})
      [] r.domain = "secret" ->
            (IF p.credentials # "none" /\ r.target \in Widened("leases") THEN {}
             ELSE {"secret_lease_denied"})
            \cup (IF Context.rawReveal THEN {"raw_secret_reveal_denied"} ELSE {})
      [] r.domain = "sandbox" ->
            IF r.profile = "isolated_untrusted" /\ p.sandboxed THEN {}
            ELSE {"sandbox_profile_required"}
      [] OTHER -> {"unknown_effect_domain"}

ApprovalRequired ==
    \/ approvalPolicy = "always"
    \/ approvalPolicy = "high_risk_only" /\ Registry[request.capability].risk = "high"

Decide ==
    LET r == request
        found == reasons \cup WideningReasons(r.widening) \cup EffectReasons(r)
                   \cup (IF ApprovalError(r.approval) THEN {"untrusted_authority_source"} ELSE {})
    IN
    /\ status = "evaluating" /\ pending = {}
    /\ reasons' = found
    /\ scope' = [d \in Dimensions |-> Widened(d)]
    /\ status' = IF found # {} THEN "deny"
                 ELSE IF ApprovalRequired /\ ~Approved(r.approval) THEN "approval_required"
                 ELSE "allow"
    /\ UNCHANGED <<request, pending, budget, approvalPolicy>>

PolicyNext ==
    \/ status = "idle" /\ \E r \in PolicyRequests : ReceiveRequest(r)
    \/ \E o \in pending : ApplyOverlay(o)
    \/ Decide

PolicySpec == PolicyInit /\ [][PolicyNext]_policyVars

-----------------------------------------------------------------------------
PolicyTypeOK ==
    /\ status # "idle" => /\ pending \subseteq request.overlays
                         /\ DOMAIN scope = Dimensions
                         /\ budget \in 0 .. BudgetCeiling[request.profile]
    /\ status # "idle" => request \in PolicyRequests
    /\ approvalPolicy \in DOMAIN ApprovalRank
    /\ status \in {"idle", "evaluating", "allow", "deny", "approval_required"}

\* What an overlay permits, by itself, in the dimension of the request.
Permits(o, r) ==
    CASE r.domain = "filesystem" /\ "paths" \in DOMAIN o.limits ->
            \E q \in o.limits.paths : Within(r.target, q)
      [] r.domain = "network" /\ "hosts" \in DOMAIN o.limits ->
            HostAllowed(r.target, o.limits.hosts)
      [] r.domain = "secret" /\ "leases" \in DOMAIN o.limits ->
            {"*", r.target} \cap o.limits.leases # {}
      [] OTHER -> TRUE

Dimension(r) ==
    CASE r.domain = "filesystem" -> "paths" [] r.domain = "network" -> "hosts"
      [] r.domain = "browser" -> "browsers" [] OTHER -> "leases"

\* Whether the widening restored something that covers the target.
RestoredFor(r) ==
    /\ Approved(r.widening)
    /\ \E x \in r.widening.restore[Dimension(r)] :
          IF r.domain = "filesystem" THEN Within(r.target, x) ELSE HostAllowed(r.target, {x})

\* Whatever the order of the layers, an allowed effect is permitted by every overlay
\* on its own, or restored by a trusted approval; no overlay that denies it or
\* asks for an approval is outvoted, and the budget is no overlay's too large
\* (evaluate_policy: overlays only narrow, a widening stays in the ceiling).
OverlaysOnlyNarrow ==
    status = "allow" =>
        \A o \in request.overlays :
            /\ Permits(o, request) \/ RestoredFor(request)
            /\ ~o.forceDeny /\ {request.capability, request.tool} \cap o.deny = {}
            /\ budget <= o.maxBudget
            /\ o.approval = "always" => Approved(request.approval)
=============================================================================
