----------------------------- MODULE MCAuthority -----------------------------
(* The components that decide and carry authority.  They share no state, so  *)
(* each behaviour exercises one of them, chosen at the start: the state space*)
(* is the sum of theirs.                                                     *)
EXTENDS CapabilityGrants, LocalIpc, SecretBroker, EffectService, ExtensionRegistry, PolicyEngine,
        SandboxWorker, DelegationBridge

VARIABLE focus

Components == {"grants", "ipc", "secrets", "effects", "extensions", "policy", "sandbox", "bridge"}

Still(c) ==
    CASE c = "grants" -> UNCHANGED grantVars
      [] c = "ipc" -> UNCHANGED ipcVars
      [] c = "secrets" -> UNCHANGED secretVars
      [] c = "effects" -> UNCHANGED effectVars
      [] c = "extensions" -> UNCHANGED extensionVars
      [] c = "policy" -> UNCHANGED policyVars
      [] c = "sandbox" -> UNCHANGED sandboxVars
      [] c = "bridge" -> UNCHANGED bridgeVars

OthersStill == \A c \in Components \ {focus} : Still(c)

\* The components that are not exercised start in one state.
OthersFixed ==
    /\ focus = "grants" \/ clock = 0
    /\ focus = "effects" \/ content = Original
    /\ focus = "sandbox" \/ mode = "read_only"

Init ==
    /\ focus \in Components
    /\ GrantsInit /\ IpcInit /\ SecretsInit /\ EffectsInit /\ ExtensionsInit /\ PolicyInit
    /\ SandboxInit /\ BridgeInit
    /\ OthersFixed

Next ==
    /\ \/ focus = "grants" /\ GrantsNext
       \/ focus = "ipc" /\ IpcNext
       \/ focus = "secrets" /\ SecretsNext
       \/ focus = "effects" /\ EffectsNext
       \/ focus = "extensions" /\ ExtensionsNext
       \/ focus = "policy" /\ PolicyNext
       \/ focus = "sandbox" /\ SandboxNext
       \/ focus = "bridge" /\ BridgeNext
    /\ OthersStill
    /\ UNCHANGED focus

vars == <<grantVars, ipcVars, secretVars, effectVars, extensionVars, policyVars, sandboxVars,
          bridgeVars, focus>>

Spec == Init /\ [][Next]_vars

TypeOK ==
    /\ focus \in Components
    /\ GrantsTypeOK /\ IpcTypeOK /\ SecretsTypeOK /\ EffectsTypeOK /\ ExtensionsTypeOK
    /\ PolicyTypeOK /\ SandboxTypeOK /\ BridgeTypeOK

\* Authority is only ever narrowed: what was revoked stays revoked whatever is installed or
\* registered again (extension_registry_v2.py, key_registry_v2.py), and no overlay of an access
\* profile is outvoted by another one (deterministic_policy_engine.py).
AuthorityOnlyNarrows == RevokedIsFinal /\ OverlaysOnlyNarrow

-----------------------------------------------------------------------------
(* Capability grants: grants that share an id or a nonce, and one defect each *)

call1 == [actor |-> "owner_executor", profile |-> "project", tool |-> "write_file"]
call2 == [actor |-> "owner_executor", profile |-> "project", tool |-> "read_file"]
MCGrantCalls == {call1, call2}

Grant(id, nonce, call, uses) ==
    [grantId |-> id, nonce |-> nonce, fields |-> TRUE, issuer |-> "desktop_host",
     binding |-> call, scope |-> [rawReveal |-> FALSE, listen |-> FALSE],
     budgets |-> [wall |-> 1, bytes |-> 0], issued |-> 0, notBefore |-> 0, expires |-> 2,
     maxUses |-> uses, key |-> "k1", mac |-> "k1", embedsKey |-> FALSE]

MCGrants ==
    LET g == Grant("g1", "n1", call1, 2) IN
    {g, Grant("g1", "n2", call1, 1), Grant("g2", "n1", call2, 1),
     [g EXCEPT !.fields = FALSE], [g EXCEPT !.issuer = "model"],
     [g EXCEPT !.binding.actor = "model"], [g EXCEPT !.scope.rawReveal = TRUE],
     [g EXCEPT !.budgets.wall = -1], [g EXCEPT !.expires = 0], [g EXCEPT !.maxUses = 0],
     [g EXCEPT !.mac = "k2"], [g EXCEPT !.key = "k2"], [g EXCEPT !.embedsKey = TRUE]}

MCInvocations == 1 .. 3

(* Local IPC: two peers, two threads at a time, repeated and late requests   *)

MCPeerKeys == [p \in {"desktop", "automation"} |-> p]

Request(peer, id) ==
    [version |-> TRUE, peer |-> peer, id |-> id, fits |-> TRUE, deadline |-> 1, mac |-> peer]

MCIpcRequests ==
    LET r == Request("desktop", "a") IN
    {r, [r EXCEPT !.deadline = 2], Request("desktop", "b"), Request("automation", "a"),
     [r EXCEPT !.version = FALSE], [r EXCEPT !.peer = "stranger"], [r EXCEPT !.id = ""],
     [r EXCEPT !.fits = FALSE], [r EXCEPT !.mac = "automation"]}

(* Secrets: one bound to an owner, one that anyone may take                  *)

MCSecretOwner == [s \in {"s1", "s2"} |-> IF s = "s1" THEN "sandbox" ELSE Anyone]

(* Effects: two threads and two grants, each of one or two uses              *)

EffectBinding == [profile |-> "owner", task |-> "t"]

EffectGrant(id, uses) ==
    [id |-> id, shape |-> TRUE, issuer |-> "desktop_host", binding |-> EffectBinding,
     notBefore |-> 0, expires |-> 1, maxUses |-> uses, rawReveal |-> FALSE]

EffectCall(op, grant) ==
    [op |-> op, grant |-> grant, binding |-> EffectBinding, capability |-> op,
     decision |-> [status |-> "allow", binding |-> EffectBinding, capability |-> op,
                   action |-> op],
     path |-> TRUE, spec |-> TRUE]

MCEffectCalls ==
    LET one == EffectGrant("g1", 1)
        two == EffectGrant("g2", 2)
    IN {EffectCall("write", one), EffectCall("write", two), EffectCall("delete", two),
        EffectCall("read", two), EffectCall("command", two),
        [EffectCall("write", two) EXCEPT !.path = FALSE],
        [EffectCall("command", two) EXCEPT !.spec = FALSE],
        [EffectCall("write", two) EXCEPT !.decision.status = "deny"]}

(* Extensions: three versions of one plugin, a skill, and defects            *)

Manifest(i, version, caps) ==
    [identity |-> i, version |-> version, type |-> "plugin", wellFormed |-> TRUE,
     compatibility |-> {"app"}, capabilities |-> caps, code |-> TRUE, tests |-> TRUE]

Candidate(m) ==
    [key |-> "publisher", use |-> "kristin_extension", domain |-> "kristin.extensions",
     issued |-> 0, expires |-> 2, signature |-> "publisher", payload |-> m]

MCCandidates ==
    LET c == Candidate(Manifest("plugin", 2, {"read"})) IN
    {Candidate(Manifest("plugin", 1, {"read"})), c, Candidate(Manifest("plugin", 3, {"read", "write"})),
     Candidate(Manifest("skill", 1, {})), Candidate(Manifest("skill", 2, {"read"})),
     [c EXCEPT !.payload.type = "script"], [c EXCEPT !.payload.wellFormed = FALSE],
     [c EXCEPT !.payload.code = FALSE], [c EXCEPT !.payload.tests = FALSE],
     [c EXCEPT !.payload.compatibility = {}], [c EXCEPT !.signature = NoSignature],
     [c EXCEPT !.domain = "release"]}

MCExtensionKeys ==
    [k \in {"publisher"} |-> [uses |-> {"kristin_extension"}, domains |-> {"kristin.extensions"},
                              revoked |-> FALSE]]

KeyHandle(id, provider, purpose) ==
    [keyId |-> id, provider |-> provider, opaque |-> TRUE, status |-> "active",
     purpose |-> purpose, domain |-> "kristin.extensions"]

MCKeyHandles ==
    {KeyHandle("key1", "external_hsm", "sign"), KeyHandle("key1", "macos_keychain", "mac"),
     KeyHandle("key1", "file", "sign"),
     [KeyHandle("key2", "external_hsm", "sign") EXCEPT !.opaque = FALSE]}

-----------------------------------------------------------------------------
(* Policy: requests over every capability domain, with overlays of one, two   *)
(* or three layers                                                           *)

Profile(filesystem, network, browser, credentials, actions, elevation, approval) ==
    [filesystem |-> filesystem, network |-> network, browser |-> browser,
     credentials |-> credentials, actions |-> actions, elevation |-> elevation,
     approval |-> approval, sandboxed |-> filesystem = "sandbox",
     private |-> network = "unrestricted", authenticated |-> browser = "unrestricted"]

FileActions == {"read", "write", "delete"}

\* config/access_profiles.v2.json
MCAccessProfiles ==
    [chat |-> Profile("none", "none", "none", "none", {}, "none", "always"),
     project |-> Profile("project", "allowlist", "user_selected", "brokered_leases",
                         FileActions \cup {"finite", "pty"}, "none", "high_risk_only"),
     owner |-> Profile("current_account", "unrestricted", "unrestricted", "brokered_leases",
                       FileActions \cup {"finite", "pty", "package", "listen"},
                       "interactive_only", "high_risk_only"),
     owner_unattended |-> Profile("current_account", "unrestricted", "unrestricted",
                                  "brokered_leases", FileActions \cup {"finite", "package", "listen"},
                                  "none", "never"),
     isolated_untrusted |-> Profile("sandbox", "allowlist", "isolated", "none",
                                    FileActions \cup {"finite"}, "none", "always")]

\* config/policy_engine.v2.json
MCRegistry ==
    [c \in {"filesystem.write", "filesystem.delete", "network.connect", "process.execute",
            "browser.session.use", "secret.lease.use", "sandbox.execute"} |->
        CASE c = "filesystem.write" -> [domain |-> "filesystem", risk |-> "low",
                                        actor |-> "owner_executor", tools |-> {"write_file"}]
          [] c = "filesystem.delete" -> [domain |-> "filesystem", risk |-> "high",
                                         actor |-> "owner_executor", tools |-> {"delete_file"}]
          [] c = "network.connect" -> [domain |-> "network", risk |-> "low",
                                       actor |-> "research_worker", tools |-> {"web_fetch"}]
          [] c = "process.execute" -> [domain |-> "process", risk |-> "high",
                                       actor |-> "automation_host", tools |-> {"run_command"}]
          [] c = "browser.session.use" -> [domain |-> "browser", risk |-> "high",
                                           actor |-> "automation_host", tools |-> {"browser_session"}]
          [] c = "secret.lease.use" -> [domain |-> "secret", risk |-> "high",
                                        actor |-> "owner_executor", tools |-> {"use_secret"}]
          [] c = "sandbox.execute" -> [domain |-> "sandbox", risk |-> "high",
                                       actor |-> "sandbox_worker", tools |-> {"sandbox_run"}]]

MCContext ==
    [projectRoot |-> <<"p">>, accountRoots |-> {<<>>}, sandboxRoot |-> <<"box">>,
     grantHosts |-> {"docs"}, projectHosts |-> {"*.example"}, selectedBrowsers |-> {"work"},
     browsers |-> {}, leases |-> {"lease1"}, privateNetwork |-> FALSE,
     authenticatedBrowser |-> FALSE, rawReveal |-> FALSE]

MCZone == [h \in {"docs", "api", "*", "*.example"} |->
              IF h = "api" THEN "*.example" ELSE h]

MCBudgets == [chat |-> 0, project |-> 2, owner |-> 3, owner_unattended |-> 3,
              isolated_untrusted |-> 2]

Overlay(layer, limits) ==
    [layer |-> layer, limits |-> limits, maxBudget |-> 2, approval |-> "never", deny |-> {},
     forceDeny |-> FALSE]

MCOverlays ==
    {Overlay("organization", [paths |-> {<<"p">>}]),
     Overlay("project", [paths |-> {<<"p", "b">>, <<"q">>}]),
     Overlay("user", [paths |-> {<<"p", "a">>}]),
     Overlay("organization", [hosts |-> {"*.example", "docs"}]),
     Overlay("user", [hosts |-> {"docs"}]),
     Overlay("project", [leases |-> {"lease2"}]),
     [Overlay("user", [browsers |-> {}]) EXCEPT !.maxBudget = 1],
     [Overlay("project", [browsers |-> {"*"}]) EXCEPT !.approval = "always"],
     [Overlay("organization", [browsers |-> {"*"}]) EXCEPT !.deny = {"write_file"}],
     [Overlay("user", [browsers |-> {"*"}]) EXCEPT !.forceDeny = TRUE],
     [Overlay("organization", [leases |-> {"*"}]) EXCEPT !.maxBudget = -1]}

OverlaySets == {s \in SUBSET MCOverlays : Cardinality(s) <= 2}
    \cup {{Overlay("organization", [paths |-> {<<"p">>}]),
           Overlay("project", [paths |-> {<<"p", "b">>, <<"q">>}]),
           Overlay("user", [paths |-> {<<"p", "a">>}])}}

FewOverlays ==
    {{}, {Overlay("organization", [leases |-> {"*"}])},
     {Overlay("organization", [hosts |-> {"*.example", "docs"}]),
      [Overlay("project", [browsers |-> {"*"}]) EXCEPT !.approval = "always"]}}

Nobody == [approved |-> FALSE, source |-> "model", identified |-> FALSE]
Owner == [approved |-> TRUE, source |-> "owner", identified |-> TRUE]
Pretender == [approved |-> TRUE, source |-> "model", identified |-> TRUE]

Restore(paths, hosts) == [paths |-> paths, hosts |-> hosts, browsers |-> {}, leases |-> {}]

Widening(a, restore) ==
    [approved |-> a.approved, source |-> a.source, identified |-> a.identified,
     restore |-> restore]

Effect(capability, action, target) ==
    [capability |-> capability, tool |-> CHOOSE t \in MCRegistry[capability].tools : TRUE,
     actor |-> MCRegistry[capability].actor, domain |-> MCRegistry[capability].domain,
     action |-> action, target |-> target, budget |-> 2]

MCEffects ==
    LET write == Effect("filesystem.write", "write", <<"p", "a", "x">>) IN
    {write, Effect("filesystem.delete", "delete", <<"q">>),
     Effect("network.connect", "connect", "api"), Effect("network.connect", "listen", "docs"),
     Effect("process.execute", "finite", "run"), Effect("process.execute", "elevation", "run"),
     Effect("browser.session.use", "open", "work"), Effect("secret.lease.use", "use", "lease1"),
     Effect("sandbox.execute", "run", "run"),
     [write EXCEPT !.actor = "model"], [write EXCEPT !.tool = "web_fetch"],
     [write EXCEPT !.domain = "process"], [write EXCEPT !.capability = "filesystem.move"],
     [write EXCEPT !.budget = -1]}

MCPolicyRequests ==
    {[capability |-> e.capability, tool |-> e.tool, actor |-> e.actor, domain |-> e.domain,
      action |-> e.action, target |-> e.target, budget |-> e.budget, profile |-> p,
      overlays |-> s, approval |-> a, widening |-> w] :
        e \in MCEffects, p \in DOMAIN MCAccessProfiles, s \in FewOverlays, a \in {Owner, Nobody},
        w \in {Widening(Nobody, Restore({}, {}))}}
    \cup
    {[capability |-> e.capability, tool |-> e.tool, actor |-> e.actor, domain |-> e.domain,
      action |-> e.action, target |-> e.target, budget |-> e.budget, profile |-> p,
      overlays |-> s, approval |-> a, widening |-> w] :
        e \in {Effect("filesystem.write", "write", <<"p", "a", "x">>),
               Effect("network.connect", "connect", "api")},
        p \in {"project", "owner"}, s \in OverlaySets, a \in {Owner},
        w \in {Widening(x, Restore({<<"p", "a">>}, {"api"})) : x \in {Owner, Pretender}}
              \cup {Widening(Owner, Restore({<<"q", "a">>}, {"docs"})),
                    Widening(Nobody, Restore({}, {}))}}

-----------------------------------------------------------------------------
(* The bridge: two processes, delegations that are narrower than the agent    *)

Envelope(p) ==
    [key |-> "host", use |-> "a2a_delegation_grant", domain |-> "kristin.a2a", issued |-> 0,
     expires |-> 2, signature |-> "host", payload |-> p]

Delegation ==
    [agent |-> "a1", task |-> "t1", capabilities |-> {"search"}, inputs |-> {"in"},
     outputs |-> {"out"}, network |-> {"docs"}, downstream |-> FALSE, deadline |-> 2, steps |-> 1,
     idempotency |-> "i1", hostExecution |-> TRUE]

MCDelegations ==
    {Envelope(Delegation), Envelope([Delegation EXCEPT !.hostExecution = FALSE]),
     Envelope([Delegation EXCEPT !.downstream = TRUE]),
     Envelope([Delegation EXCEPT !.agent = "a2", !.network = {}]),
     Envelope([Delegation EXCEPT !.deadline = 1]), Envelope([Delegation EXCEPT !.steps = -1]),
     Envelope([Delegation EXCEPT !.steps = 3]),
     [Envelope(Delegation) EXCEPT !.signature = NoSignature]}

BridgeRequest ==
    [agent |-> "a1", task |-> "t1", capabilities |-> {"search"}, inputs |-> {"in"},
     outputs |-> {"out"}, network |-> {}, secrets |-> {}, steps |-> 1, idempotency |-> "i1"]

MCBridgeRequests ==
    {BridgeRequest, [BridgeRequest EXCEPT !.agent = "a2"],
     [BridgeRequest EXCEPT !.capabilities = {"search", "write"}],
     [BridgeRequest EXCEPT !.outputs = {}], [BridgeRequest EXCEPT !.steps = 2],
     [BridgeRequest EXCEPT !.secrets = {"lease1"}], [BridgeRequest EXCEPT !.network = {"docs"}],
     [BridgeRequest EXCEPT !.steps = 0, !.idempotency = ""], [BridgeRequest EXCEPT !.idempotency = "i2"]}

MCRegistered ==
    [a \in {"a1", "a2"} |->
        [digest |-> TRUE, capabilities |-> {"search", "write"}, network |-> {"docs"},
         mode |-> IF a = "a1" THEN "owner_host" ELSE "isolated"]]

MCResponses ==
    LET response == [task |-> "t1", used |-> {"search"}, outputs |-> {"out"}, steps |-> 1, state |-> "completed"]
    IN {[response EXCEPT !.used = u, !.outputs = o, !.state = s] :
           u \in {{}, {"search"}, {"search", "write"}}, o \in {{}, {"out"}, {"out", "log"}},
           s \in {"completed", "failed"}}
       \cup {[response EXCEPT !.steps = n] : n \in {-1, 0, 2, 3}}
       \cup {[response EXCEPT !.task = "t2"]}

MCBridgeKeys ==
    [k \in {"host"} |-> [uses |-> {"a2a_delegation_grant"}, domains |-> {"kristin.a2a"},
                         revoked |-> FALSE]]

Snapshots ==
    {[id |-> i, revision |-> n, state |-> s] :
        i \in {"t1"}, n \in 1 .. 3, s \in {"working", "completed", "failed"}}
    \cup {[id |-> "t2", revision |-> 2, state |-> "working"]}

MCStreams == {<<s>> : s \in Snapshots} \cup {<<s, t>> : s, t \in Snapshots}
=============================================================================
