------------------------- MODULE RepositoryGovernance -------------------------
(***************************************************************************)
(* Two commands that change the repository on GitHub while others use it:   *)
(* tool/branch_hygiene.py deletes reviewed branches, and                     *)
(* tool/github_governance.py applies a ruleset, settings and labels.  Every  *)
(* call to the API is a step of its own.                                    *)
(***************************************************************************)
EXTENDS Integers, FiniteSets, SequencesExt

CONSTANTS
    BranchOrder,         \* every branch name, in the order of a listing
    PageSize,            \* branches per page of a listing
    HygienePolicies,     \* [valid, default, keep, delete]: delete is a sequence of [name, sha]
    RemoteBranches,      \* the branches at first: name -> [sha, protected]
    PushedShas,          \* what others push
    GovernanceConfigs,   \* [exactChecks, bypass, rules, pull, strict, enforcement, settings, labels]
    MatrixReceipts,      \* the evidence of P0-003: [status, passed, headKnown, ancestor]
    RemoteSettings,      \* the rulesets of the desired name, settings and labels at first
    OutsideRulesets,     \* what an administrator may put in their place
    MaxGovernanceCommands, MaxOutsideChanges

VARIABLES
    branches,      \* name -> [sha, protected]
    openHeads,     \* heads of open pull requests
    hygiene,       \* the hygiene command that runs
    hygieneReceipt,       \* its last receipt
    lost,          \* [name, sha] of every branch a command deleted
    pushedMeanwhile, \* [name, sha] pushed while a command ran
    hosted,        \* on GitHub: [rulesets, settings, labels]
    governance,    \* the governance command that runs
    governed,      \* its last receipt: [status, config, command]
    undisturbed,   \* nobody else changed it since the last command began
    governanceCommands, outsideChanges

\* A policy lists what it deletes, and a branch, of a listed name, is a commit and whether it is
\* protected.
ASSUME GovernanceAssumption ==
    /\ DOMAIN RemoteBranches \subseteq ToSet(BranchOrder)
    /\ \A p \in HygienePolicies : p.delete \in Seq({p.delete[i] : i \in DOMAIN p.delete})
    /\ \A p \in HygienePolicies : \A i \in DOMAIN p.delete :
          p.delete[i] = [name |-> p.delete[i].name, sha |-> p.delete[i].sha]
    /\ \A b \in DOMAIN RemoteBranches :
          RemoteBranches[b] = [sha |-> RemoteBranches[b].sha, protected |-> RemoteBranches[b].protected]
    /\ {MaxGovernanceCommands, MaxOutsideChanges} \subseteq Nat

hygieneVars == <<branches, openHeads, hygiene, hygieneReceipt, lost, pushedMeanwhile>>
rulesVars == <<hosted, governance, governed, undisturbed>>
governanceVars == <<hygieneVars, rulesVars, governanceCommands, outsideChanges>>

NoWork == [at |-> "idle"]
NoReceipt == [status |-> "none"]
Names(rows) == {rows[i].name : i \in DOMAIN rows}

-----------------------------------------------------------------------------
(* branch_hygiene                                                          *)

\* _parse_policy: an exact list, disjoint from what is kept.
PolicyAccepted(p) ==
    /\ p.valid                               \* schema, roadmap authority, classes, SHAs, reasons
    /\ Cardinality(ToSet(p.keep)) = Len(p.keep)
    /\ Cardinality(Names(p.delete)) = Len(p.delete)
    /\ ToSet(p.keep) \cap Names(p.delete) = {}
    /\ p.default \in ToSet(p.keep)

BeginCommand ==
    governanceCommands < MaxGovernanceCommands /\ governanceCommands' = governanceCommands + 1

StartHygiene(p, execute) ==
    /\ hygiene = NoWork /\ BeginCommand
    /\ hygiene' = IF PolicyAccepted(p)
                  THEN [at |-> "repository", policy |-> p, execute |-> execute, page |-> 1,
                        listing |-> <<>>, plan |-> <<>>, results |-> <<>>]
                  ELSE NoWork
    /\ UNCHANGED <<branches, openHeads, hygieneReceipt, lost, pushedMeanwhile, rulesVars, outsideChanges>>

HygieneStill ==
    UNCHANGED <<branches, openHeads, lost, pushedMeanwhile, rulesVars, governanceCommands, outsideChanges>>

\* The repository's default branch, whichever it is, must be the policy's.
ReadRepository(observedDefault) ==
    /\ hygiene.at = "repository"
    /\ hygiene' = IF observedDefault = hygiene.policy.default
                  THEN [hygiene EXCEPT !.at = "listing"] ELSE NoWork
    /\ hygieneReceipt' = hygieneReceipt /\ HygieneStill

\* One page of the branches as they are when it is asked for.
Page(k) ==
    LET present == SelectSeq(BranchOrder, LAMBDA b : b \in DOMAIN branches) IN
    SubSeq(present, (k - 1) * PageSize + 1, IF k * PageSize < Len(present) THEN k * PageSize ELSE Len(present))

WithPage(listing, names) ==
    [b \in DOMAIN listing \cup ToSet(names) |-> IF b \in ToSet(names) THEN branches[b] ELSE listing[b]]

ListPage ==
    /\ hygiene.at \in {"listing", "after"}
    /\ LET names == Page(hygiene.page)
           listing == WithPage(hygiene.listing, names) IN
       hygiene' = IF Len(names) < PageSize
                  THEN [hygiene EXCEPT !.listing = listing,
                                       !.at = IF @ = "listing" THEN "heads" ELSE "settle"]
                  ELSE [hygiene EXCEPT !.listing = listing, !.page = @ + 1]
    /\ hygieneReceipt' = hygieneReceipt /\ HygieneStill

\* _preflight, of the listing and of the heads read after it.
DefaultGuarded(p, listing) == p.default \in DOMAIN listing /\ listing[p.default].protected
KeptPresent(p, listing) == ToSet(p.keep) \subseteq DOMAIN listing

CandidateBlocked(p, listing, heads, c) ==
    c.name \in DOMAIN listing
    /\ \/ c.name = p.default
       \/ listing[c.name].protected
       \/ listing[c.name].sha # c.sha
       \/ c.name \in heads

\* Mutant: a candidate whose SHA changed is deleted all the same.
Blocked_AnySha(p, listing, heads) ==
    \/ ~DefaultGuarded(p, listing) \/ ~KeptPresent(p, listing)
    \/ \E i \in DOMAIN p.delete :
          /\ CandidateBlocked(p, listing, heads, p.delete[i])
          /\ listing[p.delete[i].name].sha = p.delete[i].sha

Blocked(p, listing, heads) ==
    \/ ~DefaultGuarded(p, listing) \/ ~KeptPresent(p, listing)
    \/ \E i \in DOMAIN p.delete : CandidateBlocked(p, listing, heads, p.delete[i])

DeletionPlan(p, listing) ==
    [i \in DOMAIN p.delete |->
        [name |-> p.delete[i].name,
         preflight |-> IF p.delete[i].name \in DOMAIN listing THEN "delete" ELSE "already_absent"]]

ReadHeads ==
    /\ hygiene.at = "heads"
    /\ LET p == hygiene.policy
           plan == DeletionPlan(p, hygiene.listing) IN
       IF Blocked(p, hygiene.listing, openHeads)
       THEN hygieneReceipt' = [status |-> "blocked"] /\ hygiene' = NoWork
       ELSE IF ~hygiene.execute
       THEN hygieneReceipt' = [status |-> "ready"] /\ hygiene' = NoWork
       ELSE /\ hygiene' = [hygiene EXCEPT !.at = "delete", !.plan = plan]
            /\ UNCHANGED hygieneReceipt
    /\ HygieneStill

\* delete_ref names the branch, not the commit it was reviewed at.
DeleteAnswers == {"answered", "unreachable", "answer_lost"}

DeleteNext(answer) ==
    /\ hygiene.at = "delete" /\ Len(hygiene.results) < Len(hygiene.plan)
    /\ LET entry == hygiene.plan[Len(hygiene.results) + 1]
           b == entry.name
           asked == entry.preflight = "delete" /\ answer # "unreachable"
           removed == asked /\ b \in DOMAIN branches /\ ~branches[b].protected
           outcome == IF entry.preflight = "already_absent" THEN "already_absent"
                      ELSE IF answer # "answered" THEN "error"
                      ELSE IF b \notin DOMAIN branches THEN "already_absent"
                      ELSE IF removed THEN "deleted" ELSE "error" IN
       /\ entry.preflight = "already_absent" => answer = "answered"
       /\ branches' = IF removed THEN Restrict(branches, DOMAIN branches \ {b}) ELSE branches
       /\ lost' = IF removed THEN lost \cup {[name |-> b, sha |-> branches[b].sha]} ELSE lost
       /\ hygiene' = [hygiene EXCEPT !.results = Append(@, [name |-> b, result |-> outcome])]
    /\ UNCHANGED <<openHeads, hygieneReceipt, pushedMeanwhile, rulesVars, governanceCommands, outsideChanges>>

DeletionsDone ==
    /\ hygiene.at = "delete" /\ Len(hygiene.results) = Len(hygiene.plan)
    /\ hygiene' = [hygiene EXCEPT !.at = "after", !.page = 1, !.listing = <<>>]
    /\ hygieneReceipt' = hygieneReceipt /\ HygieneStill

Residual == Names(hygiene.policy.delete) \cap DOMAIN hygiene.listing

Settle ==
    /\ hygiene.at = "settle"
    /\ hygieneReceipt' =
          [status |-> IF Residual # {} \/ \E i \in DOMAIN hygiene.results : hygiene.results[i].result = "error"
                      THEN "partial_failure" ELSE "success",
           deleted |-> {r.name : r \in {x \in ToSet(hygiene.results) : x.result = "deleted"}}]
    /\ hygiene' = NoWork
    /\ HygieneStill

\* A GET that fails, or the end of the process, ends the command without a receipt.
HygieneStops ==
    /\ hygiene # NoWork /\ hygiene' = NoWork
    /\ hygieneReceipt' = hygieneReceipt /\ HygieneStill

\* Others use the repository.
Outside == outsideChanges < MaxOutsideChanges /\ outsideChanges' = outsideChanges + 1

Push(b, s) ==
    /\ Outside
    /\ branches' = [n \in DOMAIN branches \cup {b} |->
                       IF n # b THEN branches[n]
                       ELSE [sha |-> s, protected |-> b \in DOMAIN branches /\ branches[b].protected]]
    /\ pushedMeanwhile' = IF hygiene = NoWork THEN pushedMeanwhile
                          ELSE pushedMeanwhile \cup {[name |-> b, sha |-> s]}
    /\ UNCHANGED <<openHeads, hygiene, hygieneReceipt, lost, rulesVars, governanceCommands>>

OpenPullRequest(b) ==
    /\ Outside /\ b \in DOMAIN branches \ openHeads
    /\ openHeads' = openHeads \cup {b}
    /\ UNCHANGED <<branches, hygiene, hygieneReceipt, lost, pushedMeanwhile, rulesVars, governanceCommands>>

Protect(b) ==
    /\ Outside /\ b \in DOMAIN branches
    /\ branches' = [branches EXCEPT ![b].protected = ~@]
    /\ UNCHANGED <<openHeads, hygiene, hygieneReceipt, lost, pushedMeanwhile, rulesVars, governanceCommands>>

HygieneNext ==
    \/ \E p \in HygienePolicies, execute \in BOOLEAN : StartHygiene(p, execute)
    \/ \E b \in ToSet(BranchOrder) : ReadRepository(b)
    \/ ListPage
    \/ ReadHeads
    \/ \E answer \in DeleteAnswers : DeleteNext(answer)
    \/ DeletionsDone
    \/ Settle
    \/ HygieneStops
    \/ \E b \in ToSet(BranchOrder) : \/ \E s \in PushedShas : Push(b, s)
                                     \/ OpenPullRequest(b)
                                     \/ Protect(b)

-----------------------------------------------------------------------------
(* github_governance                                                       *)

Lanes == {"ubuntu", "windows", "macos"}
RequiredRules ==
    {"deletion", "non_fast_forward", "required_linear_history", "pull_request", "required_status_checks"}

\* validate_p0_003
MatrixAccepted(m) ==
    m.status = "passed" /\ m.passed = Lanes /\ (m.headKnown => m.ancestor)

\* build_ruleset and validate_labels refuse a configuration.
LabelKeys(c) == {c.labels[i].key : i \in DOMAIN c.labels}
ConfigAccepted(c) ==
    /\ c.exactChecks /\ ~c.bypass
    /\ Cardinality(LabelKeys(c)) = Len(c.labels)      \* unique ignoring case
    /\ \A i \in DOMAIN c.labels : c.labels[i].wellFormed

BuiltRuleset(c) ==
    [rules |-> c.rules \cup {"required_status_checks"}, bypass |-> FALSE, enforcement |-> c.enforcement,
     pull |-> IF "pull_request" \in c.rules THEN c.pull ELSE "none", strict |-> c.strict]

StartGovernance(mode, confirmed, token, c, m) ==
    /\ governance = NoWork /\ BeginCommand
    /\ governance' =
          IF MatrixAccepted(m) /\ ConfigAccepted(c) /\ token /\ mode # "plan" /\ (mode = "apply" => confirmed)
          THEN [at |-> IF mode = "apply" THEN "find" ELSE "verify", config |-> c,
                found |-> FALSE, known |-> {}, label |-> 1, matched |-> TRUE]
          ELSE NoWork
    /\ undisturbed' = TRUE
    /\ UNCHANGED <<hygieneVars, hosted, governed, outsideChanges>>

RulesStill == UNCHANGED <<hygieneVars, undisturbed, governanceCommands, outsideChanges>>

\* apply_ruleset: look for the name, then create or replace.
FindRuleset ==
    /\ governance.at = "find"
    /\ governance' = IF Len(hosted.rulesets) > 1 THEN NoWork
                     ELSE [governance EXCEPT !.at = "ruleset", !.found = hosted.rulesets # <<>>]
    /\ UNCHANGED <<hosted, governed>> /\ RulesStill

WriteRuleset ==
    /\ governance.at = "ruleset"
    /\ LET desired == BuiltRuleset(governance.config) IN
       IF governance.found /\ hosted.rulesets = <<>>
       THEN governance' = NoWork /\ UNCHANGED hosted            \* the id is gone: HTTP 404
       ELSE /\ hosted' = [hosted EXCEPT !.rulesets =
                             IF governance.found THEN [@ EXCEPT ![1] = desired] ELSE Append(@, desired)]
            /\ governance' = [governance EXCEPT !.at = "settings"]
    /\ UNCHANGED governed /\ RulesStill

WriteSettings ==
    /\ governance.at = "settings"
    /\ hosted' = [hosted EXCEPT !.settings = governance.config.settings]
    /\ governance' = [governance EXCEPT !.at = "labels"]
    /\ UNCHANGED governed /\ RulesStill

ListLabels ==
    /\ governance.at = "labels"
    /\ governance' = [governance EXCEPT !.at = "label", !.known = DOMAIN hosted.labels]
    /\ UNCHANGED <<hosted, governed>> /\ RulesStill

\* One label: a known one is updated, so is one that turns out to exist (HTTP 422).
WriteLabel ==
    /\ governance.at = "label" /\ governance.label <= Len(governance.config.labels)
    /\ LET l == governance.config.labels[governance.label] IN
       IF l.key \in governance.known /\ l.key \notin DOMAIN hosted.labels
       THEN governance' = NoWork /\ UNCHANGED hosted            \* it is gone: HTTP 404
       ELSE /\ hosted' = [hosted EXCEPT !.labels =
                   [key \in DOMAIN @ \cup {l.key} |-> IF key = l.key THEN l.body ELSE @[key]]]
            /\ governance' = [governance EXCEPT !.label = @ + 1, !.known = @ \cup {l.key}]
    /\ UNCHANGED governed /\ RulesStill

LabelsWritten ==
    /\ governance.at = "label" /\ governance.label > Len(governance.config.labels)
    /\ governance' = [governance EXCEPT !.at = "verify"]
    /\ UNCHANGED <<hosted, governed>> /\ RulesStill

\* verify_remote reads the three parts one after the other and keeps the mismatches.
\* Of the desired rules only the five required ones must be there.
RulesetMatches(r, desired) ==
    /\ RequiredRules \subseteq r.rules /\ r.rules \subseteq desired.rules
    /\ ~r.bypass /\ r.enforcement = desired.enforcement
    /\ r.pull = desired.pull /\ r.strict = desired.strict

LabelsMatch(labels, c) ==
    \A i \in DOMAIN c.labels :
        c.labels[i].key \in DOMAIN labels /\ labels[c.labels[i].key] = c.labels[i].body

VerifyRuleset ==
    /\ governance.at = "verify"
    /\ governance' =
          IF Len(hosted.rulesets) # 1 THEN NoWork
          ELSE [governance EXCEPT
                   !.at = "verify settings",
                   !.matched = RulesetMatches(hosted.rulesets[1], BuiltRuleset(governance.config))]
    /\ UNCHANGED <<hosted, governed>> /\ RulesStill

VerifySettings ==
    /\ governance.at = "verify settings"
    /\ governance' = [governance EXCEPT !.at = "verify labels",
                                        !.matched = @ /\ hosted.settings = governance.config.settings]
    /\ UNCHANGED <<hosted, governed>> /\ RulesStill

\* The receipt is written last, and only when everything matched.
VerifyLabels ==
    /\ governance.at = "verify labels"
    /\ governed' = IF governance.matched /\ LabelsMatch(hosted.labels, governance.config)
                   THEN [status |-> "passed", config |-> governance.config, command |-> governanceCommands]
                   ELSE governed
    /\ governance' = NoWork
    /\ UNCHANGED hosted /\ RulesStill

GovernanceStops ==
    /\ governance # NoWork /\ governance' = NoWork
    /\ UNCHANGED <<hosted, governed>> /\ RulesStill

\* An administrator changes one part.
Administer(changed) ==
    /\ Outside /\ changed # hosted
    /\ hosted' = changed /\ undisturbed' = FALSE
    /\ UNCHANGED <<hygieneVars, governance, governed, governanceCommands>>

RulesNext ==
    \/ \E mode \in {"plan", "apply", "verify"}, confirmed, token \in BOOLEAN, c \in GovernanceConfigs,
          m \in MatrixReceipts : StartGovernance(mode, confirmed, token, c, m)
    \/ FindRuleset
    \/ WriteRuleset
    \/ WriteSettings
    \/ ListLabels
    \/ WriteLabel
    \/ LabelsWritten
    \/ VerifyRuleset
    \/ VerifySettings
    \/ VerifyLabels
    \/ GovernanceStops
    \/ \E s \in OutsideRulesets : Administer([hosted EXCEPT !.rulesets = s])
    \/ \E c \in GovernanceConfigs : Administer([hosted EXCEPT !.settings = c.settings])
    \/ \E key \in DOMAIN hosted.labels :
          Administer([hosted EXCEPT !.labels = Restrict(@, DOMAIN @ \ {key})])

GovernanceInit ==
    /\ branches = RemoteBranches /\ openHeads = {} /\ hygiene = NoWork /\ hygieneReceipt = NoReceipt
    /\ lost = {} /\ pushedMeanwhile = {}
    /\ hosted = RemoteSettings /\ governance = NoWork /\ governed = NoReceipt /\ undisturbed = TRUE
    /\ governanceCommands = 0 /\ outsideChanges = 0

GovernanceSpec == GovernanceInit /\ [][HygieneNext \/ RulesNext]_governanceVars

-----------------------------------------------------------------------------
GovernanceTypeOK ==
    /\ DOMAIN branches \subseteq ToSet(BranchOrder) /\ openHeads \subseteq ToSet(BranchOrder)
    /\ hygiene.at \in {"idle", "repository", "listing", "heads", "delete", "after", "settle"}
    /\ hygieneReceipt.status \in {"none", "blocked", "ready", "success", "partial_failure"}
    /\ governance.at \in {"idle", "find", "ruleset", "settings", "labels", "label", "verify",
                          "verify settings", "verify labels"}
    /\ governed.status \in {"none", "passed"} /\ undisturbed \in BOOLEAN
    /\ governanceCommands \in 0 .. MaxGovernanceCommands /\ outsideChanges \in 0 .. MaxOutsideChanges

\* A deletion loses the commit that was reviewed, of a branch that is not kept, or what
\* was pushed to it while the command ran (branch_hygiene._preflight and _run_remote; the
\* module's docstring promises the reviewed SHA, the ref is deleted by name).
ReviewedLoss ==
    \A x \in lost : x \in pushedMeanwhile
        \/ \E p \in HygienePolicies : /\ PolicyAccepted(p) /\ x.name \notin ToSet(p.keep)
                                      /\ \E i \in DOMAIN p.delete : p.delete[i] = x

\* A passed receipt of the last command describes the repository, unless somebody changed it since
\* the command began (github_governance.main and verify_remote).
ReceiptHolds ==
    governed.status = "passed" /\ governed.command = governanceCommands /\ undisturbed =>
        /\ Len(hosted.rulesets) = 1
        /\ RulesetMatches(hosted.rulesets[1], BuiltRuleset(governed.config))
        /\ hosted.settings = governed.config.settings
        /\ LabelsMatch(hosted.labels, governed.config)

\* What a command of the project did to the repository, or says of it, is what was reviewed.
RemoteAsReviewed == ReviewedLoss /\ ReceiptHolds
=============================================================================
