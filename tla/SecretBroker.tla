----------------------------- MODULE SecretBroker -----------------------------
(***************************************************************************)
(* One-use secrets (tool/secret_broker.py): a secret is a file that the    *)
(* issuer creates, that a consumer claims by renaming, reads and removes,  *)
(* and that a purge reads and removes.  Issuers, consumers and purges are  *)
(* separate processes that share the directory and may die at any step.    *)
(***************************************************************************)
EXTENDS Integers, FiniteSets

CONSTANTS
    Brokers,        \* processes
    Secrets,        \* secret handles
    SecretOwner,    \* handle -> owner it is issued to
    Callers,        \* owners a consumer may name
    Anyone,         \* the empty owner
    Lifetime,       \* ttl of every secret
    MaxSecretTime,
    MaxDeaths       \* bound on process deaths

VARIABLES
    present,        \* the handles whose <handle>.json is there
    written,        \* the handles whose content was written completely
    claimed,        \* <<handle, process>>: <handle>.<pid>.claimed
    brokerAt,       \* process -> its step
    brokerOn,       \* process -> the handle it works on
    brokerAs,       \* process -> the owner it named
    issuedAt,       \* handle -> when it was issued
    secretTime,
    released,       \* history: <<handle, process, owner named, time>>
    deaths

secretVars ==
    <<present, written, claimed, brokerAt, brokerOn, brokerAs, issuedAt, secretTime, released,
      deaths>>

ASSUME SecretsAssumption ==
    /\ Secrets # {}
    /\ Lifetime \in Nat /\ MaxSecretTime \in Nat /\ MaxDeaths \in Nat

BrokerSteps == {"idle", "write", "replace", "read", "unlink_claim", "unlink", "dead"}

Expired(s) == issuedAt[s] + Lifetime <= secretTime

SecretsInit ==
    /\ present = {} /\ written = {}
    /\ claimed = {}
    /\ brokerAt = [p \in Brokers |-> "idle"]
    /\ brokerOn = [p \in Brokers |-> CHOOSE s \in Secrets : TRUE]
    /\ brokerAs = [p \in Brokers |-> Anyone]
    /\ issuedAt = [s \in Secrets |-> -1]
    /\ secretTime = 0
    /\ released = {} /\ deaths = 0

Step(p, from, to) ==
    /\ brokerAt[p] = from
    /\ brokerAt' = [brokerAt EXCEPT ![p] = to]
    /\ UNCHANGED <<secretTime, deaths>>

\* issue_secret: a file under a fresh random name, created exclusively ...
IssueSecret(p, s) ==
    /\ issuedAt[s] = -1
    /\ Step(p, "idle", "write")
    /\ present' = present \cup {s}
    /\ issuedAt' = [issuedAt EXCEPT ![s] = secretTime]
    /\ brokerOn' = [brokerOn EXCEPT ![p] = s]
    /\ UNCHANGED <<written, claimed, brokerAs, released>>

\* ... and written, through its descriptor: a claim or a purge in between moves
\* or removes the name only.
WriteSecret(p) ==
    /\ Step(p, "write", "idle")
    /\ written' = written \cup {brokerOn[p]}
    /\ UNCHANGED <<present, claimed, brokerOn, brokerAs, issuedAt, released>>

\* consume_secret: the file must exist ...
ConsumeSecret(p, s, owner) ==
    /\ issuedAt[s] # -1
    /\ s \in present
    /\ Step(p, "idle", "replace")
    /\ brokerOn' = [brokerOn EXCEPT ![p] = s]
    /\ brokerAs' = [brokerAs EXCEPT ![p] = owner]
    /\ UNCHANGED <<present, written, claimed, issuedAt, released>>

\* Mutant: the file is copied instead of renamed.
ClaimSecret_Copy(p) ==
    LET s == brokerOn[p] IN
    /\ Step(p, "replace", IF s \in present THEN "read" ELSE "idle")
    /\ claimed' = IF s \in present THEN claimed \cup {<<s, p>>} ELSE claimed
    /\ UNCHANGED <<present, written, brokerOn, brokerAs, issuedAt, released>>

\* ... and is claimed by renaming it, which only one process can do.
ClaimSecret(p) ==
    LET s == brokerOn[p] IN
    /\ Step(p, "replace", IF s \in present THEN "read" ELSE "idle")
    /\ claimed' = IF s \in present THEN claimed \cup {<<s, p>>} ELSE claimed
    /\ present' = present \ {s}
    /\ UNCHANGED <<written, brokerOn, brokerAs, issuedAt, released>>

\* The claim is read and checked: its owner, when both sides name one, its
\* expiry, and that it parses; the value is returned or an error raised.
\* A file claimed while it was being written does not parse.
ReadSecret(p) ==
    LET s == brokerOn[p] IN
    /\ Step(p, "read", "unlink_claim")
    /\ released' =
         IF /\ brokerAs[p] = Anyone \/ SecretOwner[s] = Anyone \/ brokerAs[p] = SecretOwner[s]
            /\ ~Expired(s)
            /\ s \in written
         THEN released \cup {<<s, p, brokerAs[p], secretTime>>}
         ELSE released
    /\ UNCHANGED <<present, written, claimed, brokerOn, brokerAs, issuedAt>>

\* The finally clause: the claim is removed whatever was raised.
DropClaim(p) ==
    /\ Step(p, "unlink_claim", "idle")
    /\ claimed' = claimed \ {<<brokerOn[p], p>>}
    /\ UNCHANGED <<present, written, brokerOn, brokerAs, issuedAt, released>>

\* purge_expired reads every file; one that is expired, or that cannot be read
\* because it is still being written, is removed in a later step.
PurgeRead(p, s) ==
    /\ s \in present
    /\ s \notin written \/ Expired(s)
    /\ Step(p, "idle", "unlink")
    /\ brokerOn' = [brokerOn EXCEPT ![p] = s]
    /\ UNCHANGED <<present, written, claimed, brokerAs, issuedAt, released>>

PurgeUnlink(p) ==
    /\ Step(p, "unlink", "idle")
    /\ present' = present \ {brokerOn[p]}
    /\ UNCHANGED <<written, claimed, brokerOn, brokerAs, issuedAt, released>>

BrokerDies(p) ==
    /\ brokerAt[p] \notin {"idle", "dead"} /\ deaths < MaxDeaths
    /\ deaths' = deaths + 1
    /\ brokerAt' = [brokerAt EXCEPT ![p] = "dead"]
    /\ UNCHANGED <<present, written, claimed, brokerOn, brokerAs, issuedAt, secretTime, released>>

SecretTick ==
    /\ secretTime < MaxSecretTime
    /\ secretTime' = secretTime + 1
    /\ UNCHANGED <<present, written, claimed, brokerAt, brokerOn, brokerAs, issuedAt, released, deaths>>

SecretsNext ==
    \/ \E p \in Brokers :
          \/ \E s \in Secrets :
                \/ IssueSecret(p, s)
                \/ \E owner \in Callers : ConsumeSecret(p, s, owner)
                \/ PurgeRead(p, s)
          \/ WriteSecret(p) \/ ClaimSecret(p) \/ ReadSecret(p) \/ DropClaim(p)
          \/ PurgeUnlink(p) \/ BrokerDies(p)
    \/ SecretTick

SecretsSpec == SecretsInit /\ [][SecretsNext]_secretVars

-----------------------------------------------------------------------------
SecretsTypeOK ==
    /\ present \subseteq Secrets /\ written \subseteq Secrets
    /\ claimed \subseteq Secrets \X Brokers
    /\ brokerAt \in [Brokers -> BrokerSteps]
    /\ brokerOn \in [Brokers -> Secrets]
    /\ brokerAs \in [Brokers -> Callers \cup {Anyone}]
    /\ issuedAt \in [Secrets -> Int]
    /\ secretTime \in 0 .. MaxSecretTime
    /\ released \subseteq Secrets \X Brokers \X (Callers \cup {Anyone}) \X (0 .. MaxSecretTime)
    /\ deaths \in 0 .. MaxDeaths

\* A secret leaves the broker at most once, before it expires and never to
\* another owner, while consumers and purges race for its file and die on the way
\* (consume_secret, purge_expired).
SecretReleasedOnce ==
    \A s \in Secrets :
        LET takes == {r \in released : r[1] = s} IN
        /\ Cardinality(takes) <= 1
        /\ \A r \in takes : /\ r[4] < issuedAt[s] + Lifetime
                            /\ SecretOwner[s] # Anyone => r[3] \in {Anyone, SecretOwner[s]}
=============================================================================
