---------------------------- MODULE AuthorityProofs ----------------------------
(***************************************************************************)
(* Proofs about the components that carry, decide and use authority:       *)
(* grants are not stretched, a secret is released once, an answered        *)
(* request is not taken in again, what was revoked stays revoked, overlays *)
(* only narrow, effects stay within the grant they use and are undone, the *)
(* sandbox contains its program, and the bridge prints nothing beyond a    *)
(* delegation, for every set of grants, processes, secrets, requests,      *)
(* extensions, policies, effects and messages.                             *)
(***************************************************************************)
EXTENDS MCAuthority, FiniteSetTheorems, WellFoundedInduction, TLAPS

-----------------------------------------------------------------------------
(***************************************************************************)
(* Capability grants.  The ledger keeps numbers and the property speaks of *)
(* the uses themselves: the invariant ties the count of each id to them.   *)
(***************************************************************************)

\* Under an id that was used some grant let the last use through: it allows at
\* least as many as there are.
Covered(id) ==
    usesByGrant[id] > 0 =>
        \E a \in UsesOf(id) : usesByGrant[id] <= a.grant.maxUses

GrantsInv ==
    /\ GrantsTypeOK
    /\ \A id \in GrantIds :
          /\ IsFiniteSet(UsesOf(id)) /\ Cardinality(UsesOf(id)) = usesByGrant[id]
          /\ Covered(id)
    /\ \A a \in accepted :
          /\ nonceOwner[a.grant.nonce] = a.grant.grantId
          /\ <<a.grant.grantId, a.invocation>> \in consumed
          /\ Authentic(a.grant) /\ a.grant.binding = a.call
          /\ a.grant.notBefore <= a.at /\ a.at < a.grant.expires
    /\ \A a, b \in accepted :
          a.grant.grantId = b.grant.grantId /\ a.invocation = b.invocation => a = b

\* A use is added to the uses of its own grant's id and to no other.
LEMMA UsesGrow ==
    ASSUME NEW g \in Grants, NEW call, NEW inv, NEW id \in GrantIds,
           accepted' = accepted \cup {[grant |-> g, call |-> call, invocation |-> inv,
                                       at |-> clock]}
    PROVE  UsesOf(id)' = IF id = g.grantId
                         THEN UsesOf(id) \cup {[grant |-> g, call |-> call, invocation |-> inv,
                                                at |-> clock]}
                         ELSE UsesOf(id)
  BY DEF UsesOf

\* A use that is let through keeps the invariant: it is new to its invocation,
\* so that the count and the number of uses grow together.
LEMMA ConsumeKeepsGrantsInv ==
    ASSUME GrantsInv, NEW g \in Grants, NEW call \in GrantCalls, NEW inv \in Invocations,
           VerifyAndConsume(g, call, inv)
    PROVE  GrantsInv'
<1> DEFINE use == [grant |-> g, call |-> call, invocation |-> inv, at |-> clock]
<1>1. /\ g.grantId \in GrantIds /\ g.nonce \in Nonces
      /\ use \in Uses
  BY DEF GrantIds, Nonces, Uses, GrantsInv, GrantsTypeOK
<1>2. /\ nonceOwner' = [nonceOwner EXCEPT ![g.nonce] = g.grantId]
      /\ consumed' = consumed \cup {<<g.grantId, inv>>}
      /\ usesByGrant' = [usesByGrant EXCEPT ![g.grantId] = @ + 1]
      /\ accepted' = accepted \cup {use} /\ clock' = clock
  BY DEF VerifyAndConsume
<1>3. /\ nonceOwner[g.nonce] \in {Unbound, g.grantId}
      /\ <<g.grantId, inv>> \notin consumed
      /\ usesByGrant[g.grantId] < g.maxUses
  BY DEF VerifyAndConsume, ConsumeAllowed
<1>4. /\ Authentic(g) /\ g.binding = call
      /\ g.notBefore <= clock /\ clock < g.expires
  BY DEF VerifyAndConsume, Verified
<1>5. use \notin accepted
  BY <1>3 DEF GrantsInv
<1>6. GrantsTypeOK'
  BY <1>1, <1>2 DEF GrantsInv, GrantsTypeOK
<1>7. ASSUME NEW id \in GrantIds
      PROVE  /\ IsFiniteSet(UsesOf(id)') /\ Cardinality(UsesOf(id)') = usesByGrant'[id]
             /\ Covered(id)'
  <2>1. /\ IsFiniteSet(UsesOf(id)) /\ Cardinality(UsesOf(id)) = usesByGrant[id]
        /\ usesByGrant[id] \in Nat /\ Covered(id)
    BY DEF GrantsInv, GrantsTypeOK
  <2>2. CASE id = g.grantId
    <3>1. UsesOf(id)' = UsesOf(id) \cup {use}
      BY <2>2, <1>2, UsesGrow
    <3>2. use \notin UsesOf(id)
      BY <1>5 DEF UsesOf
    <3>3. /\ IsFiniteSet(UsesOf(id)')
          /\ Cardinality(UsesOf(id)') = usesByGrant[id] + 1
      <4>1. /\ IsFiniteSet(UsesOf(id) \cup {use})
            /\ Cardinality(UsesOf(id) \cup {use}) = Cardinality(UsesOf(id)) + 1
        BY <3>2, <2>1, FS_AddElement
      <4> QED BY <4>1, <3>1, <2>1
    <3>4. usesByGrant'[id] = usesByGrant[id] + 1
      BY <2>2, <1>2 DEF GrantsInv, GrantsTypeOK
    <3>5. use \in UsesOf(id)' /\ use.grant = g
      BY <3>1
    <3>6. usesByGrant'[id] <= g.maxUses
      BY <3>4, <2>1, <2>2, <1>3, GrantsAssumption
    <3> QED BY <3>3, <3>4, <3>5, <3>6 DEF Covered
  <2>3. CASE id # g.grantId
    <3>1. UsesOf(id)' = UsesOf(id)
      BY <2>3, <1>2, UsesGrow
    <3>2. usesByGrant'[id] = usesByGrant[id]
      BY <2>3, <1>2 DEF GrantsInv, GrantsTypeOK
    <3> QED BY <3>1, <3>2, <2>1 DEF Covered
  <2> QED BY <2>2, <2>3
<1>8. ASSUME NEW a \in accepted'
      PROVE  /\ nonceOwner'[a.grant.nonce] = a.grant.grantId
             /\ <<a.grant.grantId, a.invocation>> \in consumed'
             /\ Authentic(a.grant)' /\ a.grant.binding = a.call
             /\ a.grant.notBefore <= a.at /\ a.at < a.grant.expires
  <2>1. CASE a = use
    <3>1. nonceOwner'[g.nonce] = g.grantId
      BY <1>1, <1>2 DEF GrantsInv, GrantsTypeOK
    <3> QED BY <3>1, <2>1, <1>2, <1>4 DEF Authentic
  <2>2. CASE a \in accepted
    <3>1. /\ nonceOwner[a.grant.nonce] = a.grant.grantId
          /\ <<a.grant.grantId, a.invocation>> \in consumed
          /\ Authentic(a.grant) /\ a.grant.binding = a.call
          /\ a.grant.notBefore <= a.at /\ a.at < a.grant.expires
      BY <2>2 DEF GrantsInv
    <3>2. a.grant.nonce \in Nonces /\ a.grant.grantId \in GrantIds
      BY <2>2 DEF GrantsInv, GrantsTypeOK, Uses, Nonces, GrantIds
    <3>3. nonceOwner'[a.grant.nonce] = a.grant.grantId
      BY <3>1, <3>2, <1>2, <1>3, GrantsAssumption DEF GrantsInv, GrantsTypeOK
    <3> QED BY <3>1, <3>3, <1>2 DEF Authentic
  <2> QED BY <2>1, <2>2, <1>2
<1>9. ASSUME NEW a \in accepted', NEW b \in accepted',
             a.grant.grantId = b.grant.grantId, a.invocation = b.invocation
      PROVE  a = b
  BY <1>2, <1>3, <1>9 DEF GrantsInv
<1> QED BY <1>6, <1>7, <1>8, <1>9 DEF GrantsInv

LEMMA GrantsInvStep == GrantsInv /\ [GrantsNext]_grantVars => GrantsInv'
<1> SUFFICES ASSUME GrantsInv, [GrantsNext]_grantVars
             PROVE  GrantsInv'
  OBVIOUS
<1>1. ASSUME NEW g \in Grants, NEW call \in GrantCalls, NEW inv \in Invocations,
             VerifyAndConsume(g, call, inv)
      PROVE  GrantsInv'
  BY <1>1, ConsumeKeepsGrantsInv
<1>2. CASE GrantTick \/ UNCHANGED grantVars
  <2>1. /\ usesByGrant' = usesByGrant /\ consumed' = consumed
        /\ nonceOwner' = nonceOwner /\ accepted' = accepted
        /\ clock' = clock \/ clock' = clock + 1
    BY <1>2 DEF GrantTick, grantVars
  <2>2. GrantsTypeOK'
    BY <2>1 DEF GrantsInv, GrantsTypeOK
  <2>3. \A id : UsesOf(id)' = UsesOf(id) /\ (Covered(id) => Covered(id)')
    BY <2>1 DEF UsesOf, Covered
  <2> QED BY <2>1, <2>2, <2>3 DEF GrantsInv, Authentic
<1> QED BY <1>1, <1>2 DEF GrantsNext

LEMMA GrantsInvInit == GrantsInit => GrantsInv
<1> SUFFICES ASSUME GrantsInit PROVE GrantsInv
  OBVIOUS
<1>1. accepted = {} /\ \A id \in GrantIds : UsesOf(id) = {}
  BY DEF GrantsInit, UsesOf
<1>2. GrantsTypeOK
  BY DEF GrantsInit, GrantsTypeOK
<1>3. \A id \in GrantIds : usesByGrant[id] = 0
  BY DEF GrantsInit
<1> QED BY <1>1, <1>2, <1>3, FS_EmptySet DEF GrantsInv, Covered

\* A grant is never stretched, whatever grants share ids and nonces and in whatever
\* order they are presented (verify_and_consume, GrantUseLedger.consume).
THEOREM GrantsAreNotStretched == GrantsSpec => []GrantNotStretched
<1>1. GrantsInv => GrantNotStretched
  <2> SUFFICES ASSUME GrantsInv PROVE GrantNotStretched
    OBVIOUS
  <2>1. ASSUME NEW a \in accepted
        PROVE  \E b \in UsesOf(a.grant.grantId) :
                  Cardinality(UsesOf(a.grant.grantId)) <= b.grant.maxUses
    <3>1. a.grant.grantId \in GrantIds /\ a \in UsesOf(a.grant.grantId)
      BY DEF GrantsInv, GrantsTypeOK, Uses, GrantIds, UsesOf
    <3>2. usesByGrant[a.grant.grantId] # 0
      BY <3>1, FS_EmptySet DEF GrantsInv
    <3> QED BY <3>1, <3>2 DEF GrantsInv, GrantsTypeOK, Covered
  <2> QED BY <2>1 DEF GrantsInv, GrantNotStretched
<1> QED BY <1>1, GrantsInvInit, GrantsInvStep, PTL DEF GrantsSpec

-----------------------------------------------------------------------------
(***************************************************************************)
(* Local IPC.  An answer is only sent once the id is in the cache, and the *)
(* cache only grows.                                                       *)
(***************************************************************************)
IpcInv ==
    /\ IpcTypeOK
    /\ \A h \in Handlers : handlerAt[h] \in {"insert", "reply"} => handling[h] \in IpcRequests
    /\ \A h \in Handlers : handlerAt[h] = "reply" => Token(handling[h]) \in seen

LEMMA IpcInvInit == IpcInit => IpcInv
  BY IpcAssumption DEF IpcInit, IpcInv, IpcTypeOK

LEMMA IpcInvStep == IpcInv /\ [IpcNext]_ipcVars => IpcInv'
<1> SUFFICES ASSUME IpcInv, [IpcNext]_ipcVars
             PROVE  IpcInv'
  OBVIOUS
<1> USE IpcAssumption DEF IpcInv, IpcTypeOK
<1>1. ASSUME NEW h \in Handlers, NEW e \in IpcRequests, HandleRequest(h, e)
      PROVE  IpcInv'
  BY <1>1 DEF HandleRequest, Token
<1>2. ASSUME NEW h \in Handlers, InsertToken(h)
      PROVE  IpcInv'
  BY <1>2 DEF InsertToken, Token
<1>3. ASSUME NEW h \in Handlers, SendProof(h)
      PROVE  IpcInv'
  BY <1>3 DEF SendProof, Token
<1>4. ASSUME NEW h \in Handlers, NextConnection(h)
      PROVE  IpcInv'
  BY <1>4 DEF NextConnection, Token
<1>5. CASE IpcTick \/ UNCHANGED ipcVars
  BY <1>5 DEF IpcTick, ipcVars, Token
<1> QED BY <1>1, <1>2, <1>3, <1>4, <1>5 DEF IpcNext

\* Taking a request in is a step of that handler, which found the id absent from
\* a cache that holds every answered one.
LEMMA TakenInIsNew ==
    ASSUME IpcInv, [IpcNext]_ipcVars, NEW h \in Handlers,
           handlerAt[h] = "read", handlerAt'[h] = "insert"
    PROVE  /\ Token(handling'[h]) \notin answered
           /\ PeerKeys[handling'[h].peer] = handling'[h].mac
<1> USE IpcAssumption DEF IpcInv, IpcTypeOK
<1>1. ASSUME NEW k \in Handlers, NEW e \in IpcRequests, HandleRequest(k, e)
      PROVE  /\ Token(handling'[h]) \notin answered
             /\ PeerKeys[handling'[h].peer] = handling'[h].mac
  <2>1. k = h /\ handling'[h] = e
    BY <1>1 DEF HandleRequest
  <2>2. AuthenticRequest(e, ipcTime) /\ Fresh(e)
    BY <1>1, <2>1 DEF HandleRequest
  <2> QED BY <2>1, <2>2 DEF AuthenticRequest, Fresh
<1>2. ~\E k \in Handlers : InsertToken(k) \/ SendProof(k) \/ NextConnection(k)
  BY DEF InsertToken, SendProof, NextConnection
<1>3. ~IpcTick /\ ~UNCHANGED ipcVars
  BY DEF IpcTick, ipcVars
<1> QED BY <1>1, <1>2, <1>3 DEF IpcNext

\* A request that was answered is not taken in again, for any number of threads,
\* peers and requests, although the cache is not locked (ReplayCache.consume).
THEOREM AnswersAreNotReplayed == IpcSpec => AnsweredNotReplayed
<1>1. IpcInv /\ [IpcNext]_ipcVars =>
        [\A h \in Handlers :
          handlerAt[h] = "read" /\ handlerAt'[h] = "insert"
              => /\ Token(handling'[h]) \notin answered
                 /\ PeerKeys[handling'[h].peer] = handling'[h].mac]_ipcVars
  BY TakenInIsNew
<1> QED BY <1>1, IpcInvInit, IpcInvStep, PTL DEF IpcSpec, AnsweredNotReplayed

-----------------------------------------------------------------------------
(***************************************************************************)
(* Secrets.  Whoever may still read the secret has claimed its file, so    *)
(* the file is gone; a second claim needs the file, and a released secret  *)
(* has neither a file nor a claim that is still to be read.                *)
(***************************************************************************)
Reads(p, s) == brokerAt[p] = "read" /\ brokerOn[p] = s

SecretsInv ==
    /\ SecretsTypeOK
    /\ \A s \in present : issuedAt[s] # -1
    /\ \A p \in Brokers : brokerAt[p] = "read" =>
          brokerOn[p] \notin present /\ issuedAt[brokerOn[p]] # -1
    /\ \A p, q \in Brokers :
          brokerAt[p] = "read" /\ brokerAt[q] = "read" /\ brokerOn[p] = brokerOn[q] => p = q
    /\ \A r \in released :
          /\ r[1] \notin present /\ issuedAt[r[1]] # -1
          /\ \A p \in Brokers : ~Reads(p, r[1])
          /\ r[4] < issuedAt[r[1]] + Lifetime
          /\ SecretOwner[r[1]] # Anyone => r[3] \in {Anyone, SecretOwner[r[1]]}
    /\ \A r, t \in released : r[1] = t[1] => r = t

LEMMA SecretsInvInit == SecretsInit => SecretsInv
<1> SUFFICES ASSUME SecretsInit PROVE SecretsInv
  OBVIOUS
<1>1. SecretsTypeOK
  <2>1. (CHOOSE s \in Secrets : TRUE) \in Secrets
    BY SecretsAssumption
  <2> QED BY <2>1, SecretsAssumption DEF SecretsInit, SecretsTypeOK, BrokerSteps
<1> QED BY <1>1 DEF SecretsInit, SecretsInv, Reads

\* Steps that neither issue, claim nor read a secret.
LEMMA QuietStepKeepsSecretsInv ==
    ASSUME SecretsInv, SecretsTypeOK', present' \subseteq present,
           issuedAt' = issuedAt, released' = released,
           \A p \in Brokers : brokerAt'[p] = "read" =>
               brokerAt[p] = "read" /\ brokerOn'[p] = brokerOn[p]
    PROVE  SecretsInv'
  BY DEF SecretsInv, Reads

LEMMA SecretsTypeStep == SecretsTypeOK /\ [SecretsNext]_secretVars => SecretsTypeOK'
<1> SUFFICES ASSUME SecretsTypeOK, [SecretsNext]_secretVars
             PROVE  SecretsTypeOK'
  OBVIOUS
<1> USE SecretsAssumption DEF SecretsTypeOK, BrokerSteps, Step
<1>1. ASSUME NEW p \in Brokers, NEW s \in Secrets, IssueSecret(p, s)
      PROVE  SecretsTypeOK'
  BY <1>1 DEF IssueSecret
<1>2. ASSUME NEW p \in Brokers, NEW s \in Secrets, NEW owner \in Callers,
             ConsumeSecret(p, s, owner)
      PROVE  SecretsTypeOK'
  BY <1>2 DEF ConsumeSecret
<1>3. ASSUME NEW p \in Brokers, NEW s \in Secrets, PurgeRead(p, s)
      PROVE  SecretsTypeOK'
  BY <1>3 DEF PurgeRead
<1>4. ASSUME NEW p \in Brokers, WriteSecret(p) \/ DropClaim(p) \/ PurgeUnlink(p)
      PROVE  SecretsTypeOK'
  BY <1>4 DEF WriteSecret, DropClaim, PurgeUnlink
<1>5. ASSUME NEW p \in Brokers, ClaimSecret(p)
      PROVE  SecretsTypeOK'
  BY <1>5 DEF ClaimSecret
<1>6. ASSUME NEW p \in Brokers, ReadSecret(p)
      PROVE  SecretsTypeOK'
  BY <1>6 DEF ReadSecret
<1>7. ASSUME NEW p \in Brokers, BrokerDies(p)
      PROVE  SecretsTypeOK'
  BY <1>7 DEF BrokerDies
<1>8. CASE SecretTick \/ UNCHANGED secretVars
  BY <1>8 DEF SecretTick, secretVars
<1> QED BY <1>1, <1>2, <1>3, <1>4, <1>5, <1>6, <1>7, <1>8 DEF SecretsNext

\* A handle is issued once, so nothing is known of it before.
LEMMA IssueKeepsSecretsInv ==
    ASSUME SecretsInv, SecretsTypeOK', NEW p \in Brokers, NEW s \in Secrets, IssueSecret(p, s)
    PROVE  SecretsInv'
<1> USE SecretsAssumption DEF SecretsInv, SecretsTypeOK
<1>1. /\ issuedAt[s] = -1 /\ issuedAt' = [issuedAt EXCEPT ![s] = secretTime]
      /\ present' = present \cup {s} /\ released' = released
      /\ secretTime \in Nat
      /\ brokerAt' = [brokerAt EXCEPT ![p] = "write"]
      /\ brokerOn' = [brokerOn EXCEPT ![p] = s]
  BY DEF IssueSecret, Step
<1>2. \A q \in Brokers : brokerAt'[q] = "read" =>
          /\ brokerAt[q] = "read" /\ brokerOn'[q] = brokerOn[q] /\ brokerOn[q] # s
  BY <1>1
<1>3. \A r \in released : r[1] # s /\ r[1] \in Secrets
  BY <1>1
<1>4. \A t \in Secrets : t # s => issuedAt'[t] = issuedAt[t]
  BY <1>1
<1>5. issuedAt'[s] # -1
  BY <1>1
<1>6. \A t \in present' : issuedAt'[t] # -1
  BY <1>1, <1>4, <1>5
<1>7. \A q \in Brokers : brokerAt'[q] = "read" =>
          brokerOn'[q] \notin present' /\ issuedAt'[brokerOn'[q]] # -1
  BY <1>1, <1>2, <1>4
<1>8. \A q, k \in Brokers :
          brokerAt'[q] = "read" /\ brokerAt'[k] = "read" /\ brokerOn'[q] = brokerOn'[k] => q = k
  BY <1>2
<1>9. ASSUME NEW r \in released'
      PROVE  /\ r[1] \notin present' /\ issuedAt'[r[1]] # -1
             /\ \A q \in Brokers : ~Reads(q, r[1])'
             /\ r[4] < issuedAt'[r[1]] + Lifetime
             /\ SecretOwner[r[1]] # Anyone => r[3] \in {Anyone, SecretOwner[r[1]]}
  BY <1>1, <1>2, <1>3, <1>4 DEF Reads
<1> QED BY <1>1, <1>6, <1>7, <1>8, <1>9

\* Renaming needs the file: whoever claimed before took it away.
LEMMA ClaimKeepsSecretsInv ==
    ASSUME SecretsInv, SecretsTypeOK', NEW p \in Brokers, ClaimSecret(p)
    PROVE  SecretsInv'
<1> USE DEF SecretsInv, SecretsTypeOK
<1>1. /\ present' = present \ {brokerOn[p]}
      /\ brokerOn' = brokerOn /\ issuedAt' = issuedAt /\ released' = released
  BY DEF ClaimSecret
<1>2. CASE brokerOn[p] \in present
  <2>1. brokerAt' = [brokerAt EXCEPT ![p] = "read"]
    BY <1>2 DEF ClaimSecret, Step
  <2>2. \A q \in Brokers : brokerAt'[q] = "read" =>
            q = p \/ (brokerAt[q] = "read" /\ brokerOn[q] # brokerOn[p])
    BY <2>1, <1>2
  <2>3. \A r \in released : r[1] # brokerOn[p]
    BY <1>2
  <2> QED BY <1>1, <1>2, <2>1, <2>2, <2>3 DEF Reads
<1>3. CASE brokerOn[p] \notin present
  <2>1. \A q \in Brokers : brokerAt'[q] = "read" => brokerAt[q] = "read"
    BY <1>3 DEF ClaimSecret, Step
  <2> QED BY <1>1, <2>1, QuietStepKeepsSecretsInv
<1> QED BY <1>2, <1>3

\* What a reader releases was released by nobody before, and it was the only one
\* that could.
LEMMA ReadKeepsSecretsInv ==
    ASSUME SecretsInv, SecretsTypeOK', NEW p \in Brokers, ReadSecret(p)
    PROVE  SecretsInv'
<1> USE SecretsAssumption DEF SecretsInv, SecretsTypeOK
<1> DEFINE s == brokerOn[p]
           take == <<s, p, brokerAs[p], secretTime>>
<1>1. /\ brokerAt[p] = "read" /\ brokerAt' = [brokerAt EXCEPT ![p] = "unlink_claim"]
      /\ present' = present /\ brokerOn' = brokerOn /\ issuedAt' = issuedAt
  BY DEF ReadSecret, Step
<1>2. \A q \in Brokers : brokerAt'[q] = "read" => q # p /\ brokerAt[q] = "read" /\ brokerOn[q] # s
  BY <1>1
<1>3. CASE released' = released
  BY <1>1, <1>2, <1>3, QuietStepKeepsSecretsInv
<1>4. CASE released' # released
  <2>1. /\ released' = released \cup {take}
        /\ brokerAs[p] = Anyone \/ SecretOwner[s] = Anyone \/ brokerAs[p] = SecretOwner[s]
        /\ ~Expired(s)
    BY <1>4 DEF ReadSecret
  <2>2. take[1] = s /\ take[3] = brokerAs[p] /\ take[4] = secretTime
    OBVIOUS
  <2>3. \A r \in released : r[1] # s
    BY <1>1 DEF Reads
  <2>4. s \in Secrets /\ s \notin present /\ issuedAt[s] # -1 /\ secretTime < issuedAt[s] + Lifetime
    BY <1>1, <2>1 DEF Expired
  <2>5. \A q \in Brokers : ~Reads(q, s)'
    BY <1>1, <1>2 DEF Reads
  <2>6. ASSUME NEW r \in released'
        PROVE  /\ r[1] \notin present' /\ issuedAt'[r[1]] # -1
               /\ \A q \in Brokers : ~Reads(q, r[1])'
               /\ r[4] < issuedAt'[r[1]] + Lifetime
               /\ SecretOwner[r[1]] # Anyone => r[3] \in {Anyone, SecretOwner[r[1]]}
    <3>1. CASE r = take
      BY <3>1, <1>1, <2>1, <2>2, <2>4, <2>5
    <3>2. CASE r \in released
      BY <3>2, <1>1, <1>2 DEF Reads
    <3> QED BY <3>1, <3>2, <2>1
  <2>7. \A r, t \in released' : r[1] = t[1] => r = t
    BY <2>1, <2>2, <2>3
  <2> QED BY <1>1, <1>2, <2>6, <2>7
<1> QED BY <1>3, <1>4

LEMMA SecretsInvStep == SecretsInv /\ [SecretsNext]_secretVars => SecretsInv'
<1> SUFFICES ASSUME SecretsInv, [SecretsNext]_secretVars
             PROVE  SecretsInv'
  OBVIOUS
<1>0. SecretsTypeOK /\ SecretsTypeOK'
  BY SecretsTypeStep DEF SecretsInv
<1>1. ASSUME NEW p \in Brokers, NEW s \in Secrets, IssueSecret(p, s)
      PROVE  SecretsInv'
  BY <1>0, <1>1, IssueKeepsSecretsInv
<1>2. ASSUME NEW p \in Brokers, NEW s \in Secrets, NEW owner \in Callers,
             ConsumeSecret(p, s, owner)
      PROVE  SecretsInv'
  BY <1>0, <1>2, QuietStepKeepsSecretsInv DEF ConsumeSecret, Step, SecretsTypeOK
<1>3. ASSUME NEW p \in Brokers, NEW s \in Secrets, PurgeRead(p, s)
      PROVE  SecretsInv'
  BY <1>0, <1>3, QuietStepKeepsSecretsInv DEF PurgeRead, Step, SecretsTypeOK
<1>4. ASSUME NEW p \in Brokers, WriteSecret(p) \/ DropClaim(p) \/ PurgeUnlink(p) \/ BrokerDies(p)
      PROVE  SecretsInv'
  BY <1>0, <1>4, QuietStepKeepsSecretsInv
     DEF WriteSecret, DropClaim, PurgeUnlink, BrokerDies, Step, SecretsTypeOK
<1>5. ASSUME NEW p \in Brokers, ClaimSecret(p)
      PROVE  SecretsInv'
  BY <1>0, <1>5, ClaimKeepsSecretsInv
<1>6. ASSUME NEW p \in Brokers, ReadSecret(p)
      PROVE  SecretsInv'
  BY <1>0, <1>6, ReadKeepsSecretsInv
<1>7. CASE SecretTick \/ UNCHANGED secretVars
  BY <1>0, <1>7, QuietStepKeepsSecretsInv DEF SecretTick, secretVars
<1> QED BY <1>1, <1>2, <1>3, <1>4, <1>5, <1>6, <1>7 DEF SecretsNext

\* A secret leaves the broker at most once, in time and to its owner, for any number
\* of racing consumers and purges that die at any step (consume_secret, purge_expired).
THEOREM SecretsAreReleasedOnce == SecretsSpec => []SecretReleasedOnce
<1>1. SecretsInv => SecretReleasedOnce
  <2> SUFFICES ASSUME SecretsInv, NEW s \in Secrets
               PROVE  LET takes == {r \in released : r[1] = s} IN
                      /\ Cardinality(takes) <= 1
                      /\ \A r \in takes :
                            /\ r[4] < issuedAt[s] + Lifetime
                            /\ SecretOwner[s] # Anyone => r[3] \in {Anyone, SecretOwner[s]}
    BY DEF SecretReleasedOnce
  <2> DEFINE takes == {r \in released : r[1] = s}
  <2>1. CASE takes = {}
    BY <2>1, FS_EmptySet
  <2>2. CASE takes # {}
    <3>1. PICK t \in takes : takes = {t}
      BY <2>2 DEF SecretsInv
    <3>2. Cardinality(takes) = 1
      BY <3>1, FS_Singleton
    <3> QED BY <3>2 DEF SecretsInv
  <2> QED BY <2>1, <2>2
<1> QED BY <1>1, SecretsInvInit, SecretsInvStep, PTL DEF SecretsSpec

-----------------------------------------------------------------------------
(***************************************************************************)
(* Extensions and key handles.  What was revoked is marked so where the    *)
(* registry keeps it, and no operation unmarks it: a second installation   *)
(* or registration finds the identity or the id taken.                     *)
(***************************************************************************)
RevokedIn(i) == installed[i] # NotInstalled /\ installed[i].revoked /\ ~installed[i].enabled

KeyRevokedIn(k) == k \in DOMAIN keyHandles /\ keyHandles[k].status = "revoked"

HandleShaped(h) ==
    h = [keyId |-> h.keyId, provider |-> h.provider, opaque |-> h.opaque,
         status |-> h.status, purpose |-> h.purpose, domain |-> h.domain]

ExtensionsInv ==
    /\ ExtensionsTypeOK
    /\ \A k \in DOMAIN keyHandles : HandleShaped(keyHandles[k])
    /\ keyHandles = [k \in DOMAIN keyHandles |-> keyHandles[k]]
    /\ \A i \in Identities : <<"extension", i>> \in everRevoked => RevokedIn(i)
    /\ \A k \in KeyIds : <<"key", k>> \in everRevoked => KeyRevokedIn(k)

LEMMA ExtensionsInvInit == ExtensionsInit => ExtensionsInv
  BY ExtensionsAssumption
     DEF ExtensionsInit, ExtensionsInv, ExtensionsTypeOK, HandleShaped, RevokedIn, KeyRevokedIn

\* One extension of the registry changes; if it was revoked, it still is.
LEMMA ExtensionChanges ==
    ASSUME ExtensionsInv, NEW i \in Identities, NEW x \in Extensions,
           installed' = [installed EXCEPT ![i] = x],
           keyHandles' = keyHandles, extensionTime' = extensionTime,
           everRevoked' \in {everRevoked, everRevoked \cup {<<"extension", i>>}},
           <<"extension", i>> \in everRevoked' => x.revoked /\ ~x.enabled
    PROVE  ExtensionsInv'
<1> USE DEF ExtensionsInv, ExtensionsTypeOK
<1>1. installed'[i] = x /\ x # NotInstalled
  BY ExtensionsAssumption
<1>2. ExtensionsTypeOK'
  BY <1>1
<1>3. ASSUME NEW j \in Identities, <<"extension", j>> \in everRevoked'
      PROVE  RevokedIn(j)'
  <2>1. CASE j = i
    BY <2>1, <1>1, <1>3 DEF RevokedIn
  <2>2. CASE j # i
    BY <2>2, <1>3 DEF RevokedIn
  <2> QED BY <2>1, <2>2
<1>4. \A k \in KeyIds : <<"key", k>> \in everRevoked' => KeyRevokedIn(k)'
  BY DEF KeyRevokedIn
<1> QED BY <1>2, <1>3, <1>4 DEF HandleShaped

LEMMA ExtensionsInvStep == ExtensionsInv /\ [ExtensionsNext]_extensionVars => ExtensionsInv'
<1> SUFFICES ASSUME ExtensionsInv, [ExtensionsNext]_extensionVars
             PROVE  ExtensionsInv'
  OBVIOUS
<1> USE DEF ExtensionsInv, ExtensionsTypeOK
<1>1. ASSUME NEW e \in Candidates, InstallExtension(e)
      PROVE  ExtensionsInv'
  <2> DEFINE i == e.payload.identity
             x == [manifest |-> e.payload, enabled |-> FALSE, revoked |-> FALSE,
                   reviewRequired |-> e.payload.capabilities # {}]
  <2>1. i \in Identities /\ x \in Extensions
    BY DEF Identities, Extensions
  <2>2. installed' = [installed EXCEPT ![i] = x]
    BY <1>1 DEF InstallExtension
  <2>3. keyHandles' = keyHandles /\ extensionTime' = extensionTime /\ everRevoked' = everRevoked
    BY <1>1 DEF InstallExtension
  <2>4. <<"extension", i>> \notin everRevoked
    BY <2>1, <1>1 DEF InstallExtension, RevokedIn
  <2> HIDE DEF i, x
  <2> QED BY <2>1, <2>2, <2>3, <2>4, ExtensionChanges
<1>2. ASSUME NEW i \in Identities, NEW e \in Candidates, UpdateExtension(i, e)
      PROVE  ExtensionsInv'
  <2> DEFINE changed == e.payload.capabilities # installed[i].manifest.capabilities
             x == [manifest |-> e.payload, enabled |-> installed[i].enabled /\ ~changed,
                   revoked |-> FALSE, reviewRequired |-> changed]
  <2>1. installed[i] \in Extensions /\ ~installed[i].revoked
    BY <1>2 DEF UpdateExtension, UpdateAllowed
  <2>2. x \in Extensions
    BY <2>1, Zenon DEF Extensions
  <2>3. installed' = [installed EXCEPT ![i] = x]
    BY <1>2 DEF UpdateExtension
  <2>4. keyHandles' = keyHandles /\ extensionTime' = extensionTime /\ everRevoked' = everRevoked
    BY <1>2 DEF UpdateExtension
  <2>5. <<"extension", i>> \notin everRevoked
    BY <2>1 DEF RevokedIn
  <2> HIDE DEF x
  <2> QED BY <2>2, <2>3, <2>4, <2>5, ExtensionChanges
<1>3. ASSUME NEW i \in Identities, NEW approved \in BOOLEAN, EnableExtension(i, approved)
      PROVE  ExtensionsInv'
  <2> DEFINE x == [installed[i] EXCEPT !.enabled = TRUE, !.reviewRequired = FALSE]
  <2>1. installed[i] \in Extensions /\ ~installed[i].revoked
    BY <1>3 DEF EnableExtension
  <2>2. x \in Extensions /\ installed' = [installed EXCEPT ![i] = x]
    BY <2>1, <1>3 DEF Extensions, EnableExtension
  <2>3. keyHandles' = keyHandles /\ extensionTime' = extensionTime /\ everRevoked' = everRevoked
    BY <1>3 DEF EnableExtension
  <2>4. <<"extension", i>> \notin everRevoked
    BY <2>1 DEF RevokedIn
  <2> HIDE DEF x
  <2> QED BY <2>2, <2>3, <2>4, ExtensionChanges
<1>4. ASSUME NEW i \in Identities, DisableExtension(i) \/ RevokeExtension(i)
      PROVE  ExtensionsInv'
  <2>1. installed[i] \in Extensions
    BY <1>4 DEF DisableExtension, RevokeExtension
  <2>2. keyHandles' = keyHandles /\ extensionTime' = extensionTime
    BY <1>4 DEF DisableExtension, RevokeExtension
  <2>3. CASE DisableExtension(i)
    <3> DEFINE x == [installed[i] EXCEPT !.enabled = FALSE]
    <3>1. x \in Extensions /\ ~x.enabled /\ x.revoked = installed[i].revoked
      BY <2>1 DEF Extensions
    <3>2. installed' = [installed EXCEPT ![i] = x] /\ everRevoked' = everRevoked
      BY <2>3 DEF DisableExtension
    <3>3. <<"extension", i>> \in everRevoked' => x.revoked
      BY <3>1, <3>2 DEF RevokedIn
    <3> HIDE DEF x
    <3> QED BY <3>1, <3>2, <3>3, <2>2, ExtensionChanges
  <2>4. CASE RevokeExtension(i)
    <3> DEFINE x == [installed[i] EXCEPT !.enabled = FALSE, !.revoked = TRUE,
                                         !.reviewRequired = FALSE]
    <3>1. x \in Extensions /\ ~x.enabled /\ x.revoked
      BY <2>1 DEF Extensions
    <3>2. /\ installed' = [installed EXCEPT ![i] = x]
          /\ everRevoked' = everRevoked \cup {<<"extension", i>>}
      BY <2>4 DEF RevokeExtension
    <3> HIDE DEF x
    <3> QED BY <3>1, <3>2, <2>2, ExtensionChanges
  <2> QED BY <1>4, <2>3, <2>4
<1>5. ASSUME NEW h \in KeyHandles, RegisterKey(h)
      PROVE  ExtensionsInv'
  <2>1. h.keyId \in KeyIds /\ h.keyId \notin DOMAIN keyHandles /\ HandleShaped(h)
    BY <1>5, ExtensionsAssumption DEF RegisterKey, KeyIds, HandleShaped
  <2>2. /\ keyHandles' = [k \in DOMAIN keyHandles \cup {h.keyId} |->
                            IF k = h.keyId THEN h ELSE keyHandles[k]]
        /\ installed' = installed /\ extensionTime' = extensionTime
        /\ everRevoked' = everRevoked
    BY <1>5 DEF RegisterKey
  <2>3. \A k \in DOMAIN keyHandles : k # h.keyId /\ keyHandles'[k] = keyHandles[k]
    BY <2>1, <2>2
  <2>4. DOMAIN keyHandles' = DOMAIN keyHandles \cup {h.keyId} /\ keyHandles'[h.keyId] = h
    BY <2>2
  <2>5. \A k \in DOMAIN keyHandles' : HandleShaped(keyHandles'[k])
    BY <2>1, <2>3, <2>4 DEF HandleShaped
  <2>6. keyHandles' = [k \in DOMAIN keyHandles' |-> keyHandles'[k]]
    BY <2>2
  <2>7. \A k \in KeyIds : KeyRevokedIn(k) => KeyRevokedIn(k)'
    BY <2>3, <2>4 DEF KeyRevokedIn
  <2>8. \A i \in Identities : RevokedIn(i)' = RevokedIn(i)
    BY <2>2 DEF RevokedIn
  <2> QED BY <2>1, <2>2, <2>4, <2>5, <2>6, <2>7, <2>8
<1>6. ASSUME NEW k \in KeyIds, RevokeKey(k)
      PROVE  ExtensionsInv'
  <2>1. k \in DOMAIN keyHandles /\ HandleShaped(keyHandles[k])
    BY <1>6 DEF RevokeKey
  <2>2. /\ keyHandles' = [keyHandles EXCEPT ![k].status = "revoked"]
        /\ installed' = installed /\ extensionTime' = extensionTime
        /\ everRevoked' = everRevoked \cup {<<"key", k>>}
    BY <1>6 DEF RevokeKey
  <2>3. /\ DOMAIN keyHandles' = DOMAIN keyHandles
        /\ keyHandles'[k] = [keyHandles[k] EXCEPT !.status = "revoked"]
        /\ \A j \in DOMAIN keyHandles : j # k => keyHandles'[j] = keyHandles[j]
    BY <2>1, <2>2
  <2>4. HandleShaped(keyHandles'[k]) /\ keyHandles'[k].status = "revoked"
    BY <2>1, <2>3 DEF HandleShaped
  <2>5. \A j \in DOMAIN keyHandles' : HandleShaped(keyHandles'[j])
    BY <2>3, <2>4
  <2>6. keyHandles' = [j \in DOMAIN keyHandles' |-> keyHandles'[j]]
    BY <2>2
  <2>7. \A j \in KeyIds : j = k \/ KeyRevokedIn(j) => KeyRevokedIn(j)'
    BY <2>1, <2>3, <2>4 DEF KeyRevokedIn
  <2>8. \A i \in Identities : RevokedIn(i)' = RevokedIn(i)
    BY <2>2 DEF RevokedIn
  <2>9. ExtensionsTypeOK'
    BY <2>2, <2>3
  <2> QED BY <2>2, <2>5, <2>6, <2>7, <2>8, <2>9
<1>7. CASE ExtensionTick \/ UNCHANGED extensionVars
  <2>1. /\ installed' = installed /\ keyHandles' = keyHandles /\ everRevoked' = everRevoked
        /\ extensionTime' \in 0 .. MaxExtensionTime
    BY <1>7, ExtensionsAssumption DEF ExtensionTick, extensionVars
  <2> QED BY <2>1 DEF HandleShaped, RevokedIn, KeyRevokedIn
<1> QED BY <1>1, <1>2, <1>3, <1>4, <1>5, <1>6, <1>7 DEF ExtensionsNext

\* What was revoked stays revoked, for any candidates, extensions and key handles and
\* in whatever order they are installed, updated, enabled and registered (install,
\* update, enable, register, revoke).
THEOREM RevocationIsFinal == ExtensionsSpec => []RevokedIsFinal
<1>1. ExtensionsInv => RevokedIsFinal
  BY DEF ExtensionsInv, RevokedIsFinal, RevokedIn, KeyRevokedIn, ResolvesKey
<1> QED BY <1>1, ExtensionsInvInit, ExtensionsInvStep, PTL DEF ExtensionsSpec

-----------------------------------------------------------------------------
(***************************************************************************)
(* Policy.  The overlays are applied one by one; the scope left after some *)
(* of them lies within the limits of each, whatever their order, because   *)
(* the intersection with the next keeps it there.                          *)
(***************************************************************************)

\* Everything a set of host or lease patterns covers, the limits cover.
Inside(s, limits) == "*" \in limits \/ s \subseteq limits

PathsInside(s, limits) == \A p \in s : \E q \in limits : Within(p, q)

\* What has to be so while the request is evaluated, for an overlay that is applied.
Applied(o) ==
    /\ "paths" \in DOMAIN o.limits => PathsInside(scope.paths, o.limits.paths)
    /\ "hosts" \in DOMAIN o.limits => Inside(scope.hosts, o.limits.hosts)
    /\ "leases" \in DOMAIN o.limits => Inside(scope.leases, o.limits.leases)
    /\ o.maxBudget >= 0 => budget <= o.maxBudget
    /\ o.approval = "always" => approvalPolicy = "always"
    /\ reasons = {} => /\ o.maxBudget >= 0 /\ ~o.forceDeny
                       /\ {request.capability, request.tool} \cap o.deny = {}

PolicyInv ==
    /\ PolicyTypeOK
    /\ status = "evaluating" =>
          /\ scope.paths \subseteq Paths
          /\ \A o \in request.overlays \ pending : Applied(o)
    /\ OverlaysOnlyNarrow

\* Being below is transitive.
LEMMA WithinTransitive ==
    ASSUME NEW p \in Paths, NEW q \in Paths, NEW r \in Paths, Within(p, q), Within(q, r)
    PROVE  Within(p, r)
<1>1. Len(p) \in Nat /\ Len(q) \in Nat /\ Len(r) \in Nat
  BY DEF Paths
<1>2. Len(r) <= Len(q) /\ Len(q) <= Len(p)
  BY DEF Within
<1>3. ASSUME NEW i \in 1 .. Len(r) PROVE p[i] = r[i]
  <2>1. i \in 1 .. Len(q)
    BY <1>1, <1>2
  <2> QED BY <2>1, <1>2 DEF Within
<1> QED BY <1>1, <1>2, <1>3 DEF Within

\* The intersection stays inside what the set was inside of, and inside the new limits.
LEMMA IntersectionInside ==
    ASSUME NEW s, NEW limits
    PROVE  /\ Inside(Intersection(s, limits), limits)
           /\ \A l : Inside(s, l) => Inside(Intersection(s, limits), l)
  BY DEF Intersection, Inside

LEMMA WithinReflexive == \A p \in Paths : Within(p, p)
  BY DEF Within, Paths

LEMMA PathIntersectionInside ==
    ASSUME NEW s \in SUBSET Paths, NEW limits \in SUBSET Paths
    PROVE  /\ PathIntersection(s, limits) \subseteq Paths
           /\ PathsInside(PathIntersection(s, limits), limits)
           /\ \A l \in SUBSET Paths : PathsInside(s, l) => PathsInside(PathIntersection(s, limits), l)
<1>1. PathIntersection(s, limits) \subseteq Paths
  BY DEF PathIntersection
<1>2. PathsInside(PathIntersection(s, limits), limits)
  BY WithinReflexive DEF PathIntersection, PathsInside
<1>3. ASSUME NEW l \in SUBSET Paths, PathsInside(s, l), NEW p \in PathIntersection(s, limits)
      PROVE  \E q \in l : Within(p, q)
  <2>1. CASE p \in s
    BY <2>1, <1>3 DEF PathsInside
  <2>2. CASE p \notin s
    <3>1. p \in limits
      BY <2>2 DEF PathIntersection
    <3>2. PICK q \in s : Within(p, q)
      BY <2>2 DEF PathIntersection
    <3>3. PICK r \in l : Within(q, r)
      BY <1>3 DEF PathsInside
    <3>4. p \in Paths /\ q \in Paths /\ r \in Paths
      BY <3>1
    <3>5. Within(p, r)
      BY <3>2, <3>3, <3>4, WithinTransitive
    <3> QED BY <3>5
  <2> QED BY <2>1, <2>2
<1> QED BY <1>1, <1>2, <1>3 DEF PathsInside

\* The profile's own paths are paths.
LEMMA BasePaths ==
    ASSUME NEW id \in DOMAIN AccessProfiles
    PROVE  BaseScope(id).paths \in SUBSET Paths /\ DOMAIN BaseScope(id) = Dimensions
<1>1. AccessProfiles[id].filesystem \in {"none", "project", "current_account", "sandbox"}
  BY PolicyAssumption
<1> QED BY <1>1, PolicyAssumption DEF BaseScope, Dimensions

LEMMA PolicyInvInit == PolicyInit => PolicyInv
  BY DEF PolicyInit, PolicyInv, PolicyTypeOK, OverlaysOnlyNarrow, ApprovalRank

\* A request starts from the profile's ceiling with no overlay applied.
LEMMA ReceiveKeepsPolicyInv ==
    ASSUME PolicyInv, NEW r \in PolicyRequests, ReceiveRequest(r)
    PROVE  PolicyInv'
<1>1. r.profile \in DOMAIN AccessProfiles /\ r.budget \in Int
  BY PolicyAssumption
<1>2. BudgetCeiling[r.profile] \in Nat /\ AccessProfiles[r.profile].approval \in DOMAIN ApprovalRank
  BY <1>1, PolicyAssumption
<1>3. /\ status' = "evaluating" /\ request' = r /\ pending' = r.overlays
      /\ scope' = BaseScope(r.profile)
      /\ approvalPolicy' = AccessProfiles[r.profile].approval
  BY DEF ReceiveRequest
<1>4. budget' \in 0 .. BudgetCeiling[r.profile]
  BY <1>1, <1>2 DEF ReceiveRequest
<1>5. DOMAIN scope' = Dimensions /\ scope'.paths \subseteq Paths
  BY <1>1, <1>3, BasePaths
<1>6. PolicyTypeOK'
  BY <1>2, <1>3, <1>4, <1>5 DEF PolicyTypeOK
<1> QED BY <1>3, <1>5, <1>6 DEF PolicyInv, OverlaysOnlyNarrow

\* An overlay narrows the scope to its limits and leaves it within those of the ones
\* before it; reasons are only added, and the approval only becomes stricter.
LEMMA ApplyKeepsPolicyInv ==
    ASSUME PolicyInv, NEW o \in pending, ApplyOverlay(o)
    PROVE  PolicyInv'
<1> USE DEF PolicyInv, PolicyTypeOK
<1>1. /\ status = "evaluating" /\ status' = status /\ request' = request
      /\ pending' = pending \ {o}
      /\ scope' = Narrowed(o)
      /\ budget' = IF o.maxBudget >= 0 /\ o.maxBudget < budget THEN o.maxBudget ELSE budget
      /\ approvalPolicy' = Stricter(approvalPolicy, o.approval)
  BY DEF ApplyOverlay
<1>2. /\ request \in PolicyRequests /\ o \in request.overlays
      /\ o.maxBudget \in Int /\ o.approval \in DOMAIN ApprovalRank
  BY <1>1, PolicyAssumption
<1>3. /\ \A p \in request.overlays : p.maxBudget \in Int
      /\ \A p \in request.overlays : "paths" \in DOMAIN p.limits => p.limits.paths \subseteq Paths
  BY <1>2, PolicyAssumption
<1>4. BudgetCeiling[request.profile] \in Nat
  BY <1>2, PolicyAssumption
<1>5. budget' \in 0 .. BudgetCeiling[request.profile] /\ budget' <= budget
      /\ (o.maxBudget >= 0 => budget' <= o.maxBudget)
  BY <1>1, <1>2, <1>4
<1>6. /\ approvalPolicy' \in DOMAIN ApprovalRank
      /\ approvalPolicy = "always" \/ o.approval = "always" => approvalPolicy' = "always"
  BY <1>1, <1>2 DEF Stricter, ApprovalRank
<1>7. /\ DOMAIN scope' = Dimensions
      /\ scope'.paths = IF "paths" \notin DOMAIN o.limits THEN scope.paths
                        ELSE PathIntersection(scope.paths, o.limits.paths)
      /\ scope'.hosts = IF "hosts" \notin DOMAIN o.limits THEN scope.hosts
                        ELSE Intersection(scope.hosts, o.limits.hosts)
      /\ scope'.leases = IF "leases" \notin DOMAIN o.limits THEN scope.leases
                         ELSE Intersection(scope.leases, o.limits.leases)
  BY <1>1 DEF Narrowed, Dimensions
<1>8. /\ scope.paths \in SUBSET Paths
      /\ "paths" \in DOMAIN o.limits => o.limits.paths \in SUBSET Paths
  BY <1>1, <1>2, <1>3
<1>9. /\ scope'.paths \subseteq Paths
      /\ "paths" \in DOMAIN o.limits => PathsInside(scope'.paths, o.limits.paths)
      /\ \A l \in SUBSET Paths : PathsInside(scope.paths, l) => PathsInside(scope'.paths, l)
  BY <1>7, <1>8, PathIntersectionInside
<1>10. /\ "hosts" \in DOMAIN o.limits => Inside(scope'.hosts, o.limits.hosts)
       /\ \A l : Inside(scope.hosts, l) => Inside(scope'.hosts, l)
  BY <1>7, IntersectionInside
<1>11. /\ "leases" \in DOMAIN o.limits => Inside(scope'.leases, o.limits.leases)
       /\ \A l : Inside(scope.leases, l) => Inside(scope'.leases, l)
  BY <1>7, IntersectionInside
<1>12. /\ reasons \subseteq reasons'
       /\ reasons' = {} => /\ o.maxBudget >= 0 /\ ~o.forceDeny
                           /\ {request.capability, request.tool} \cap o.deny = {}
  <2>1. reasons' = reasons
          \cup (IF request.capability \in o.deny THEN {"capability_denied_by_overlay"} ELSE {})
          \cup (IF request.tool \in o.deny THEN {"tool_denied_by_overlay"} ELSE {})
          \cup (IF o.forceDeny THEN {"force_deny"} ELSE {})
          \cup (IF o.maxBudget < 0 THEN {"invalid_overlay_budget"} ELSE {})
    BY DEF ApplyOverlay
  <2>2. reasons' = {} => ~(o.maxBudget < 0) /\ ~o.forceDeny
                         /\ request.capability \notin o.deny /\ request.tool \notin o.deny
    BY <2>1
  <2>3. ~(o.maxBudget < 0) => o.maxBudget >= 0
    BY <1>2
  <2> QED BY <2>1, <2>2, <2>3
<1>13. ASSUME NEW p \in request'.overlays \ pending'
       PROVE  Applied(p)'
  <2>1. CASE p = o
    BY <2>1, <1>1, <1>5, <1>6, <1>9, <1>10, <1>11, <1>12 DEF Applied
  <2>2. CASE p # o
    <3>1. p \in request.overlays \ pending /\ Applied(p)
      BY <2>2, <1>1, <1>13
    <3>2. /\ p.maxBudget \in Int /\ budget \in Int /\ budget' \in Int
          /\ "paths" \in DOMAIN p.limits => p.limits.paths \in SUBSET Paths
      BY <3>1, <1>1, <1>3, <1>5
    <3>3. p.maxBudget >= 0 => budget' <= p.maxBudget
      BY <3>1, <3>2, <1>5 DEF Applied
    <3>4. /\ "paths" \in DOMAIN p.limits => PathsInside(scope'.paths, p.limits.paths)
          /\ "hosts" \in DOMAIN p.limits => Inside(scope'.hosts, p.limits.hosts)
          /\ "leases" \in DOMAIN p.limits => Inside(scope'.leases, p.limits.leases)
      BY <3>1, <3>2, <1>9, <1>10, <1>11 DEF Applied
    <3>5. /\ p.approval = "always" => approvalPolicy' = "always"
          /\ reasons' = {} => /\ p.maxBudget >= 0 /\ ~p.forceDeny
                              /\ {request.capability, request.tool} \cap p.deny = {}
      BY <3>1, <1>6, <1>12 DEF Applied
    <3> QED BY <3>3, <3>4, <3>5, <1>1 DEF Applied
  <2> QED BY <2>1, <2>2
<1>14. PolicyTypeOK'
  BY <1>1, <1>2, <1>5, <1>6, <1>7
<1> QED BY <1>1, <1>9, <1>13, <1>14 DEF OverlaysOnlyNarrow

\* An effect that is allowed lies in the scope, or in what a trusted approval restored.
LEMMA AllowedIsPermitted ==
    ASSUME PolicyInv, status = "evaluating", NEW o \in request.overlays, Applied(o),
           EffectReasons(request) = {}
    PROVE  Permits(o, request) \/ RestoredFor(request)
<1> DEFINE r == request
<1> USE DEF PolicyInv, PolicyTypeOK
<1>1. /\ r \in PolicyRequests /\ scope.paths \subseteq Paths
      /\ r.widening.restore.paths \subseteq Paths
      /\ "paths" \in DOMAIN o.limits => o.limits.paths \subseteq Paths
      /\ r.domain = "filesystem" => r.target \in Paths
  BY PolicyAssumption
<1>2. \A d, x : x \in Widened(d) =>
         x \in scope[d] \/ (Approved(r.widening) /\ x \in r.widening.restore[d])
  BY DEF Widened
<1>3. CASE r.domain = "filesystem"
  <2>1. PICK q \in Widened("paths") : Within(r.target, q)
    BY <1>3 DEF EffectReasons
  <2>2. CASE q \in scope.paths
    <3>1. CASE "paths" \in DOMAIN o.limits
      <4>1. PICK l \in o.limits.paths : Within(q, l)
        BY <2>2, <3>1 DEF Applied, PathsInside
      <4>2. q \in Paths /\ l \in Paths /\ r.target \in Paths
        BY <1>1, <1>3, <2>2, <3>1
      <4>3. Within(r.target, l)
        BY <2>1, <4>1, <4>2, WithinTransitive
      <4> QED BY <1>3, <3>1, <4>3 DEF Permits
    <3>2. CASE "paths" \notin DOMAIN o.limits
      BY <1>3, <3>2 DEF Permits
    <3> QED BY <3>1, <3>2
  <2>3. CASE Approved(r.widening) /\ q \in r.widening.restore["paths"]
    BY <1>3, <2>1, <2>3 DEF RestoredFor, Dimension
  <2> QED BY <1>2, <2>1, <2>2, <2>3
<1>4. CASE r.domain = "network"
  <2>1. PICK h \in {"*", Zone[r.target], r.target} : h \in Widened("hosts")
    BY <1>4 DEF EffectReasons, HostAllowed
  <2>2. CASE h \in scope.hosts
    <3>1. CASE "hosts" \in DOMAIN o.limits
      <4>1. "*" \in o.limits.hosts \/ h \in o.limits.hosts
        BY <2>2, <3>1 DEF Applied, Inside
      <4>2. HostAllowed(r.target, o.limits.hosts)
        BY <2>1, <4>1 DEF HostAllowed
      <4> QED BY <1>4, <3>1, <4>2 DEF Permits
    <3>2. CASE "hosts" \notin DOMAIN o.limits
      BY <1>4, <3>2 DEF Permits
    <3> QED BY <3>1, <3>2
  <2>3. CASE Approved(r.widening) /\ h \in r.widening.restore["hosts"]
    <3>1. Dimension(r) = "hosts" /\ r.domain # "filesystem"
      BY <1>4 DEF Dimension
    <3>2. HostAllowed(r.target, {h})
      BY <2>1 DEF HostAllowed
    <3> QED BY <2>3, <3>1, <3>2 DEF RestoredFor
  <2> QED BY <1>2, <2>1, <2>2, <2>3
<1>5. CASE r.domain = "secret"
  <2>1. r.target \in Widened("leases")
    BY <1>5 DEF EffectReasons
  <2>2. CASE r.target \in scope.leases
    <3>1. CASE "leases" \in DOMAIN o.limits
      <4>1. "*" \in o.limits.leases \/ r.target \in o.limits.leases
        BY <2>2, <3>1 DEF Applied, Inside
      <4> QED BY <1>5, <3>1, <4>1 DEF Permits
    <3>2. CASE "leases" \notin DOMAIN o.limits
      BY <1>5, <3>2 DEF Permits
    <3> QED BY <3>1, <3>2
  <2>3. CASE Approved(r.widening) /\ r.target \in r.widening.restore["leases"]
    <3>1. Dimension(r) = "leases" /\ r.domain # "filesystem"
      BY <1>5 DEF Dimension
    <3>2. HostAllowed(r.target, {r.target})
      BY DEF HostAllowed
    <3> QED BY <2>3, <3>1, <3>2 DEF RestoredFor
  <2> QED BY <1>2, <2>1, <2>2, <2>3
<1>6. CASE r.domain \notin {"filesystem", "network", "secret"}
  BY <1>6 DEF Permits
<1> QED BY <1>3, <1>4, <1>5, <1>6

\* The decision: an effect is allowed for no reason against it.
LEMMA DecideKeepsPolicyInv ==
    ASSUME PolicyInv, Decide
    PROVE  PolicyInv'
<1> USE DEF PolicyInv, PolicyTypeOK
<1>1. /\ status = "evaluating" /\ pending = {}
      /\ request' = request /\ pending' = pending /\ budget' = budget
      /\ approvalPolicy' = approvalPolicy
      /\ scope' = [d \in Dimensions |-> Widened(d)]
  BY DEF Decide
<1>2. /\ status' \in {"allow", "deny", "approval_required"}
      /\ status' = "allow" =>
            /\ reasons = {} /\ EffectReasons(request) = {}
            /\ ApprovalRequired => Approved(request.approval)
  BY DEF Decide
<1>3. PolicyTypeOK'
  BY <1>1, <1>2
<1>4. ASSUME status' = "allow", NEW o \in request.overlays
      PROVE  /\ Permits(o, request) \/ RestoredFor(request)
             /\ ~o.forceDeny /\ {request.capability, request.tool} \cap o.deny = {}
             /\ budget <= o.maxBudget
             /\ o.approval = "always" => Approved(request.approval)
  <2>1. Applied(o)
    BY <1>1
  <2>2. Permits(o, request) \/ RestoredFor(request)
    BY <2>1, <1>1, <1>2, <1>4, AllowedIsPermitted
  <2>3. o.approval = "always" => ApprovalRequired
    BY <2>1 DEF Applied, ApprovalRequired
  <2> QED BY <2>1, <2>2, <2>3, <1>2, <1>4 DEF Applied
<1>5. OverlaysOnlyNarrow'
  BY <1>1, <1>4 DEF OverlaysOnlyNarrow, Permits, RestoredFor, Approved, Trusted, Dimension
<1> QED BY <1>1, <1>2, <1>3, <1>5

LEMMA PolicyInvStep == PolicyInv /\ [PolicyNext]_policyVars => PolicyInv'
<1> SUFFICES ASSUME PolicyInv, [PolicyNext]_policyVars
             PROVE  PolicyInv'
  OBVIOUS
<1>1. CASE UNCHANGED policyVars
  BY <1>1 DEF policyVars, PolicyInv, PolicyTypeOK, OverlaysOnlyNarrow, Applied
<1> QED BY <1>1, ReceiveKeepsPolicyInv, ApplyKeepsPolicyInv, DecideKeepsPolicyInv DEF PolicyNext

\* An allowed effect is permitted by every overlay, for any profiles, overlays and
\* requests and whatever the order of the layers (evaluate_policy).
THEOREM NoOverlayIsOutvoted == PolicySpec => []OverlaysOnlyNarrow
<1>1. PolicyInv => OverlaysOnlyNarrow
  BY DEF PolicyInv
<1> QED BY <1>1, PolicyInvInit, PolicyInvStep, PTL DEF PolicySpec

-----------------------------------------------------------------------------
(***************************************************************************)
(* Effects.  UseLedger counts by grant id while the property counts the    *)
(* effects under one grant: no effect is authorized without being counted, *)
(* so the effects of a grant are never more than the count of its id, and  *)
(* a use was let through only while the count was below the grant's limit. *)
(***************************************************************************)
Under(grant) == {e \in Effects : Authorized(e) /\ effectCall[e].grant = grant}

\* The steps of an effect whose started receipt is in the journal.
Journaled ==
    {"target", "backup", "tmp", "replace", "check", "succeed", "undo", "undone",
     "quarantine", "read", "spawn", "wait", "term", "kill", "finish", "timed_out", "done"}

EffectsShape ==
    /\ useCount \in [GrantsUsed -> Nat]
    /\ effectCall \in [Effects -> EffectCalls \cup {NoCall}]
    /\ effectAt \in [Effects -> EffectSteps]
    /\ \A e \in Effects : effectAt[e] # "new" => effectCall[e] \in EffectCalls
    /\ \A e \in Effects : effectAt[e] = "target" => effectCall[e].op # "command"

UsesCounted ==
    \A c \in EffectCalls :
        /\ IsFiniteSet(Under(c.grant))
        /\ Cardinality(Under(c.grant)) <= useCount[c.grant.id]
        /\ Cardinality(Under(c.grant)) <= c.grant.maxUses

StartedFirst ==
    /\ \A e \in Effects : effectAt[e] \in Journaled => <<e, "started">> \in lines
    /\ \A e \in acted : <<e, "started">> \in lines

EffectsInv == EffectsShape /\ UsesCounted /\ StartedFirst

\* What a step does that authorizes nothing: one effect goes from a step behind
\* authorize to another, the calls and the counts stay.
Proceeds(e) ==
    /\ useCount' = useCount /\ effectCall' = effectCall
    /\ effectAt[e] \notin {"new", "refused"}
    /\ \E to \in EffectSteps \ {"new", "refused"} : effectAt' = [effectAt EXCEPT ![e] = to]

LEMMA ProceedsKeepsCounts ==
    ASSUME EffectsShape, UsesCounted, NEW e \in Effects, Proceeds(e)
    PROVE  UsesCounted'
<1>1. \A f \in Effects : Authorized(f)' = Authorized(f)
  BY DEF Proceeds, Authorized, EffectsShape
<1>2. \A c \in EffectCalls : Under(c.grant)' = Under(c.grant)
  BY <1>1 DEF Proceeds, Under
<1>3. useCount' = useCount
  BY DEF Proceeds
<1> QED BY <1>2, <1>3 DEF UsesCounted

\* Every step of an effect but authorize proceeds.
LEMMA StepsProceed ==
    ASSUME EffectsShape, NEW e \in Effects, FileStep(e) \/ CommandStep(e) \/ EffectThrows(e),
           effectAt' # effectAt
    PROVE  Proceeds(e)
<1> USE EffectsAssumption DEF EffectsShape, Proceeds, At, EffectSteps, Quiet, ledger, files, others
<1>1. CASE GuardTarget(e)
  <2>1. effectAt[e] = "target" /\ effectCall[e] \in EffectCalls /\ effectCall[e].op # "command"
    BY <1>1 DEF GuardTarget
  <2>2. effectCall[e].op \in {"write", "delete", "read"}
    BY <2>1
  <2> QED BY <1>1, <2>1, <2>2 DEF GuardTarget
<1>2. CASE BeginEffect(e) \/ Succeed(e) \/ JournalUndo(e)
  BY <1>2 DEF BeginEffect, Succeed, JournalUndo, AppendLine
<1>3. CASE \E outcome \in {"denied", "unknown", "succeeded"} : ReadTarget(e, outcome)
  BY <1>3 DEF ReadTarget, AppendLine
<1>4. CASE FinishCommand(e)
  BY <1>4 DEF FinishCommand, AppendLine
<1>5. CASE TakeBackup(e) \/ WriteTemporary(e) \/ ReplaceTarget(e) \/ UndoWrite(e)
           \/ \E moved \in BOOLEAN : CheckTarget(e, moved)
  BY <1>5 DEF TakeBackup, WriteTemporary, ReplaceTarget, UndoWrite, CheckTarget, Change
<1>6. CASE Quarantine(e)
  BY <1>6 DEF Quarantine
<1>7. CASE RestoreEffect(e) \/ GroupStep(e)
  BY <1>7 DEF RestoreEffect, GroupStep
<1>8. CASE Spawn(e) \/ Communicated(e) \/ CommandTimeout(e) \/ Terminate(e) \/ KillGroup(e)
  BY <1>8 DEF Spawn, Communicated, CommandTimeout, Terminate, KillGroup
<1>9. CASE EffectThrows(e)
  <2>1. effectAt[e] \notin {"new", "refused"} /\ useCount' = useCount /\ effectCall' = effectCall
    BY <1>9 DEF EffectThrows
  <2>2. effectAt' = [effectAt EXCEPT ![e] = "undo"] \/ effectAt' = [effectAt EXCEPT ![e] = "raised"]
    BY <1>9 DEF EffectThrows
  <2> QED BY <2>1, <2>2
<1> QED BY <1>1, <1>2, <1>3, <1>4, <1>5, <1>6, <1>7, <1>8, <1>9 DEF FileStep, CommandStep

\* Only authorize takes uses and records calls.
LEMMA LedgerKept ==
    ASSUME NEW e \in Effects, FileStep(e) \/ CommandStep(e) \/ EffectThrows(e)
    PROVE  useCount' = useCount /\ effectCall' = effectCall
<1>1. CASE FileStep(e)
  BY <1>1 DEF FileStep, BeginEffect, GuardTarget, TakeBackup, WriteTemporary, ReplaceTarget,
              CheckTarget, Succeed, UndoWrite, JournalUndo, Quarantine, ReadTarget,
              RestoreEffect, AppendLine, Quiet, ledger
<1>2. CASE CommandStep(e)
  BY <1>2 DEF CommandStep, Spawn, GroupStep, Communicated, CommandTimeout, Terminate,
              KillGroup, FinishCommand, AppendLine, Quiet, ledger
<1>3. CASE EffectThrows(e)
  BY <1>3 DEF EffectThrows, ledger
<1> QED BY <1>1, <1>2, <1>3

\* A step that proceeds takes the call along; behind begin no effect gets its
\* started line but through begin.
LEMMA ProceedsKeepsShape ==
    ASSUME EffectsShape, NEW e \in Effects, FileStep(e) \/ CommandStep(e) \/ EffectThrows(e)
    PROVE  EffectsShape'
<1> USE DEF EffectsShape
<1>1. useCount' = useCount /\ effectCall' = effectCall
  BY LedgerKept
<1>2. CASE effectAt' = effectAt
  BY <1>1, <1>2
<1>3. CASE effectAt' # effectAt
  <2>1. Proceeds(e)
    BY <1>3, StepsProceed
  <2>2. effectAt' \in [Effects -> EffectSteps]
    BY <2>1 DEF Proceeds
  <2>3. \A f \in Effects : effectAt'[f] # "new" => effectCall'[f] \in EffectCalls
    BY <2>1, <1>1 DEF Proceeds
  <2>4. \A f \in Effects : effectAt'[f] = "target" => effectCall'[f].op # "command"
    <3>1. \A f \in Effects : f # e => effectAt'[f] = effectAt[f]
      BY <2>1 DEF Proceeds
    <3>2. effectAt'[e] = "target" => BeginEffect(e)
      <4> USE DEF At, AppendLine, Quiet
      <4>1. CASE FileStep(e)
        BY <4>1, <1>3, EffectsAssumption
           DEF FileStep, GuardTarget, TakeBackup, WriteTemporary, ReplaceTarget,
               CheckTarget, Succeed, UndoWrite, JournalUndo, Quarantine, ReadTarget, RestoreEffect
      <4>2. CASE CommandStep(e)
        BY <4>2, <1>3
           DEF CommandStep, Spawn, GroupStep, Communicated, CommandTimeout, Terminate,
               KillGroup, FinishCommand
      <4>3. CASE EffectThrows(e)
        BY <4>3 DEF EffectThrows
      <4> QED BY <4>1, <4>2, <4>3
    <3>3. effectAt'[e] = "target" => effectCall[e].op # "command"
      BY <3>2 DEF BeginEffect, AppendLine, At
    <3> QED BY <3>1, <3>3, <1>1
  <2> QED BY <1>1, <2>2, <2>3, <2>4
<1> QED BY <1>2, <1>3

LEMMA StepKeepsStartedFirst ==
    ASSUME EffectsShape, StartedFirst, NEW e \in Effects,
           FileStep(e) \/ CommandStep(e) \/ EffectThrows(e)
    PROVE  StartedFirst'
<1> USE EffectsAssumption DEF EffectsShape, StartedFirst, Journaled, At, Quiet
<1>1. CASE BeginEffect(e)
  BY <1>1 DEF BeginEffect, AppendLine
<1>2. CASE GuardTarget(e)
  BY <1>2 DEF GuardTarget
<1>3. CASE Succeed(e) \/ JournalUndo(e)
           \/ \E outcome \in {"denied", "unknown", "succeeded"} : ReadTarget(e, outcome)
  BY <1>3 DEF Succeed, JournalUndo, ReadTarget, AppendLine
<1>4. CASE FinishCommand(e)
  BY <1>4 DEF FinishCommand, AppendLine
<1>5. CASE TakeBackup(e) \/ WriteTemporary(e) \/ \E moved \in BOOLEAN : CheckTarget(e, moved)
  BY <1>5 DEF TakeBackup, WriteTemporary, CheckTarget
<1>6. CASE ReplaceTarget(e) \/ UndoWrite(e) \/ RestoreEffect(e)
  BY <1>6 DEF ReplaceTarget, UndoWrite, RestoreEffect, Change
<1>7. CASE Quarantine(e)
  BY <1>7 DEF Quarantine, files
<1>8. CASE Spawn(e) \/ GroupStep(e) \/ Communicated(e) \/ CommandTimeout(e)
           \/ Terminate(e) \/ KillGroup(e)
  BY <1>8 DEF Spawn, GroupStep, Communicated, CommandTimeout, Terminate, KillGroup
<1>9. CASE EffectThrows(e)
  BY <1>9 DEF EffectThrows
<1> QED BY <1>1, <1>2, <1>3, <1>4, <1>5, <1>6, <1>7, <1>8, <1>9 DEF FileStep, CommandStep

\* authorize counts the use it lets through; a refused call takes none.
LEMMA AuthorizeKeepsEffectsInv ==
    ASSUME EffectsInv, NEW e \in Effects, NEW c \in EffectCalls, AuthorizeEffect(e, c)
    PROVE  EffectsInv'
<1> USE EffectsAssumption DEF EffectsInv, EffectsShape
<1>0. /\ effectAt[e] = "new" /\ effectCall' = [effectCall EXCEPT ![e] = c]
      /\ c.grant.id \in GrantsUsed
  BY DEF AuthorizeEffect, At, GrantsUsed
<1>1. EffectsShape'
  BY <1>0 DEF AuthorizeEffect, At, EffectSteps
<1>2. StartedFirst'
  BY DEF AuthorizeEffect, At, StartedFirst, Journaled
<1>3. \A f \in Effects : f # e =>
          Authorized(f)' = Authorized(f) /\ effectCall'[f] = effectCall[f]
  BY <1>0 DEF AuthorizeEffect, At, Authorized
<1>4. ~Authorized(e) /\ effectCall'[e] = c
  BY <1>0 DEF Authorized
<1>5. CASE Authorizes(c) /\ UseAllowed(c)
  <2>1. /\ useCount' = [useCount EXCEPT ![c.grant.id] = @ + 1]
        /\ useCount[c.grant.id] < c.grant.maxUses
        /\ Authorized(e)'
    BY <1>5, <1>0 DEF AuthorizeEffect, UseAllowed, At, Authorized
  <2>2. ASSUME NEW k \in EffectCalls
        PROVE  /\ IsFiniteSet(Under(k.grant)')
               /\ Cardinality(Under(k.grant)') <= useCount'[k.grant.id]
               /\ Cardinality(Under(k.grant)') <= k.grant.maxUses
    <3>1. /\ IsFiniteSet(Under(k.grant))
          /\ Cardinality(Under(k.grant)) <= useCount[k.grant.id]
          /\ Cardinality(Under(k.grant)) <= k.grant.maxUses
      BY DEF UsesCounted
    <3>2. k.grant.id \in GrantsUsed /\ Cardinality(Under(k.grant)) \in Nat
      BY <3>1, FS_CardinalityType DEF GrantsUsed
    <3>3. CASE k.grant = c.grant
      <4>1. Under(k.grant)' = Under(k.grant) \cup {e}
        BY <3>3, <2>1, <1>3, <1>4 DEF Under
      <4>2. /\ IsFiniteSet(Under(k.grant) \cup {e})
            /\ Cardinality(Under(k.grant) \cup {e}) = Cardinality(Under(k.grant)) + 1
        BY <3>1, <1>4, FS_AddElement DEF Under
      <4>3. useCount'[k.grant.id] = useCount[k.grant.id] + 1 /\ useCount[k.grant.id] \in Nat
        BY <3>3, <3>2, <2>1
      <4>4. useCount[k.grant.id] < k.grant.maxUses
        BY <3>3, <2>1
      <4>5. k.grant.maxUses \in Nat
        OBVIOUS
      <4>6. /\ Cardinality(Under(k.grant)) + 1 <= useCount'[k.grant.id]
            /\ Cardinality(Under(k.grant)) + 1 <= k.grant.maxUses
        BY ONLY <3>1, <3>2, <4>3, <4>4, <4>5
      <4> QED BY <4>1, <4>2, <4>6
    <3>4. CASE k.grant # c.grant
      <4>1. Under(k.grant)' = Under(k.grant)
        BY <3>4, <1>3, <1>4 DEF Under
      <4>2. useCount[k.grant.id] <= useCount'[k.grant.id] /\ useCount[k.grant.id] \in Nat
            /\ useCount'[k.grant.id] \in Nat
        BY <2>1, <3>2, <1>0
      <4>3. Cardinality(Under(k.grant)) <= useCount'[k.grant.id]
        BY ONLY <3>1, <3>2, <4>2
      <4> QED BY <4>1, <4>3, <3>1
    <3> QED BY <3>3, <3>4
  <2> QED BY <1>1, <1>2, <2>2 DEF UsesCounted
<1>6. CASE ~(Authorizes(c) /\ UseAllowed(c))
  <2>1. useCount' = useCount /\ ~Authorized(e)'
    BY <1>6, <1>0 DEF AuthorizeEffect, At, Authorized
  <2>2. \A k \in EffectCalls : Under(k.grant)' = Under(k.grant)
    BY <2>1, <1>3, <1>4 DEF Under
  <2> QED BY <1>1, <1>2, <2>1, <2>2 DEF UsesCounted
<1> QED BY <1>5, <1>6

LEMMA EffectsInvStep == EffectsInv /\ [EffectsNext]_effectVars => EffectsInv'
<1> SUFFICES ASSUME EffectsInv, [EffectsNext]_effectVars
             PROVE  EffectsInv'
  OBVIOUS
<1>1. ASSUME NEW e \in Effects, NEW c \in EffectCalls, AuthorizeEffect(e, c)
      PROVE  EffectsInv'
  BY <1>1, AuthorizeKeepsEffectsInv
<1>2. ASSUME NEW e \in Effects, FileStep(e) \/ CommandStep(e) \/ EffectThrows(e)
      PROVE  EffectsInv'
  <2>1. EffectsShape' /\ StartedFirst'
    BY <1>2, ProceedsKeepsShape, StepKeepsStartedFirst DEF EffectsInv
  <2>2. CASE effectAt' # effectAt
    BY <2>1, <2>2, <1>2, StepsProceed, ProceedsKeepsCounts DEF EffectsInv
  <2>3. CASE effectAt' = effectAt
    <3>1. useCount' = useCount /\ effectCall' = effectCall
      BY <1>2, LedgerKept
    <3>2. \A c \in EffectCalls : Under(c.grant)' = Under(c.grant)
      BY <3>1, <2>3 DEF Under, Authorized
    <3> QED BY <2>1, <3>1, <3>2 DEF EffectsInv, UsesCounted
  <2> QED BY <2>2, <2>3
<1>3. CASE (\E g \in GrantsUsed : RevokeGrant(g)) \/ EditPath \/ EffectTick
           \/ UNCHANGED effectVars
  <2>1. /\ useCount' = useCount /\ effectCall' = effectCall /\ effectAt' = effectAt
        /\ lines' = lines /\ acted' = acted
    BY <1>3 DEF RevokeGrant, EditPath, EffectTick, effectVars, ledger, files
  <2>2. \A c \in EffectCalls : Under(c.grant)' = Under(c.grant)
    BY <2>1 DEF Under, Authorized
  <2> QED BY <2>1, <2>2 DEF EffectsInv, EffectsShape, UsesCounted, StartedFirst
<1> QED BY <1>1, <1>2, <1>3 DEF EffectsNext

LEMMA EffectsInvInit == EffectsInit => EffectsInv
<1> SUFFICES ASSUME EffectsInit PROVE EffectsInv
  OBVIOUS
<1>1. EffectsShape /\ StartedFirst
  BY DEF EffectsInit, EffectsShape, StartedFirst, EffectSteps, Journaled
<1>2. ASSUME NEW c \in EffectCalls
      PROVE  /\ IsFiniteSet(Under(c.grant))
             /\ Cardinality(Under(c.grant)) <= useCount[c.grant.id]
             /\ Cardinality(Under(c.grant)) <= c.grant.maxUses
  <2>1. Under(c.grant) = {} /\ useCount[c.grant.id] = 0 /\ c.grant.maxUses \in Nat
    BY EffectsAssumption DEF EffectsInit, Under, Authorized, GrantsUsed
  <2> QED BY <2>1, FS_EmptySet
<1> QED BY <1>1, <1>2 DEF EffectsInv, UsesCounted

\* Any number of threads never get more effects out of a grant than it allows, and every
\* effect has its started line in the journal before it acts (authorize, UseLedger.consume).
THEOREM EffectsStayWithinGrant == EffectsSpec => []EffectsWithinGrant
<1>1. EffectsInv => EffectsWithinGrant
  BY DEF EffectsInv, UsesCounted, StartedFirst, Under, EffectsWithinGrant
<1> QED BY <1>1, EffectsInvInit, EffectsInvStep, PTL DEF EffectsSpec

\* What is kept of an effect that changes the path says what the path held before: the
\* backup, the quarantined file, or that there was none.
UndoReady(e) ==
    /\ effectAt[e] \in {"tmp", "replace", "check", "undo", "undone"} =>
          receipt[e] \in {"backup", "created"}
    /\ effectAt[e] = "succeed" /\ effectCall[e].op = "write" =>
          receipt[e] \in {"backup", "created"}
    /\ effectAt[e] = "quarantine" => receipt[e] = "none" /\ effectCall[e].op # "write"
    /\ effectAt[e] \in {"new", "begin", "target", "backup"} => receipt[e] = "none"
    /\ receipt[e] = "created" => before[e] = NoContent
    /\ receipt[e] = "backup" => saved[e] = before[e]
    /\ receipt[e] = "quarantine" => saved[e] \in {before[e], NoContent}

UndoInv == EffectsTypeOK /\ EffectsInv /\ \A e \in Effects : UndoReady(e)

LEMMA UndoInvInit == EffectsInit => UndoInv
<1> SUFFICES ASSUME EffectsInit PROVE UndoInv
  OBVIOUS
<1>1. EffectsTypeOK
  BY EffectsAssumption DEF EffectsInit, EffectsTypeOK, EffectSteps, Contents
<1> QED BY <1>1, EffectsInvInit DEF EffectsInit, UndoInv, UndoReady

\* The steps that keep receipts, backups and what was before.
LEMMA KeptFilesKeepUndo ==
    ASSUME UndoInv, EffectsInv', NEW e \in Effects,
           receipt' = receipt, saved' = saved, before' = before,
           UNCHANGED <<revokedGrants, effectCall, others>>,
           content' \in Contents, group' \in [Effects -> SUBSET Members],
           clean' \subseteq Effects, acted' \subseteq Effects,
           \/ effectAt' = effectAt
           \/ \E to \in EffectSteps :
                 /\ effectAt' = [effectAt EXCEPT ![e] = to]
                 /\ to \in {"tmp", "replace", "check", "undo", "undone"} =>
                       receipt[e] \in {"backup", "created"}
                 /\ to = "succeed" => effectAt[e] = "check"
                 /\ to \in {"quarantine", "new", "begin", "target", "backup"} =>
                       /\ effectAt[e] \in {"begin", "target"}
                       /\ to = "quarantine" => effectCall[e].op # "write"
    PROVE  UndoInv'
<1> USE DEF UndoInv
<1>1. EffectsTypeOK'
  BY DEF EffectsTypeOK, EffectsInv, EffectsShape, others
<1>2. ASSUME NEW f \in Effects
      PROVE  UndoReady(f)'
  <2>0. effectAt \in [Effects -> EffectSteps]
    BY DEF EffectsTypeOK
  <2>1. CASE effectAt'[f] = effectAt[f]
    BY <2>1 DEF UndoReady
  <2>2. CASE effectAt'[f] # effectAt[f]
    <3>1. f = e
      BY <2>0, <2>2
    <3> QED BY <2>0, <2>2, <3>1 DEF UndoReady
  <2> QED BY <2>1, <2>2
<1> QED BY <1>1, <1>2

LEMMA FileStepKeepsUndo ==
    ASSUME UndoInv, EffectsInv', NEW e \in Effects, FileStep(e)
    PROVE  UndoInv'
<1> USE DEF UndoInv, EffectsTypeOK
<1>0. /\ UNCHANGED <<revokedGrants, effectCall, useCount, group, others>>
      /\ UndoReady(e)
  BY DEF FileStep, BeginEffect, GuardTarget, TakeBackup, WriteTemporary, ReplaceTarget,
         CheckTarget, Succeed, UndoWrite, JournalUndo, Quarantine, ReadTarget,
         RestoreEffect, AppendLine, Quiet, ledger
<1>1. CASE BeginEffect(e) \/ Succeed(e) \/ JournalUndo(e)
           \/ \E outcome \in {"denied", "unknown", "succeeded"} : ReadTarget(e, outcome)
  <2>1. /\ UNCHANGED <<receipt, saved, before, content, clean, acted>>
        /\ \E to \in {"spawn", "target", "done", "raised"} :
              /\ effectAt' = [effectAt EXCEPT ![e] = to]
              /\ to = "target" => effectAt[e] = "begin"
    BY <1>1 DEF BeginEffect, Succeed, JournalUndo, ReadTarget, AppendLine, At, files
  <2> QED BY <1>0, <2>1, KeptFilesKeepUndo DEF EffectSteps
<1>2. CASE GuardTarget(e)
  <2>1. /\ UNCHANGED <<receipt, saved, before, content, clean, acted>>
        /\ effectAt[e] = "target"
    BY <1>2 DEF GuardTarget, At, Quiet, files
  <2>2. effectCall[e] \in EffectCalls /\ effectCall[e].op \in {"write", "delete", "read"}
    BY <2>1, EffectsAssumption DEF EffectsInv, EffectsShape
  <2>3. \E to \in {"raised", "backup", "quarantine", "read"} :
            /\ effectAt' = [effectAt EXCEPT ![e] = to]
            /\ to = "quarantine" => effectCall[e].op # "write"
    BY <2>2, <1>2 DEF GuardTarget, At
  <2> QED BY <1>0, <2>1, <2>3, KeptFilesKeepUndo DEF EffectSteps
<1>3. CASE TakeBackup(e)
  <2>1. /\ effectAt' = [effectAt EXCEPT ![e] = "tmp"]
        /\ saved' = [saved EXCEPT ![e] = content]
        /\ before' = [before EXCEPT ![e] = content]
        /\ receipt' = [receipt EXCEPT ![e] = IF content = NoContent THEN "created" ELSE "backup"]
        /\ clean' = clean \cup {e} /\ content' = content /\ acted' = acted
    BY <1>3 DEF TakeBackup, At
  <2>2. EffectsTypeOK'
    BY <1>0, <2>1 DEF EffectSteps, others
  <2>3. \A f \in Effects : f # e => /\ effectAt'[f] = effectAt[f] /\ saved'[f] = saved[f]
                                    /\ before'[f] = before[f] /\ receipt'[f] = receipt[f]
    BY <2>1
  <2>4. \A f \in Effects : f # e => UndoReady(f)'
    BY <1>0, <2>3 DEF UndoReady
  <2>5. UndoReady(e)'
    BY <1>0, <2>1 DEF UndoReady
  <2> QED BY <2>2, <2>4, <2>5
<1>4. CASE WriteTemporary(e) \/ \E moved \in BOOLEAN : CheckTarget(e, moved)
  <2>1. /\ UNCHANGED <<receipt, saved, before, content, clean, acted>>
        /\ effectAt[e] \in {"tmp", "check"}
        /\ \E to \in {"replace", "undo", "succeed"} :
              /\ effectAt' = [effectAt EXCEPT ![e] = to]
              /\ to = "succeed" => effectAt[e] = "check"
    BY <1>4 DEF WriteTemporary, CheckTarget, At, Quiet, files
  <2>2. receipt[e] \in {"backup", "created"}
    BY <1>0, <2>1 DEF UndoReady
  <2>3. PICK to \in {"replace", "undo", "succeed"} :
              /\ effectAt' = [effectAt EXCEPT ![e] = to]
              /\ to = "succeed" => effectAt[e] = "check"
    BY <2>1
  <2>4. to \in EffectSteps /\ to \notin {"quarantine", "new", "begin", "target", "backup"}
    BY DEF EffectSteps
  <2> QED BY <1>0, <2>1, <2>2, <2>3, <2>4, KeptFilesKeepUndo
<1>5. CASE ReplaceTarget(e) \/ UndoWrite(e)
  <2>1. /\ UNCHANGED <<receipt, saved, before>>
        /\ effectAt[e] \in {"replace", "undo"}
        /\ \E to \in {"check", "undone"} : effectAt' = [effectAt EXCEPT ![e] = to]
    BY <1>5 DEF ReplaceTarget, UndoWrite, At
  <2>2. clean' \subseteq Effects /\ acted' \subseteq Effects
    BY <1>0, <1>5 DEF ReplaceTarget, UndoWrite, Change
  <2>3. e \in Contents /\ Restored(e) \in Contents
    BY <1>0 DEF Restored, Contents
  <2>4. content' \in Contents
    BY <1>5, <2>3 DEF ReplaceTarget, UndoWrite, Change
  <2> QED BY <1>0, <2>1, <2>2, <2>4, KeptFilesKeepUndo DEF EffectSteps, UndoReady
<1>6. CASE Quarantine(e)
  <2>1. CASE content = NoContent
    <3>1. /\ UNCHANGED <<receipt, saved, before, content, clean, acted>>
          /\ effectAt' = [effectAt EXCEPT ![e] = "raised"]
      BY <1>6, <2>1 DEF Quarantine, At, files
    <3> QED BY <1>0, <3>1, KeptFilesKeepUndo DEF EffectSteps
  <2>2. CASE content # NoContent
    <3>1. /\ effectAt[e] = "quarantine" /\ effectAt' = [effectAt EXCEPT ![e] = "succeed"]
          /\ saved' = [saved EXCEPT ![e] = content]
          /\ before' = [before EXCEPT ![e] = content]
          /\ receipt' = [receipt EXCEPT ![e] = "quarantine"]
          /\ clean' = {e} /\ content' = NoContent /\ acted' = acted \cup {e}
      BY <1>6, <2>2 DEF Quarantine, At
    <3>2. EffectsTypeOK'
      BY <1>0, <3>1 DEF EffectSteps, others, Contents
    <3>3. \A f \in Effects : f # e => /\ effectAt'[f] = effectAt[f] /\ saved'[f] = saved[f]
                                      /\ before'[f] = before[f] /\ receipt'[f] = receipt[f]
      BY <3>1
    <3>4. \A f \in Effects : f # e => UndoReady(f)'
      BY <1>0, <3>3 DEF UndoReady
    <3>5. UndoReady(e)'
      BY <1>0, <3>1 DEF UndoReady
    <3> QED BY <3>2, <3>4, <3>5
  <2> QED BY <2>1, <2>2
<1>7. CASE RestoreEffect(e)
  <2>1. /\ effectAt' = effectAt /\ receipt' = receipt /\ before' = before
        /\ content' = Restored(e) /\ clean' \subseteq Effects /\ acted' \subseteq Effects
        /\ saved' = IF receipt[e] = "quarantine" THEN [saved EXCEPT ![e] = NoContent] ELSE saved
    BY <1>7 DEF RestoreEffect, Change
  <2>2. EffectsTypeOK'
    BY <1>0, <2>1 DEF Restored, others, Contents
  <2>3. \A f \in Effects : UndoReady(f)'
    BY <1>0, <2>1 DEF UndoReady
  <2> QED BY <2>2, <2>3
<1> QED BY <1>1, <1>2, <1>3, <1>4, <1>5, <1>6, <1>7 DEF FileStep

LEMMA CommandStepKeepsUndo ==
    ASSUME UndoInv, EffectsInv', NEW e \in Effects, CommandStep(e)
    PROVE  UndoInv'
<1> USE DEF UndoInv, EffectsTypeOK
<1>1. UNCHANGED <<revokedGrants, effectCall, receipt, saved, before, content, clean, others>>
  BY DEF CommandStep, Spawn, GroupStep, Communicated, CommandTimeout, Terminate,
         KillGroup, FinishCommand, AppendLine, Quiet, ledger, files
<1>2. \/ effectAt' = effectAt
      \/ \E to \in {"wait", "finish", "term", "kill", "timed_out", "done"} :
            effectAt' = [effectAt EXCEPT ![e] = to]
  BY DEF CommandStep, Spawn, GroupStep, Communicated, CommandTimeout, Terminate,
         KillGroup, FinishCommand, AppendLine, Quiet, At
<1>3. group' \in [Effects -> SUBSET Members]
  <2>1. CASE Spawn(e) \/ KillGroup(e)
    BY <2>1 DEF Spawn, KillGroup, Members
  <2>2. CASE GroupStep(e)
    BY <2>2 DEF GroupStep
  <2>3. CASE Terminate(e)
    BY <2>3 DEF Terminate
  <2>4. CASE Communicated(e) \/ CommandTimeout(e) \/ FinishCommand(e)
    BY <2>4 DEF Communicated, CommandTimeout, FinishCommand, AppendLine, Quiet
  <2> QED BY <2>1, <2>2, <2>3, <2>4 DEF CommandStep
<1>4. acted' \subseteq Effects
  BY DEF CommandStep, Spawn, GroupStep, Communicated, CommandTimeout, Terminate,
         KillGroup, FinishCommand, AppendLine, Quiet
<1> QED BY <1>1, <1>2, <1>3, <1>4, KeptFilesKeepUndo DEF EffectSteps

LEMMA UndoInvStep == UndoInv /\ [EffectsNext]_effectVars => UndoInv'
<1> SUFFICES ASSUME UndoInv, [EffectsNext]_effectVars
             PROVE  UndoInv'
  OBVIOUS
<1>0. EffectsInv'
  BY EffectsInvStep DEF UndoInv
<1>1. ASSUME NEW e \in Effects, NEW c \in EffectCalls, AuthorizeEffect(e, c)
      PROVE  UndoInv'
  <2> USE DEF UndoInv, EffectsTypeOK
  <2>1. /\ effectAt[e] = "new"
        /\ UNCHANGED <<revokedGrants, receipt, content, saved, before, clean, group, acted, others>>
        /\ effectCall' = [effectCall EXCEPT ![e] = c]
        /\ \E to \in {"refused", "raised", "begin"} : effectAt' = [effectAt EXCEPT ![e] = to]
    BY <1>1 DEF AuthorizeEffect, At, files
  <2>2. EffectsTypeOK'
    BY <1>0, <2>1 DEF EffectsInv, EffectsShape, others
  <2>3. \A f \in Effects : f # e => effectAt'[f] = effectAt[f] /\ effectCall'[f] = effectCall[f]
    BY <2>1
  <2>4. \A f \in Effects : f # e => UndoReady(f)'
    BY <2>1, <2>3 DEF UndoReady
  <2>5. UndoReady(e)'
    BY <2>1 DEF UndoReady
  <2> QED BY <1>0, <2>2, <2>4, <2>5
<1>2. ASSUME NEW e \in Effects, FileStep(e) \/ CommandStep(e)
      PROVE  UndoInv'
  BY <1>0, <1>2, FileStepKeepsUndo, CommandStepKeepsUndo
<1>3. ASSUME NEW e \in Effects, EffectThrows(e)
      PROVE  UndoInv'
  <2> USE EffectsAssumption DEF UndoInv, EffectsTypeOK
  <2>1. /\ UNCHANGED <<revokedGrants, effectCall, useCount, receipt, content, saved, before, clean,
                       group, acted, effectTime, edits>>
        /\ effectFaults' \in 0 .. MaxEffectFaults
    BY <1>3 DEF EffectThrows, files, ledger
  <2>2. \/ effectAt' = [effectAt EXCEPT ![e] = "raised"]
        \/ /\ effectAt' = [effectAt EXCEPT ![e] = "undo"]
           /\ \/ effectAt[e] \in {"tmp", "replace", "check"}
              \/ effectAt[e] = "succeed" /\ effectCall[e].op = "write"
    BY <1>3 DEF EffectThrows
  <2>3. EffectsTypeOK'
    BY <1>0, <2>1, <2>2 DEF EffectsInv, EffectsShape, EffectSteps
  <2>4. \A f \in Effects : f # e => effectAt'[f] = effectAt[f]
    BY <2>2
  <2>5. \A f \in Effects : f # e => UndoReady(f)'
    BY <2>1, <2>4 DEF UndoReady
  <2>6. UndoReady(e)'
    BY <2>1, <2>2 DEF UndoReady
  <2> QED BY <1>0, <2>3, <2>5, <2>6
<1>4. CASE (\E g \in GrantsUsed : RevokeGrant(g)) \/ EditPath \/ EffectTick
           \/ UNCHANGED effectVars
  <2> USE EffectsAssumption DEF UndoInv, EffectsTypeOK
  <2>1. /\ UNCHANGED <<effectAt, effectCall, useCount, receipt, saved, before, group, acted,
                       effectFaults>>
        /\ clean' \subseteq Effects /\ content' \in Contents
        /\ revokedGrants' \subseteq GrantsUsed
        /\ edits' \in 0 .. MaxEdits
    BY <1>4 DEF RevokeGrant, EditPath, EffectTick, effectVars, ledger, files, others, Contents
  <2>2. EffectsTypeOK'
    BY <2>1
  <2> QED BY <1>0, <2>1, <2>2 DEF UndoReady
<1> QED BY <1>1, <1>2, <1>3, <1>4 DEF EffectsNext

\* Only an effect's own replace, undo, quarantine or restore leaves it in clean while the
\* path changes; at the steps that undo, what is kept says what was there before.
LEMMA UndoGivesBack ==
    ASSUME UndoInv, [EffectsNext]_effectVars, NEW e \in clean \cap clean',
           content' # content, effectAt[e] \in {"undo", "done"}
    PROVE  content' = before[e]
<1>0. e \in Effects /\ UndoReady(e) /\ receipt[e] \in {"none", "backup", "created", "quarantine"}
  BY DEF UndoInv, EffectsTypeOK
<1>1. ASSUME NEW f \in Effects, FileStep(f)
      PROVE  content' = before[e]
  <2>1. CASE UndoWrite(f)
    <3>1. f = e /\ effectAt[e] = "undo" /\ content' = Restored(e)
      BY <2>1 DEF UndoWrite, Change, At
    <3> QED BY <3>1, <1>0 DEF UndoReady, Restored
  <2>2. CASE RestoreEffect(f)
    <3>1. /\ f = e /\ content' = Restored(e) /\ receipt[e] # "none"
          /\ receipt[e] = "quarantine" => saved[e] # NoContent
      BY <2>2 DEF RestoreEffect, Change
    <3> QED BY <3>1, <1>0 DEF UndoReady, Restored
  <2>3. CASE ReplaceTarget(f) \/ Quarantine(f)
    <3>1. f = e /\ effectAt[f] \in {"replace", "quarantine"}
      BY <2>3 DEF ReplaceTarget, Quarantine, Change, At, files
    <3> QED BY <3>1
  <2>4. CASE ~(UndoWrite(f) \/ RestoreEffect(f) \/ ReplaceTarget(f) \/ Quarantine(f))
    BY <1>1, <2>4 DEF FileStep, BeginEffect, GuardTarget, TakeBackup, WriteTemporary,
          CheckTarget, Succeed, JournalUndo, ReadTarget, AppendLine, Quiet, files
  <2> QED BY <2>1, <2>2, <2>3, <2>4
<1>2. ASSUME NEW f \in Effects, CommandStep(f) \/ EffectThrows(f)
      PROVE  content' = before[e]
  BY <1>2 DEF CommandStep, Spawn, GroupStep, Communicated, CommandTimeout, Terminate,
         KillGroup, FinishCommand, AppendLine, Quiet, files, EffectThrows
<1>3. ASSUME NEW f \in Effects, NEW c \in EffectCalls, AuthorizeEffect(f, c)
      PROVE  content' = before[e]
  BY <1>3 DEF AuthorizeEffect, files
<1>4. CASE (\E g \in GrantsUsed : RevokeGrant(g)) \/ EditPath \/ EffectTick
           \/ UNCHANGED effectVars
  BY <1>4 DEF RevokeGrant, EditPath, EffectTick, effectVars, files
<1> QED BY <1>1, <1>2, <1>3, <1>4 DEF EffectsNext

\* Undoing an effect returns what the path held before it, for any number of threads on
\* the path, calls and throws (write_bytes, delete, restore).
THEOREM UndoReturns == EffectsSpec => UndoReturnsBefore
<1>1. UndoInv /\ [EffectsNext]_effectVars =>
        [\A e \in clean \cap clean' :
          content' # content /\ effectAt[e] \in {"undo", "done"}
              => content' = before[e]]_effectVars
  BY UndoGivesBack
<1> QED BY <1>1, UndoInvInit, UndoInvStep, PTL DEF EffectsSpec, UndoReturnsBefore

-----------------------------------------------------------------------------
(***************************************************************************)
(* The sandbox.  Up to SIGKILL the launcher and the worker are alive       *)
(* together or nothing is; the outer termination has captured both, so     *)
(* whatever it could not kill leaves one of them to be reported.  The      *)
(* program only lives once the worker has got past the mounts.             *)
(***************************************************************************)
Programs == {"program", "descendant"}

MountedSafely == bound \in {"project_ro", "snapshot"}

\* The program cannot reach the project.
ProgramConfined ==
    /\ ~projectChanged
    /\ workerAt \in {"consume", "exec", "wait", "report"} => MountedSafely
    /\ live \cap Programs # {} => MountedSafely /\ workerAt \in {"wait", "report", "exited"}

\* Whoever is alive is accounted for by a process that termination knows.
TreeKnown ==
    /\ sandboxAt \in {"probe", "copy", "issue", "prepare", "spawn"} =>
          live = {} /\ workerAt = "none"
    /\ sandboxAt \in {"communicate", "capture", "terminate", "kill"} =>
          live = {} \/ {"launcher", "worker"} \subseteq live
    /\ sandboxAt \in {"terminate", "kill", "survivors", "returned"} =>
          live = {} \/ {"launcher", "worker"} \subseteq captured
    /\ sandboxAt \in {"survivors", "returned"} =>
          live = {} \/ "launcher" \in live \/ "worker" \in live
    /\ sandboxAt = "returned" /\ sandboxResult # "survivors" => live = {}

SandboxInv == SandboxTypeOK /\ ProgramConfined /\ TreeKnown

LEMMA SandboxInvInit == SandboxInit => SandboxInv
  BY DEF SandboxInit, SandboxInv, SandboxTypeOK, ProgramConfined, TreeKnown, MountedSafely,
         Programs, SandboxSteps, WorkerSteps, SandboxResults, Processes, Namespace

LEMMA SandboxInvStep == SandboxInv /\ [SandboxNext]_sandboxVars => SandboxInv'
<1> SUFFICES ASSUME SandboxInv, [SandboxNext]_sandboxVars
             PROVE  SandboxInv'
  OBVIOUS
<1> USE DEF SandboxInv, SandboxTypeOK, ProgramConfined, TreeKnown, MountedSafely, Programs,
            SandboxSteps, WorkerSteps, SandboxResults, Processes, Namespace
<1>1. ASSUME NEW ok \in BOOLEAN,
             Probe(ok) \/ CopySnapshot(ok) \/ IssueSecrets(ok) \/ PrepareRequest(ok)
      PROVE  SandboxInv'
  <2>1. /\ sandboxAt \in {"probe", "copy", "issue", "prepare"}
        /\ sandboxAt' \in {"copy", "issue", "prepare", "spawn", "returned"}
        /\ sandboxResult' \in SandboxResults
    BY <1>1 DEF Probe, CopySnapshot, IssueSecrets, PrepareRequest, Outer
  <2>2. /\ UNCHANGED <<workerAt, mode, bound, live, captured, projectChanged>>
        /\ leases' \in {leases, "issued"}
    BY <1>1 DEF Probe, CopySnapshot, IssueSecrets, PrepareRequest, Outer
  <2> QED BY <2>1, <2>2
<1>2. CASE SpawnLauncher
  BY <1>2 DEF SpawnLauncher
<1>3. ASSUME NEW ok \in BOOLEAN, MountSystem(ok)
      PROVE  SandboxInv'
  BY <1>3 DEF MountSystem, Mounted, Worker, Runs
<1>4. ASSUME NEW ok \in BOOLEAN, BindWorkspace(ok)
      PROVE  SandboxInv'
  BY <1>4 DEF BindWorkspace, Mounted, Worker, Runs
<1>5. ASSUME NEW ok \in BOOLEAN, RemountReadOnly(ok) \/ ConsumeLeases(ok)
      PROVE  SandboxInv'
  <2>1. CASE RemountReadOnly(ok)
    BY <2>1 DEF RemountReadOnly, Mounted, Worker, Runs
  <2>2. CASE ConsumeLeases(ok)
    BY <2>2 DEF ConsumeLeases, Worker, Runs
  <2> QED BY <1>5, <2>1, <2>2
<1>6. CASE ExecProgram
  BY <1>6 DEF ExecProgram, Worker, Runs
<1>7. CASE ProgramCollected \/ ReportResult
  <2>1. /\ workerAt \in {"wait", "report"} /\ workerAt' \in {"report", "exited"}
        /\ "worker" \in live
    BY <1>7 DEF ProgramCollected, ReportResult, Worker, Runs
  <2>2. UNCHANGED <<sandboxAt, mode, bound, leases, live, captured, projectChanged,
                    sandboxResult>>
    BY <1>7 DEF ProgramCollected, ReportResult, Worker
  <2> QED BY <2>1, <2>2
<1>8. CASE CaptureTimeout
  <2>1. PICK gone \in SUBSET {"program", "descendant"} : live' = live \ gone
    BY <1>8 DEF CaptureTimeout
  <2>2. /\ workerAt = "wait" /\ workerAt' \in {"exited", "report"}
        /\ UNCHANGED <<sandboxAt, mode, bound, leases, captured, projectChanged, sandboxResult>>
        /\ "worker" \in live
    BY <1>8 DEF CaptureTimeout, Worker, Runs
  <2>3. TreeKnown'
    BY <2>1, <2>2
  <2> QED BY <2>1, <2>2, <2>3
<1>9. CASE ProgramRuns
  <2>1. PICK p \in {"program", "descendant"} :
          /\ Runs(p)
          /\ \/ projectChanged' = (projectChanged \/ bound = "project") /\ live' = live
             \/ live' = live \cup {"descendant"} /\ projectChanged' = projectChanged
             \/ live' = live \ {p} /\ projectChanged' = projectChanged
    BY <1>9 DEF ProgramRuns
  <2>2. UNCHANGED <<sandboxAt, workerAt, mode, bound, leases, captured, sandboxResult>>
    BY <1>9 DEF ProgramRuns
  <2>3. p \in live /\ MountedSafely /\ workerAt \in {"wait", "report", "exited"}
    BY <2>1 DEF Runs
  <2>4. ~projectChanged' /\ projectChanged' \in BOOLEAN
    BY <2>1, <2>3
  <2>5. live' \subseteq Processes /\ {"launcher", "worker"} \cap live' = {"launcher", "worker"} \cap live
    BY <2>1
  <2>6. SandboxTypeOK'
    BY <2>2, <2>4, <2>5
  <2>7. ProgramConfined'
    BY ONLY SandboxInv, <2>2, <2>3, <2>4 DEF SandboxInv, ProgramConfined, MountedSafely
  <2>8. TreeKnown'
    BY <2>2, <2>3, <2>5
  <2> QED BY <2>6, <2>7, <2>8
<1>10. CASE WorkerExits
  BY <1>10 DEF WorkerExits, Runs, Reaped
<1>11. ASSUME NEW ok \in BOOLEAN, OuterCommunicated(ok)
       PROVE  SandboxInv'
  BY <1>11 DEF OuterCommunicated, Refused
<1>12. CASE WorkerTimeout
  BY <1>12 DEF WorkerTimeout
<1>13. CASE CaptureTree
  BY <1>13 DEF CaptureTree
<1>14. CASE TerminateTree
  BY <1>14 DEF TerminateTree, Reaped
<1>15. CASE KillTree
  BY <1>15 DEF KillTree
<1>16. CASE ReportTimeout
  BY <1>16 DEF ReportTimeout, Refused
<1>17. CASE UNCHANGED sandboxVars
  BY <1>17 DEF sandboxVars
<1> QED BY <1>1, <1>2, <1>3, <1>4, <1>5, <1>6, <1>7, <1>8, <1>9, <1>10, <1>11, <1>12, <1>13,
           <1>14, <1>15, <1>16, <1>17 DEF SandboxNext

\* The program never writes to the project itself, and run_finite never ends with something
\* of the run alive that it does not report, also for a process that the snapshot of the
\* tree missed (_mount_bind, _capture, terminate_process_tree).
THEOREM SandboxContains == SandboxSpec => []SandboxContained
<1>1. SandboxInv => SandboxContained
  BY DEF SandboxInv, ProgramConfined, TreeKnown, SandboxContained
<1> QED BY <1>1, SandboxInvInit, SandboxInvStep, PTL DEF SandboxSpec

-----------------------------------------------------------------------------
(***************************************************************************)
(* The bridge.  What was checked of the request when the invocation was    *)
(* verified still holds when the answer is reconciled, because neither is  *)
(* changed in between; only the deadline may have passed.  A stream is     *)
(* followed from one snapshot to the next, so that its last follows what    *)
(* the caller had before it.                                               *)
(***************************************************************************)
Newer(s, last) ==
    /\ s.id = last.id /\ s.revision > last.revision
    /\ last.state \in TerminalStates => s.state = last.state

\* Every snapshot of an accepted stream, not only the first, follows the last one before it.
LEMMA StreamIsNewer ==
    ASSUME NEW events \in Streams, NEW last, last # NoResponse, last.revision \in Int,
           \A i \in DOMAIN events : Follows(events[i], IF i = 1 THEN last ELSE events[i - 1])
    PROVE  \A i \in DOMAIN events : Newer(events[i], last)
<1>. DEFINE T == {i \in Nat : i \in DOMAIN events /\ ~Newer(events[i], last)}
            R == OpToRel(<, Nat)
<1>0. /\ Len(events) \in Nat /\ DOMAIN events = 1 .. Len(events)
      /\ \A i \in DOMAIN events : events[i] # NoResponse /\ events[i].revision \in Int
  BY BridgeAssumption DEF BridgeAssumption
<1>1. CASE T = {}
  BY <1>0, <1>1
<1>2. CASE T # {}
  <2>1. PICK m \in T : \A i \in T : <<i, m>> \notin R
    <3>1. IsWellFoundedOn(R, Nat)
      BY NatLessThanWellFounded
    <3>2. T \subseteq Nat
      OBVIOUS
    <3>. HIDE DEF R, T
    <3>. QED BY <1>2, <3>1, <3>2, WFMin
  <2>2. m \in Nat /\ m \in DOMAIN events /\ ~Newer(events[m], last)
    OBVIOUS
  <2>3. m # 1
    BY <2>2 DEF Follows, Newer
  <2>4. m - 1 \in DOMAIN events /\ m - 1 \in Nat /\ <<m - 1, m>> \in R
    BY <1>0, <2>2, <2>3 DEF OpToRel
  <2>5. Newer(events[m - 1], last)
    <3>. HIDE DEF R
    <3>. QED BY <2>1, <2>4
  <2>6. Newer(events[m], events[m - 1])
    BY <1>0, <2>2, <2>3, <2>4 DEF Follows, Newer
  <2>7. Newer(events[m], last)
    <3>. DEFINE s == events[m]
                r == events[m - 1]
    <3>1. s.revision \in Int /\ r.revision \in Int
      BY <1>0, <2>2, <2>4
    <3>2. Newer(r, last) /\ Newer(s, r)
      BY <2>5, <2>6
    <3>. HIDE DEF s, r
    <3>3. Newer(s, last)
      BY <3>1, <3>2 DEF Newer
    <3>. QED BY <3>3 DEF s
  <2>. QED BY <2>2, <2>7
<1>. QED BY <1>1, <1>2

\* What the caller was handed, before and with the last snapshot.
StreamInv ==
    /\ task = NoResponse => told = {}
    /\ task # NoResponse => task.revision \in Int
    /\ \A s \in told :
          /\ s.id = task.id /\ s.revision \in Int /\ s.revision <= task.revision
          /\ s.revision = task.revision => s = task
          /\ s.state \in TerminalStates => task.state = s.state

LEMMA StreamStep ==
    ASSUME StreamInv, NEW events \in Streams, ReconcileStream(events)
    PROVE  StreamInv'
<1>. DEFINE new == events[Len(events)]
<1>1. /\ Len(events) \in DOMAIN events /\ new # NoResponse /\ new.revision \in Int
  BY BridgeAssumption DEF BridgeAssumption
<1>2. task' = new /\ told' = told \cup {new}
  BY DEF ReconcileStream
<1>3. task # NoResponse => Newer(new, task)
  <2>. SUFFICES ASSUME task # NoResponse PROVE Newer(new, task)
    OBVIOUS
  <2>1. task.revision \in Int
    BY DEF StreamInv
  <2>2. \A i \in DOMAIN events : Newer(events[i], task)
    BY <2>1, StreamIsNewer DEF ReconcileStream
  <2>. QED BY <1>1, <2>2
<1>. HIDE DEF new
<1>4. CASE task = NoResponse
  BY <1>1, <1>2, <1>4 DEF StreamInv
<1>5. CASE task # NoResponse
  <2>1. \A s \in told : /\ s.id = new.id /\ s.revision \in Int /\ s.revision < new.revision
                        /\ s.state \in TerminalStates => new.state = s.state
    BY <1>1, <1>3, <1>5 DEF StreamInv, Newer
  <2>. QED BY <1>1, <1>2, <2>1 DEF StreamInv
<1>. QED BY <1>4, <1>5

Delegated(b) ==
    LET g == invocation[b].delegation.payload
        req == invocation[b].request
    IN /\ invocation[b].delegation \in Delegations /\ req \in BridgeRequests
       /\ g.task = req.task
       /\ req.capabilities \subseteq g.capabilities \cap Registered[req.agent].capabilities
       /\ req.outputs \subseteq g.outputs
       /\ RequestSteps(req, g) <= GrantSteps(g)

BridgeInv ==
    /\ BridgeTypeOK /\ StreamInv
    /\ invocation = [b \in Bridges |-> invocation[b]] /\ answer = [b \in Bridges |-> answer[b]]
    /\ \A b \in Bridges :
          /\ bridgeAt[b] \in {"verified", "answered", "printed"} => Delegated(b)
          /\ bridgeAt[b] \in {"answered", "printed"} => answer[b] \in Responses
          /\ bridgeAt[b] = "printed" =>
                Reconciles(invocation[b].request, invocation[b].delegation.payload, answer[b])

LEMMA BridgeInvInit == BridgeInit => BridgeInv
  BY BridgeAssumption DEF BridgeInit, BridgeInv, BridgeTypeOK, StreamInv

LEMMA BridgeInvStep == BridgeInv /\ [BridgeNext]_bridgeVars => BridgeInv'
<1> SUFFICES ASSUME BridgeInv, [BridgeNext]_bridgeVars
             PROVE  BridgeInv'
  OBVIOUS
<1> USE BridgeAssumption DEF BridgeInv, BridgeTypeOK, BridgeErrors, MoveBridge
<1>1. ASSUME NEW b \in Bridges, NEW d \in Delegations, NEW req \in BridgeRequests,
             VerifyInvocation(b, d, req)
      PROVE  BridgeInv'
  <2>1. /\ invocation' = [invocation EXCEPT ![b] = [delegation |-> d, request |-> req]]
        /\ answer' = answer
        /\ bridgeAt' = [bridgeAt EXCEPT ![b] = "refused"]
           \/ /\ bridgeAt' = [bridgeAt EXCEPT ![b] = "verified"]
              /\ WithinDelegation(req, d.payload, Registered[req.agent])
    BY <1>1 DEF VerifyInvocation
  <2>2. invocation'[b] = [delegation |-> d, request |-> req]
    BY <2>1
  <2>3. \A k \in Bridges : k # b => bridgeAt'[k] = bridgeAt[k] /\ invocation'[k] = invocation[k]
    BY <2>1
  <2>4. bridgeAt'[b] = "refused" \/ (bridgeAt'[b] = "verified" /\ Delegated(b)')
    BY <2>1, <2>2 DEF WithinDelegation, Delegated
  <2>5. \A k \in Bridges : k # b => (Delegated(k) => Delegated(k)')
    BY <2>3 DEF Delegated
  <2>6. BridgeTypeOK'
    <3>1. invocation'[b].request \in BridgeRequests
      BY <2>2
    <3>2. bridgeTime' = bridgeTime /\ task' = task /\ told' = told
      BY <1>1 DEF VerifyInvocation
    <3> QED BY <2>1, <2>3, <3>1, <3>2
  <2>7. \A k \in Bridges : k # b => answer'[k] = answer[k]
    BY <2>1
  <2>8. StreamInv'
    BY <1>1 DEF VerifyInvocation, StreamInv
  <2> QED BY <2>1, <2>3, <2>4, <2>5, <2>6, <2>7, <2>8
<1>2. ASSUME NEW b \in Bridges, NEW r \in Responses, ExecuteAgent(b, r)
      PROVE  BridgeInv'
  BY <1>2 DEF ExecuteAgent, Delegated, StreamInv
<1>3. ASSUME NEW b \in Bridges, NEW error \in {"failed", "outcome_unknown"}, AgentFails(b, error)
      PROVE  BridgeInv'
  BY <1>3 DEF AgentFails, Delegated, StreamInv
<1>4. ASSUME NEW b \in Bridges, ReconcileResponse(b)
      PROVE  BridgeInv'
  BY <1>4 DEF ReconcileResponse, Delegated, StreamInv
<1>5. CASE BridgeTick \/ UNCHANGED bridgeVars
  BY <1>5 DEF BridgeTick, bridgeVars, Delegated, StreamInv
<1>6. ASSUME NEW events \in Streams, ReconcileStream(events)
      PROVE  BridgeInv'
  <2>1. StreamInv'
    BY <1>6, StreamStep
  <2>2. /\ UNCHANGED <<bridgeAt, invocation, answer, bridgeTime>>
        /\ task' = events[Len(events)] /\ told' = told \cup {events[Len(events)]}
    BY <1>6 DEF ReconcileStream
  <2>3. \A s \in told' \cup {task'} : s # NoResponse => \E e \in Streams : s = e[Len(e)]
    BY <2>2
  <2> QED BY <2>1, <2>2, <2>3 DEF Delegated
<1> QED BY <1>1, <1>2, <1>3, <1>4, <1>5, <1>6 DEF BridgeNext

\* What the bridge prints is inside the delegation, the contract and the registered
\* descriptor, and no stream takes back what its caller was handed, for any number of
\* bridges, any numbers of steps and any length of the streams (validate_delegation,
\* reconcile_response, reconcile_stream).
THEOREM BridgePrintsWithinDelegation == BridgeSpec => []PrintedWithinDelegation
<1>1. BridgeInv => PrintedWithinDelegation
  <2>1. ASSUME BridgeInv, NEW b \in Bridges, bridgeAt[b] = "printed"
        PROVE  LET req == invocation[b].request
                   g == invocation[b].delegation.payload
                   d == Registered[req.agent]
                   r == answer[b]
               IN /\ r.used \subseteq g.capabilities \cap d.capabilities
                  /\ r.outputs \subseteq g.outputs
                  /\ r.steps >= 0 /\ r.steps <= MostSteps
                  /\ r.steps <= 1 \/ (r.steps <= g.steps /\ (req.steps = 0 \/ r.steps <= req.steps))
                  /\ r.task = g.task
                  /\ r.state = "completed" => req.outputs \subseteq r.outputs
    <3>1. /\ Delegated(b) /\ answer[b] \in Responses
          /\ Reconciles(invocation[b].request, invocation[b].delegation.payload, answer[b])
      BY <2>1 DEF BridgeInv
    <3>. DEFINE req == invocation[b].request
                g == invocation[b].delegation.payload
                n == answer[b].steps
    <3>2. /\ n \in Int /\ g.steps \in Int /\ req.steps \in Int /\ MostSteps \in Nat /\ MostSteps > 0
          /\ n \in 0 .. Min2(RequestSteps(req, g), GrantSteps(g))
      BY <3>1, BridgeAssumption DEF Delegated, Reconciles
    <3>3. /\ n >= 0 /\ n <= MostSteps
          /\ n <= 1 \/ (n <= g.steps /\ (req.steps = 0 \/ n <= req.steps))
      <4>. HIDE DEF n, g, req
      <4>. QED BY <3>2 DEF RequestSteps, GrantSteps, Min2, Max2
    <3> QED BY <3>1, <3>3 DEF Delegated, Reconciles
  <2>2. ASSUME BridgeInv, NEW s \in told
        PROVE  /\ s.id = task.id /\ s.revision <= task.revision
               /\ s.revision = task.revision => s = task
               /\ s.state \in TerminalStates => StateAfterDisconnect = s.state
    BY <2>2 DEF BridgeInv, StreamInv, StateAfterDisconnect
  <2> QED BY <2>1, <2>2 DEF PrintedWithinDelegation
<1> QED BY <1>1, BridgeInvInit, BridgeInvStep, PTL DEF BridgeSpec

-----------------------------------------------------------------------------
(***************************************************************************)
(* The composition that the authority run checks: each behaviour exercises *)
(* one component and leaves the others, so it is a behaviour of each.      *)
(***************************************************************************)

\* The components share no state, so composing them gives none a new step.
LEMMA ComponentsStep ==
    ASSUME focus \in Components, [Next]_vars
    PROVE  /\ [GrantsNext]_grantVars /\ [IpcNext]_ipcVars /\ [SecretsNext]_secretVars
           /\ [EffectsNext]_effectVars /\ [ExtensionsNext]_extensionVars
           /\ [PolicyNext]_policyVars /\ [SandboxNext]_sandboxVars /\ [BridgeNext]_bridgeVars
           /\ focus' \in Components
<1>1. CASE UNCHANGED vars
  BY <1>1 DEF vars
<1>2. CASE Next
  <2>1. focus' = focus /\ \A c \in Components : c # focus => Still(c)
    BY <1>2 DEF Next, OthersStill
  <2>2. /\ focus # "grants" => UNCHANGED grantVars
        /\ focus # "ipc" => UNCHANGED ipcVars
        /\ focus # "secrets" => UNCHANGED secretVars
        /\ focus # "effects" => UNCHANGED effectVars
        /\ focus # "extensions" => UNCHANGED extensionVars
        /\ focus # "policy" => UNCHANGED policyVars
        /\ focus # "sandbox" => UNCHANGED sandboxVars
        /\ focus # "bridge" => UNCHANGED bridgeVars
    BY <2>1 DEF Components, Still
  <2>3. /\ focus = "grants" => GrantsNext
        /\ focus = "ipc" => IpcNext
        /\ focus = "secrets" => SecretsNext
        /\ focus = "effects" => EffectsNext
        /\ focus = "extensions" => ExtensionsNext
        /\ focus = "policy" => PolicyNext
        /\ focus = "sandbox" => SandboxNext
        /\ focus = "bridge" => BridgeNext
    BY <1>2 DEF Next
  <2> QED BY <2>1, <2>2, <2>3
<1> QED BY <1>1, <1>2

AuthorityInv ==
    /\ focus \in Components
    /\ GrantsInv /\ IpcInv /\ SecretsInv /\ UndoInv /\ ExtensionsInv
    /\ PolicyInv /\ SandboxInv /\ BridgeInv

\* Every variable of the components keeps its type in the composition that the run checks.
THEOREM AuthorityTypeCorrect == Spec => []TypeOK
<1>1. Init => AuthorityInv
  BY GrantsInvInit, IpcInvInit, SecretsInvInit, UndoInvInit, ExtensionsInvInit, PolicyInvInit,
     SandboxInvInit, BridgeInvInit DEF Init, AuthorityInv
<1>2. AuthorityInv /\ [Next]_vars => AuthorityInv'
  BY ComponentsStep, GrantsInvStep, IpcInvStep, SecretsInvStep, UndoInvStep, ExtensionsInvStep,
     PolicyInvStep, SandboxInvStep, BridgeInvStep DEF AuthorityInv
<1>3. AuthorityInv => TypeOK
  BY DEF AuthorityInv, TypeOK, GrantsInv, IpcInv, SecretsInv, UndoInv, ExtensionsInv,
         PolicyInv, SandboxInv, BridgeInv
<1> QED BY <1>1, <1>2, <1>3, PTL DEF Spec

\* The composition is a composition of the components: each of its behaviours is one of
\* theirs, so that whatever is proved of a component holds in it.
THEOREM AuthorityImplementsComponents ==
    Spec => /\ GrantsSpec /\ IpcSpec /\ SecretsSpec /\ EffectsSpec
            /\ ExtensionsSpec /\ PolicySpec /\ SandboxSpec /\ BridgeSpec
<1>1. Init => /\ focus \in Components
              /\ GrantsInit /\ IpcInit /\ SecretsInit /\ EffectsInit
              /\ ExtensionsInit /\ PolicyInit /\ SandboxInit /\ BridgeInit
  BY DEF Init
<1>2. focus \in Components /\ [Next]_vars =>
           /\ (focus \in Components)'
           /\ [GrantsNext]_grantVars /\ [IpcNext]_ipcVars /\ [SecretsNext]_secretVars
           /\ [EffectsNext]_effectVars /\ [ExtensionsNext]_extensionVars
           /\ [PolicyNext]_policyVars /\ [SandboxNext]_sandboxVars /\ [BridgeNext]_bridgeVars
  BY ComponentsStep
<1> QED BY <1>1, <1>2, PTL
        DEF Spec, GrantsSpec, IpcSpec, SecretsSpec, EffectsSpec, ExtensionsSpec, PolicySpec,
            SandboxSpec, BridgeSpec

\* In the composition that the run checks, what was revoked stays revoked and no overlay is
\* outvoted, for any candidates, key handles, profiles, overlays and requests.
THEOREM AuthorityIsOnlyNarrowed == Spec => []AuthorityOnlyNarrows
BY AuthorityImplementsComponents, RevocationIsFinal, NoOverlayIsOutvoted, PTL
   DEF AuthorityOnlyNarrows
===============================================================================
