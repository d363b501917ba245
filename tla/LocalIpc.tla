------------------------------- MODULE LocalIpc -------------------------------
(***************************************************************************)
(* Authenticated local IPC (tool/local_authenticated_ipc.py): one thread   *)
(* per connection verifies a request and consumes its id in a replay cache *)
(* that the threads share without a lock, so the look-up and the insertion *)
(* of an id are two steps.                                                 *)
(***************************************************************************)
EXTENDS Integers

CONSTANTS
    Handlers,       \* connections, each with its thread
    IpcRequests,     \* the requests that may arrive, any number of times
    PeerKeys,       \* peer id -> key
    NoEnvelope,
    MaxIpcTime

VARIABLES
    seen,           \* ReplayCache: <<peer, request id>>
    handling,       \* handler -> the envelope it read
    handlerAt,      \* handler -> "read", "insert", "reply", "accepted" or "refused"
    ipcTime,
    answered        \* history: the requests whose acceptance was sent

ASSUME IpcAssumption == MaxIpcTime \in Nat

ipcVars == <<seen, handling, handlerAt, ipcTime, answered>>

Token(e) == <<e.peer, e.id>>

\* verify_request before the replay cache: version, peer, id, size, deadline and
\* MAC, each of which answers with an error of its own.
AuthenticRequest(e, time) ==
    /\ e.version
    /\ e.peer \in DOMAIN PeerKeys
    /\ e.id # ""
    /\ e.fits
    /\ e.deadline > time
    /\ e.mac = PeerKeys[e.peer]

-----------------------------------------------------------------------------
IpcInit ==
    /\ seen = {}
    /\ handling = [h \in Handlers |-> NoEnvelope]
    /\ handlerAt = [h \in Handlers |-> "read"]
    /\ ipcTime = 0
    /\ answered = {}

\* Mutant: the id is not looked up.
Fresh_Always(e) == TRUE

\* ReplayCache.consume: the id is looked up ...
Fresh(e) == Token(e) \notin seen

\* _Handler.handle reads a line and verifies it.
HandleRequest(h, e) ==
    /\ handlerAt[h] = "read"
    /\ handling' = [handling EXCEPT ![h] = e]
    /\ handlerAt' = [handlerAt EXCEPT ![h] =
          IF AuthenticRequest(e, ipcTime) /\ Fresh(e) THEN "insert" ELSE "refused"]
    /\ UNCHANGED <<seen, ipcTime, answered>>

\* Mutant: the id is not kept.
InsertToken_Lost(h) ==
    /\ handlerAt[h] = "insert"
    /\ handlerAt' = [handlerAt EXCEPT ![h] = "reply"]
    /\ UNCHANGED <<seen, handling, ipcTime, answered>>

\* ... and inserted.
InsertToken(h) ==
    /\ handlerAt[h] = "insert"
    /\ seen' = seen \cup {Token(handling[h])}
    /\ handlerAt' = [handlerAt EXCEPT ![h] = "reply"]
    /\ UNCHANGED <<handling, ipcTime, answered>>

\* server_proof under the peer's key, and the answer.
SendProof(h) ==
    /\ handlerAt[h] = "reply"
    /\ handlerAt' = [handlerAt EXCEPT ![h] = "accepted"]
    /\ answered' = answered \cup {Token(handling[h])}
    /\ UNCHANGED <<seen, handling, ipcTime>>

\* The connection ends and its slot serves the next one.
NextConnection(h) ==
    /\ handlerAt[h] \in {"accepted", "refused"}
    /\ handlerAt' = [handlerAt EXCEPT ![h] = "read"]
    /\ handling' = [handling EXCEPT ![h] = NoEnvelope]
    /\ UNCHANGED <<seen, ipcTime, answered>>

IpcTick ==
    /\ ipcTime < MaxIpcTime
    /\ ipcTime' = ipcTime + 1
    /\ UNCHANGED <<seen, handling, handlerAt, answered>>

IpcNext ==
    \/ \E h \in Handlers :
          \/ \E e \in IpcRequests : HandleRequest(h, e)
          \/ InsertToken(h) \/ SendProof(h) \/ NextConnection(h)
    \/ IpcTick

IpcSpec == IpcInit /\ [][IpcNext]_ipcVars

-----------------------------------------------------------------------------
IpcTypeOK ==
    /\ seen \subseteq {Token(e) : e \in IpcRequests}
    /\ handling \in [Handlers -> IpcRequests \cup {NoEnvelope}]
    /\ handlerAt \in [Handlers -> {"read", "insert", "reply", "accepted", "refused"}]
    /\ ipcTime \in 0 .. MaxIpcTime
    /\ answered \subseteq seen

\* A request that was answered once is not taken in again, by any thread, however
\* the threads interleave (ReplayCache.consume).  Two copies that arrive together
\* may both be accepted: the cache is not locked.
AnsweredNotReplayed ==
    [][\A h \in Handlers :
          handlerAt[h] = "read" /\ handlerAt'[h] = "insert"
              => /\ Token(handling'[h]) \notin answered
                 /\ PeerKeys[handling'[h].peer] = handling'[h].mac]_ipcVars
=============================================================================
