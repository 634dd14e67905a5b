------------------------------ MODULE ChainId ------------------------------
(***************************************************************************)
(* getChainId (packages/fcl-core/src/utils/chain-id): concurrent calls     *)
(* share one request per access node through chainIdCache, a table from    *)
(* access node to the promise of its chain id.                             *)
(*                                                                         *)
(* The configuration is read in two places: getChainId reads the access    *)
(* node to find the entry of the cache, and the request it starts, which   *)
(* is given the options of the call and not that access node, reads it     *)
(* again in sdk.send.  A step is what a call does between two awaits.      *)
(* A request is identified by the call that starts it.                     *)
(***************************************************************************)
EXTENDS Integers, FiniteSets

CONSTANTS
  Call,        \* calls of getChainId, those of the watcher included
  Node,        \* access nodes; the chain id of a node is the node itself
  NoNode,      \* "accessNode.api" is not set
  None,        \* no promise, no chain id
  OptsNode,    \* opts.node of each call, or NoNode
  Legacy,      \* whether "flow.network" or "env" is set
  MaxChanges,  \* bound: changes of the configuration
  MaxFailures, \* bound: requests that fail
  MaxClears    \* bound: calls of clearChainIdCache

ASSUME ChainIdAssumption ==
  /\ NoNode \notin Node /\ None \notin Node \cup Call
  /\ OptsNode \in [Call -> Node \cup {NoNode}]
  /\ Legacy \in BOOLEAN
  /\ MaxChanges \in Nat /\ MaxFailures \in Nat /\ MaxClears \in Nat

VARIABLES
  accessNode,  \* the value of "accessNode.api"
  cache,       \* chainIdCache: the request whose promise an entry holds
  pc,          \* each call: idle, reading, looking, trying, waiting, done
  node,        \* the access node it found
  promise,     \* the request it awaits
  result,      \* its outcome: a chain id, Legacy's, or an error
  request,     \* the request each call started: none, resolving, sent, ok, failed
  asked,       \* the node the request was sent to
  changes, failures, clears

callVars == <<pc, node, promise, result>>
bounds   == <<changes, failures, clears>>
vars     == <<accessNode, cache, callVars, request, asked, bounds>>

TypeOK ==
  /\ accessNode \in Node \cup {NoNode}
  /\ cache      \in [Node -> Call \cup {None}]
  /\ pc         \in [Call -> {"idle", "reading", "looking", "trying", "waiting", "done"}]
  /\ node       \in [Call -> Node \cup {NoNode}]
  /\ promise    \in [Call -> Call \cup {None}]
  /\ result     \in [Call -> [kind : {"none", "chain", "legacy", "error"}, chain : Node \cup {None}]]
  /\ request    \in [Call -> {"none", "resolving", "sent", "ok", "failed"}]
  /\ asked      \in [Call -> Node \cup {NoNode}]
  /\ changes \in Nat /\ failures \in Nat /\ clears \in Nat

NoResult  == [kind |-> "none", chain |-> None]
ChainOf(n) == [kind |-> "chain", chain |-> n]

Init ==
  /\ accessNode \in Node \cup {NoNode}
  /\ cache    = [n \in Node |-> None]
  /\ pc       = [c \in Call |-> "idle"]
  /\ node     = [c \in Call |-> NoNode]
  /\ promise  = [c \in Call |-> None]
  /\ result   = [c \in Call |-> NoResult]
  /\ request  = [c \in Call |-> "none"]
  /\ asked    = [c \in Call |-> NoNode]
  /\ changes = 0 /\ failures = 0 /\ clears = 0

-----------------------------------------------------------------------------
(* The program.                                                             *)

GetChainId(c) ==
  /\ pc[c] = "idle"
  /\ pc' = [pc EXCEPT ![c] = "reading"]
  /\ UNCHANGED <<accessNode, cache, node, promise, result, request, asked, bounds>>

SetAccessNode(n) ==
  /\ changes < MaxChanges /\ n # accessNode
  /\ accessNode' = n
  /\ changes' = changes + 1
  /\ UNCHANGED <<cache, callVars, request, asked, failures, clears>>

ClearChainIdCache ==
  /\ clears < MaxClears
  /\ cache' = [n \in Node |-> None]
  /\ clears' = clears + 1
  /\ UNCHANGED <<accessNode, callVars, request, asked, changes, failures>>

-----------------------------------------------------------------------------
(* A call.                                                                  *)

\* opts.node || (await config.get("accessNode.api"))
ReadsNode(c) ==
  /\ pc[c] = "reading"
  /\ node' = [node EXCEPT ![c] = IF OptsNode[c] # NoNode THEN OptsNode[c] ELSE accessNode]
  /\ pc'   = [pc EXCEPT ![c] = "looking"]
  /\ UNCHANGED <<accessNode, cache, promise, result, request, asked, bounds>>

Returns(c, outcome) ==
  /\ pc'     = [pc EXCEPT ![c] = "done"]
  /\ result' = [result EXCEPT ![c] = outcome]

\* The deprecated keys, where the chain id cannot be had.
FallsBack(c) ==
  Returns(c, [kind |-> IF Legacy THEN "legacy" ELSE "error", chain |-> None])

HasNoNode(c) ==
  /\ pc[c] = "looking" /\ node[c] = NoNode
  /\ FallsBack(c)
  /\ UNCHANGED <<accessNode, cache, node, promise, request, asked, bounds>>

\* A cached promise is awaited, whether it is settled or not.
FindsCached(c) ==
  /\ pc[c] = "looking" /\ node[c] # NoNode /\ cache[node[c]] # None
  /\ promise' = [promise EXCEPT ![c] = cache[node[c]]]
  /\ pc'      = [pc EXCEPT ![c] = "trying"]
  /\ UNCHANGED <<accessNode, cache, node, result, request, asked, bounds>>

\* Mutant of SharesRequest: the cache is not looked at again.
StartsRequest(c) ==
  /\ pc'      = [pc EXCEPT ![c] = "waiting"]
  /\ request' = [request EXCEPT ![c] = "resolving"]
  /\ cache'   = [cache EXCEPT ![node[c]] = c]
  /\ promise' = [promise EXCEPT ![c] = c]
  /\ UNCHANGED <<accessNode, node, result, asked, bounds>>

\* The request in the cache, or a new one; it is awaited.
SharesRequest(c) ==
  /\ pc' = [pc EXCEPT ![c] = "waiting"]
  /\ IF cache[node[c]] = None
       THEN /\ request' = [request EXCEPT ![c] = "resolving"]
            /\ cache'   = [cache EXCEPT ![node[c]] = c]
            /\ promise' = [promise EXCEPT ![c] = c]
       ELSE /\ promise' = [promise EXCEPT ![c] = cache[node[c]]]
            /\ UNCHANGED <<request, cache>>
  /\ UNCHANGED <<accessNode, node, result, asked, bounds>>

FindsNothing(c) ==
  /\ pc[c] = "looking" /\ node[c] # NoNode /\ cache[node[c]] = None
  /\ SharesRequest(c)

\* Mutant of TriesAgain: the promise that failed is awaited again.
AwaitsAgain(c) ==
  /\ pc[c] = "trying" /\ request[promise[c]] = "failed"
  /\ UNCHANGED vars

TriesAgain(c) ==
  /\ pc[c] = "trying" /\ request[promise[c]] = "failed"
  /\ SharesRequest(c)

GetsChain(c) ==
  /\ pc[c] \in {"trying", "waiting"} /\ request[promise[c]] = "ok"
  /\ Returns(c, ChainOf(asked[promise[c]]))
  /\ UNCHANGED <<accessNode, cache, node, promise, request, asked, bounds>>

GetsFailure(c) ==
  /\ pc[c] = "waiting" /\ request[promise[c]] = "failed"
  /\ FallsBack(c)
  /\ UNCHANGED <<accessNode, cache, node, promise, request, asked, bounds>>

-----------------------------------------------------------------------------
(* A request: fetchChainId(opts).                                           *)

\* Mutant of RequestReadsNode: the node of the options is forgotten.
RequestForgetsOptions(c) ==
  /\ request[c] = "resolving"
  /\ asked'   = [asked EXCEPT ![c] = accessNode]
  /\ request' = [request EXCEPT ![c] = "sent"]
  /\ UNCHANGED <<accessNode, cache, callVars, bounds>>

\* sdk.send: opts.node = opts.node || (await config().get("accessNode.api"))
RequestReadsNode(c) ==
  /\ request[c] = "resolving"
  /\ asked'   = [asked EXCEPT ![c] = IF OptsNode[c] # NoNode THEN OptsNode[c] ELSE accessNode]
  /\ request' = [request EXCEPT ![c] = "sent"]
  /\ UNCHANGED <<accessNode, cache, callVars, bounds>>

RequestSucceeds(c) ==
  /\ request[c] = "sent" /\ asked[c] # NoNode
  /\ request' = [request EXCEPT ![c] = "ok"]
  /\ UNCHANGED <<accessNode, cache, callVars, asked, bounds>>

\* Mutant of RequestFails: the cache keeps the promise that rejects.
RequestFailsCached(c) ==
  /\ request[c] = "sent"
  /\ IF asked[c] = NoNode THEN UNCHANGED failures
       ELSE failures < MaxFailures /\ failures' = failures + 1
  /\ request' = [request EXCEPT ![c] = "failed"]
  /\ UNCHANGED <<accessNode, cache, callVars, asked, changes, clears>>

\* The entry is emptied, whatever it holds by now, before the promise rejects.
\* A request without a node is refused by the transport.
RequestFails(c) ==
  /\ request[c] = "sent"
  /\ IF asked[c] = NoNode THEN UNCHANGED failures
       ELSE failures < MaxFailures /\ failures' = failures + 1
  /\ request' = [request EXCEPT ![c] = "failed"]
  /\ cache'   = [cache EXCEPT ![node[c]] = None]
  /\ UNCHANGED <<accessNode, callVars, asked, changes, clears>>

-----------------------------------------------------------------------------
CallStep(c) == \/ ReadsNode(c) \/ HasNoNode(c) \/ FindsCached(c) \/ FindsNothing(c)
               \/ TriesAgain(c) \/ GetsChain(c) \/ GetsFailure(c)

RequestStep(c) == RequestReadsNode(c) \/ RequestSucceeds(c) \/ RequestFails(c)

Next ==
  \/ \E c \in Call : GetChainId(c) \/ CallStep(c) \/ RequestStep(c)
  \/ \E n \in Node \cup {NoNode} : SetAccessNode(n)
  \/ ClearChainIdCache

Spec == Init /\ [][Next]_vars

\* Continuations run; every request is answered or fails.
FairSpec == Spec /\ \A c \in Call : WF_vars(CallStep(c)) /\ WF_vars(RequestStep(c))

-----------------------------------------------------------------------------
InFlight(c) == request[c] \in {"resolving", "sent"}
Useful(c)   == InFlight(c) \/ request[c] = "ok"

\* Concurrent calls for an access node share one request: a second one is sent
\* only after the first failed, and then one for all the calls that try again
\* (unless the cache is cleared).
OneRequestPerNode ==
  clears = 0 => \A c, d \in Call :
    Useful(c) /\ Useful(d) /\ node[c] = node[d] => c = d

\* A failure is not remembered: no entry holds a request that failed; and a
\* request under way or answered is in the cache, so that every later call
\* shares it.
CacheHoldsRequests ==
  \A c \in Call :
    /\ request[c] = "failed" => \A n \in Node : cache[n] # c
    /\ Useful(c) /\ clears = 0 => cache[node[c]] = c

\* A request that was given its access node answers for it: every call that
\* awaits it gets the chain id of the access node the call found, whatever the
\* configuration says by then.
ChainIdOfPinned ==
  \A c \in Call : result[c].kind = "chain" /\ OptsNode[promise[c]] # NoNode =>
    result[c].chain = node[c]

\* Every call returns.
CallsReturn == \A c \in Call : pc[c] = "reading" ~> pc[c] = "done"
=============================================================================
