--------------------------- MODULE ChainIdProofs ---------------------------
(***************************************************************************)
(* Theorems about ChainId, for every set of calls and access nodes, every  *)
(* number of configuration changes, failures and clears.                   *)
(*                                                                         *)
(* None of the properties is inductive: which node a request was started   *)
(* for is known only from its call, so the invariant says how far a call   *)
(* has come when it has one (Phases), and what the cache holds (Entries).  *)
(***************************************************************************)
EXTENDS ChainId, TLAPS

\* How far a call is says what it has found, and whether it awaits or has
\* started a request.
Phases ==
  \A c \in Call :
    /\ pc[c] \in {"idle", "reading", "looking", "trying"} => request[c] = "none"
    /\ pc[c] \in {"trying", "waiting"} => promise[c] # None /\ node[c] # NoNode
    /\ request[c] # "none" => node[c] # NoNode
    /\ request[c] = "ok" => asked[c] # NoNode

\* An entry of the cache holds a request that was started for its node.
Entries ==
  \A n \in Node : cache[n] # None => node[cache[n]] = n /\ Useful(cache[n])

IInv == TypeOK /\ Phases /\ Entries /\ CacheHoldsRequests

-----------------------------------------------------------------------------
LEMMA InitIInv == Init => IInv
  BY ChainIdAssumption
  DEF Init, IInv, TypeOK, Phases, Entries, CacheHoldsRequests, NoResult, Useful, InFlight

\* A call that awaits, returns or falls back changes neither cache nor requests.
LEMMA CallStepIInv ==
  ASSUME IInv, NEW c \in Call, CallStep(c)
  PROVE  IInv'
<1> USE ChainIdAssumption DEF IInv, TypeOK, Phases, Entries, CacheHoldsRequests, Useful, InFlight
<1>1. CASE ReadsNode(c)
  BY <1>1 DEF ReadsNode, bounds
<1>2. CASE HasNoNode(c)
  BY <1>2 DEF HasNoNode, FallsBack, Returns, bounds
<1>3. CASE FindsCached(c)
  BY <1>3 DEF FindsCached, bounds
<1>4. ASSUME SharesRequest(c), request[c] = "none", node[c] # NoNode
      PROVE  IInv'
  <2>1. CASE cache[node[c]] = None
    <3>1. /\ request' = [request EXCEPT ![c] = "resolving"]
          /\ cache' = [cache EXCEPT ![node[c]] = c]
          /\ promise' = [promise EXCEPT ![c] = c]
          /\ pc' = [pc EXCEPT ![c] = "waiting"]
          /\ UNCHANGED <<accessNode, node, result, asked, changes, failures, clears>>
      BY <1>4, <2>1 DEF SharesRequest, bounds
    <3>2. TypeOK'
      BY <3>1
    <3>3. Phases'
      BY <1>4, <3>1
    <3>4. Entries'
      BY <1>4, <2>1, <3>1
    <3>5. CacheHoldsRequests'
      BY <1>4, <2>1, <3>1
    <3> QED
      BY <3>2, <3>3, <3>4, <3>5
  <2>2. CASE cache[node[c]] # None
    <3>1. /\ promise' = [promise EXCEPT ![c] = cache[node[c]]]
          /\ pc' = [pc EXCEPT ![c] = "waiting"]
          /\ UNCHANGED <<request, cache, accessNode, node, result, asked,
                         changes, failures, clears>>
      BY <1>4, <2>2 DEF SharesRequest, bounds
    <3> QED
      BY <1>4, <2>2, <3>1
  <2> QED
    BY <2>1, <2>2
<1>5. CASE FindsNothing(c)
  BY <1>4, <1>5 DEF FindsNothing
<1>6. CASE TriesAgain(c)
  BY <1>4, <1>6 DEF TriesAgain
<1>7. CASE GetsChain(c)
  <2>1. asked[promise[c]] \in Node
    BY <1>7 DEF GetsChain
  <2> QED
    BY <1>7, <2>1 DEF GetsChain, Returns, ChainOf, bounds
<1>8. CASE GetsFailure(c)
  BY <1>8 DEF GetsFailure, FallsBack, Returns, bounds
<1> QED
  BY <1>1, <1>2, <1>3, <1>5, <1>6, <1>7, <1>8 DEF CallStep

LEMMA RequestStepIInv ==
  ASSUME IInv, NEW c \in Call, RequestStep(c)
  PROVE  IInv'
<1> USE ChainIdAssumption DEF IInv, TypeOK, Phases, Entries, CacheHoldsRequests, Useful, InFlight
<1>1. CASE RequestReadsNode(c)
  BY <1>1 DEF RequestReadsNode, callVars, bounds
<1>2. CASE RequestSucceeds(c)
  BY <1>2 DEF RequestSucceeds, callVars, bounds
<1>3. CASE RequestFails(c)
  <2>1. /\ node[c] \in Node /\ request[c] = "sent"
        /\ request' = [request EXCEPT ![c] = "failed"]
        /\ cache' = [cache EXCEPT ![node[c]] = None]
        /\ UNCHANGED <<accessNode, pc, node, promise, result, asked, changes, clears>>
    BY <1>3 DEF RequestFails, callVars
  <2>2. failures' \in Nat
    BY <1>3 DEF RequestFails
  <2>3. TypeOK' /\ Phases'
    BY <2>1, <2>2
  <2>4. Entries'
    BY <2>1
  <2>5. \A n \in Node : cache'[n] # c
    BY <2>1
  <2>6. CacheHoldsRequests'
    <3> SUFFICES ASSUME NEW d \in Call
                 PROVE  /\ request'[d] = "failed" => \A n \in Node : cache'[n] # d
                        /\ Useful(d)' /\ clears' = 0 => cache'[node'[d]] = d
      OBVIOUS
    <3>1. CASE d = c
      BY <2>1, <2>5, <3>1
    <3>2. CASE d # c
      <4>1. request'[d] = request[d]
        BY <2>1, <3>2
      <4>2. Useful(d) /\ clears = 0 => node[d] # node[c]
        BY <2>1, <3>2
      <4> QED
        BY <2>1, <4>1, <4>2
    <3> QED
      BY <3>1, <3>2
  <2> QED
    BY <2>3, <2>4, <2>6
<1> QED
  BY <1>1, <1>2, <1>3 DEF RequestStep

LEMMA StepIInv == IInv /\ [Next]_vars => IInv'
<1> SUFFICES ASSUME IInv, [Next]_vars PROVE IInv'
  OBVIOUS
<1> USE ChainIdAssumption DEF IInv, TypeOK, Phases, Entries, CacheHoldsRequests, Useful, InFlight
<1>1. ASSUME NEW c \in Call, GetChainId(c) PROVE IInv'
  BY <1>1 DEF GetChainId, bounds
<1>2. ASSUME NEW n \in Node \cup {NoNode}, SetAccessNode(n) PROVE IInv'
  BY <1>2 DEF SetAccessNode, callVars
<1>3. CASE ClearChainIdCache
  BY <1>3 DEF ClearChainIdCache, callVars
<1>4. ASSUME NEW c \in Call, CallStep(c) PROVE IInv'
  BY <1>4, CallStepIInv
<1>5. ASSUME NEW c \in Call, RequestStep(c) PROVE IInv'
  BY <1>5, RequestStepIInv
<1>6. CASE UNCHANGED vars
  BY <1>6 DEF vars, callVars, bounds
<1> QED
  BY <1>1, <1>2, <1>3, <1>4, <1>5, <1>6 DEF Next

-----------------------------------------------------------------------------
\* The variables of getChainId keep their types.
THEOREM TypeCorrect == Spec => []TypeOK
<1>1. IInv => TypeOK
  BY DEF IInv
<1> QED
  BY <1>1, InitIInv, StepIInv, PTL DEF Spec

\* No entry of chainIdCache holds a failed request, and a request under way or
\* answered is in it until the cache is cleared (lines 90-99 of get-chain-id.js).
THEOREM FailuresAreForgotten == Spec => []CacheHoldsRequests
<1>1. IInv => CacheHoldsRequests
  BY DEF IInv
<1> QED
  BY <1>1, InitIInv, StepIInv, PTL DEF Spec

\* Any number of concurrent and retrying calls have one request per access node
\* that is under way or answered.
THEOREM RequestsAreShared == Spec => []OneRequestPerNode
<1>1. IInv => OneRequestPerNode
  BY DEF IInv, CacheHoldsRequests, OneRequestPerNode
<1> QED
  BY <1>1, InitIInv, StepIInv, PTL DEF Spec

-----------------------------------------------------------------------------
(* The chain id of a call is that of its access node if the request was     *)
(* given the node.  (If the node is read from the configuration it may not  *)
(* be: the request reads it a second time.)                                 *)

\* A call and the request it awaits are for one node, and a request that was
\* given its node is sent to it.
Pinned ==
  \A c \in Call :
    /\ OptsNode[c] # NoNode /\ pc[c] \notin {"idle", "reading"} => node[c] = OptsNode[c]
    /\ OptsNode[c] # NoNode /\ request[c] \in {"sent", "ok", "failed"} => asked[c] = OptsNode[c]
    /\ pc[c] \in {"trying", "waiting"} =>
         node[promise[c]] = node[c] /\ request[promise[c]] # "none"
    /\ result[c].kind = "chain" =>
         pc[c] = "done" /\ (OptsNode[promise[c]] # NoNode => result[c].chain = node[c])

LEMMA PinnedStep ==
  ASSUME IInv, Pinned, [Next]_vars
  PROVE  Pinned'
<1> USE ChainIdAssumption DEF IInv, TypeOK, Phases, Entries, Pinned, Useful, InFlight
<1>1. ASSUME NEW c \in Call, GetChainId(c) PROVE Pinned'
  BY <1>1 DEF GetChainId, bounds
<1>2. ASSUME NEW n \in Node \cup {NoNode}, SetAccessNode(n) PROVE Pinned'
  BY <1>2 DEF SetAccessNode, callVars
<1>3. CASE ClearChainIdCache
  BY <1>3 DEF ClearChainIdCache, callVars
<1>4. ASSUME NEW c \in Call, ReadsNode(c) PROVE Pinned'
  BY <1>4 DEF ReadsNode, bounds
<1>5. ASSUME NEW c \in Call, HasNoNode(c) \/ GetsFailure(c) PROVE Pinned'
  BY <1>5 DEF HasNoNode, GetsFailure, FallsBack, Returns, bounds
<1>6. ASSUME NEW c \in Call, FindsCached(c) PROVE Pinned'
  BY <1>6 DEF FindsCached, bounds
<1>7. ASSUME NEW c \in Call, FindsNothing(c) \/ TriesAgain(c) PROVE Pinned'
  <2>1. /\ SharesRequest(c) /\ request[c] = "none"
        /\ pc[c] \in {"looking", "trying"} /\ node[c] \in Node
    BY <1>7 DEF FindsNothing, TriesAgain
  <2>2. CASE cache[node[c]] = None
    BY <2>1, <2>2 DEF SharesRequest, bounds
  <2>3. CASE cache[node[c]] # None
    BY <2>1, <2>3 DEF SharesRequest, bounds
  <2> QED
    BY <2>2, <2>3
<1>8. ASSUME NEW c \in Call, GetsChain(c) PROVE Pinned'
  <2>1. OptsNode[promise[c]] # NoNode => asked[promise[c]] = node[c]
    BY <1>8 DEF GetsChain
  <2> QED
    BY <1>8, <2>1 DEF GetsChain, Returns, ChainOf, bounds
<1>9. ASSUME NEW c \in Call, RequestStep(c) PROVE Pinned'
  BY <1>9 DEF RequestStep, RequestReadsNode, RequestSucceeds, RequestFails, callVars, bounds
<1>10. CASE UNCHANGED vars
  BY <1>10 DEF vars, callVars, bounds
<1> QED
  BY <1>1, <1>2, <1>3, <1>4, <1>5, <1>6, <1>7, <1>8, <1>9, <1>10 DEF Next, CallStep

\* Whatever happens to the configuration meanwhile, a request that was given
\* its access node in opts.node answers every call that shares it with the
\* chain id of the access node the call found.
THEOREM PinnedRequestsAnswerForTheirNode == Spec => []ChainIdOfPinned
<1>1. Init => Pinned
  BY DEF Init, Pinned, NoResult
<1>2. IInv /\ Pinned /\ [Next]_vars => Pinned'
  BY PinnedStep
<1>3. Pinned => ChainIdOfPinned
  BY DEF Pinned, ChainIdOfPinned
<1> QED
  BY <1>1, <1>2, <1>3, InitIInv, StepIInv, PTL DEF Spec
=============================================================================
