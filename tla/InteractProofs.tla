--------------------------- MODULE InteractProofs ---------------------------
(***************************************************************************)
(* Theorems about Interact, for any calls over any transports, whatever is *)
(* lost on the way to the access node and back.                            *)
(***************************************************************************)
EXTENDS Interact, FiniteSetTheorems, NaturalsInduction, WellFoundedInduction, TLAPS

-----------------------------------------------------------------------------
(* What requests ask for.                                                   *)

LEMMA OneStep == 
  ASSUME NEW x PROVE pipe(<<x>>) = IF x.given THEN Build(x, initInteraction) ELSE initInteraction
<1> DEFINE s == <<x>>
           op(i, step) == IF isBad(i) \/ ~ step.given THEN i ELSE Build(step, i)
           init == initInteraction
           F == [u \in SUBSET {1} |-> IF u = {} THEN init ELSE op(init, s[1])]
           G(f) == [u \in SUBSET {1} |-> IF u = {} THEN init ELSE op(f[u \ {Max(u)}], s[Max(u)])]
<1>1. DOMAIN s = {1} /\ s[1] = x
  OBVIOUS
<1>2. Max({1}) = 1
  BY DEF Max
<1>3. \A u \in SUBSET {1} : u = {} \/ u = {1}
  OBVIOUS
<1>4. ~ isBad(init)
  BY DEF isBad, initInteraction
<1>5. pipe(s) = (CHOOSE f : f = G(f))[{1}]
  BY <1>1 DEF pipe, FoldLeft, MapThenFoldSet
<1> HIDE DEF init, op, s
<1>a. {1} \ {1} = {} /\ {} \in SUBSET {1} /\ {1} \in SUBSET {1} /\ {1} # {}
  OBVIOUS
<1>b. F[{}] = init /\ DOMAIN F = SUBSET {1} /\ F[{1}] = op(init, s[1])
  BY <1>a
<1>c. ASSUME NEW f PROVE G(f)[{}] = init /\ G(f)[{1}] = op(f[{}], s[1])
  <2>1. f[{1} \ {Max({1})}] = f[{}] /\ s[Max({1})] = s[1]
    BY <1>2, <1>a
  <2> QED
    BY <1>a, <2>1
<1>6. F = G(F)
  <2>1. \A u \in SUBSET {1} : F[u] = G(F)[u]
    <3>1. G(F)[{}] = init /\ G(F)[{1}] = op(F[{}], s[1])
      BY <1>c
    <3> HIDE DEF F, G
    <3> QED
      BY <1>3, <1>b, <3>1
  <2>2. G(F) = [u \in SUBSET {1} |-> G(F)[u]] /\ F = [u \in SUBSET {1} |-> F[u]]
    OBVIOUS
  <2> HIDE DEF F, G
  <2> QED
    BY <2>1, <2>2
<1>7. \A f : f = G(f) => f[{}] = init /\ f[{1}] = op(f[{}], s[1])
  BY <1>c
<1> HIDE DEF F, G
<1>8. (CHOOSE f : f = G(f)) = G(CHOOSE f : f = G(f))
  BY <1>6
<1>9. pipe(s) = op(init, s[1])
  BY <1>5, <1>7, <1>8
<1> QED
  BY <1>1, <1>4, <1>9 DEF op, s, init

LEMMA Opens ==
  /\ DOMAIN initInteraction =
       {"tag", "status", "accounts", "roles", "uuids", "proposer", "payer", "authorizations", "template",
        "cadence", "refBlock", "computeLimit", "arguments", "events", "block", "id", "validators",
        "intercept"}
  /\ initInteraction.block = [id |-> Null, height |-> Null, isSealed |-> Null]
  BY DEF initInteraction

\* A builder that makes an interaction of a kind, and what it keeps.
LEMMA Makes ==
  ASSUME NEW i, NEW tag, i = [x \in DOMAIN i |-> i[x]], {"tag", "status"} \subseteq DOMAIN i
  PROVE  LET m == makeIx(tag, i) IN
         /\ m.tag = tag /\ DOMAIN m = DOMAIN i /\ m = [x \in DOMAIN m |-> m[x]]
         /\ \A x \in DOMAIN i \ {"tag", "status"} : m[x] = i[x]
  BY DEF makeIx, Ok

LEMMA RefAsks ==
  LET i == pipe(<<Step("getBlock", Null)>>)
  IN HttpAsks(httpSend(i)).op = "block" /\ GrpcAsks(grpcSend(i)).op = "block"
<1> DEFINE i == pipe(<<Step("getBlock", Null)>>)
<1>1. i = getBlock(Null, initInteraction)
  BY OneStep DEF Step, Build
<1>2. i.tag = "GET_BLOCK" /\ i.block.id = Null /\ i.block.height = Null
  <2> DEFINE z == initInteraction
             m == makeIx("GET_BLOCK", z)
  <2>1. z = [x \in DOMAIN z |-> z[x]]
    BY DEF initInteraction
  <2> HIDE DEF z
  <2>2. /\ m.tag = "GET_BLOCK" /\ m.block = [id |-> Null, height |-> Null, isSealed |-> Null]
        /\ "tag" \in DOMAIN m /\ "block" \in DOMAIN m
    BY <2>1, Makes, Opens DEF z
  <2> HIDE DEF m
  <2>3. i = [m EXCEPT !.block.isSealed = Null]
    BY <1>1 DEF getBlock, m, z
  <2> QED
    BY <2>2, <2>3
<1> HIDE DEF i
<1>3. HttpAsks(httpSend(i)).op = "block"
  BY <1>2 DEF httpSend, HttpAsks, httpBlock, httpBlockAt, Http
<1>4. GrpcAsks(grpcSend(i)).op = "block"
  BY <1>2 DEF grpcSend, GrpcAsks, grpcBlock, grpcBlockAt, GrpcOp, Grpc
<1> QED
  BY <1>3, <1>4 DEF i

LEMMA SequenceAsks ==
  ASSUME NEW a
  PROVE  LET i == pipe(<<Step("getAccount", a)>>)
         IN HttpAsks(httpSend(i)).op = "accounts" /\ GrpcAsks(grpcSend(i)).op = "accounts"
<1> DEFINE i == pipe(<<Step("getAccount", a)>>)
<1>1. i = getAccount(a, initInteraction)
  BY OneStep DEF Step, Build
<1>2. i.tag = "GET_ACCOUNT" /\ i.block.height = Null
  <2> DEFINE z == initInteraction
             m == makeIx("GET_ACCOUNT", z)
  <2>1. z = [x \in DOMAIN z |-> z[x]]
    BY DEF initInteraction
  <2> HIDE DEF z
  <2>2. /\ m.tag = "GET_ACCOUNT" /\ m.block = [id |-> Null, height |-> Null, isSealed |-> Null]
        /\ {"tag", "block"} \subseteq DOMAIN m
    BY <2>1, Makes, Opens DEF z
  <2> HIDE DEF m
  <2>3. i = [m EXCEPT !.id = San(a)]
    BY <1>1 DEF getAccount, m, z
  <2> QED
    BY <2>2, <2>3
<1> HIDE DEF i
<1>3. HttpAsks(httpSend(i)).op = "accounts"
  BY <1>2 DEF httpSend, HttpAsks, httpAccount, Http
<1>4. GrpcAsks(grpcSend(i)).op = "accounts"
  BY <1>2 DEF grpcSend, GrpcAsks, grpcAccount, GrpcOp, Grpc
<1> QED
  BY <1>3, <1>4 DEF i

LEMMA SubmitAsks ==
  ASSUME NEW i, isTransaction(i)
  PROVE  HttpAsks(httpSend(i)).op = "submit" /\ GrpcAsks(grpcSend(i)).op = "submit"
<1>3. HttpAsks(httpSend(i)).op = "submit"
  BY DEF isTransaction, httpSend, HttpAsks, httpTransaction, Http
<1>4. GrpcAsks(grpcSend(i)).op = "submit"
  BY DEF isTransaction, grpcSend, GrpcAsks, grpcTransaction, GrpcOp, Grpc
<1> QED
  BY <1>3, <1>4

-----------------------------------------------------------------------------
(* One transaction per call.                                                *)

Sent     == {"send", "decode", "resolved", "rejected", "forgotten"}
Fetching == {"ref", "sequence", "send"}
Waits    == {"asks", "waits"}

\* A request is under way only where one is made, and what a call keeps of one
\* is the answer to what it sent.
Flow ==
  /\ DOMAIN req = {"phase", "attempt", "answer"} /\ req = [x \in DOMAIN req |-> req[x]]
  /\ at \in Fetching \/ req.phase \notin Waits
  /\ at \in {"ref", "sequence"} \cup Sent \/ req = NoRequest
  /\ req.phase = "none" => req = NoRequest
  /\ req.phase = "waits" => req.answer = Null

\* What send asks for, of an interaction.
Request(over, i) == IF over = "http" THEN HttpAsks(httpSend(i)) ELSE GrpcAsks(grpcSend(i))

\* The node has taken no transaction before send, and afterwards only what the
\* interaction is, which no longer changes.
Taken == \A tx \in Submitted : at \in Sent /\ tx = Request(transport, ix).body

\* An answer names the transaction that was taken.
Known ==
  isTransaction(ix) =>
    /\ at = "send" /\ req.answer # Null => req.answer.tx \in Submitted
    /\ at \in {"decode", "resolved"} => req.answer.tx \in Submitted

OneInv == Flow /\ Taken /\ Known

LEMMA Requests ==
  /\ DOMAIN NoRequest = {"phase", "attempt", "answer"}
  /\ NoRequest = [x \in DOMAIN NoRequest |-> NoRequest[x]]
  /\ NoRequest.phase = "none" /\ NoRequest.attempt = 0 /\ NoRequest.answer = Null
  BY DEF NoRequest

LEMMA Unsent ==
  ASSUME OneInv, at \notin Sent PROVE Submitted = {}
  BY DEF OneInv, Taken

LEMMA SameTaken ==
  ASSUME taken' = taken PROVE Submitted' = Submitted
  BY DEF Submitted

\* A step of the resolution that asks for nothing.
LEMMA Quietly ==
  ASSUME OneInv, at \notin {"ref", "sequence"} \cup Sent,
         at' \notin {"decode", "resolved"}, UNCHANGED <<req, taken, transport>>
  PROVE  OneInv'
<1>1. req = NoRequest /\ Submitted = {} /\ Submitted' = {} /\ req' = NoRequest
  BY Unsent, SameTaken DEF OneInv, Flow
<1>2. Flow'
  BY <1>1, Requests DEF Flow, Waits
<1>3. Taken'
  BY <1>1 DEF Taken
<1>4. Known'
  BY <1>1, Requests DEF Known
<1> QED
  BY <1>2, <1>3, <1>4 DEF OneInv

\* The steps that ask the node for nothing.
Quiet ==
  \/ Builds \/ resolveCadence \/ resolveComputeLimit \/ resolveArguments \/ resolveAccountsByIds
  \/ EndsLevel \/ NoTransaction \/ AsksInside \/ AsksOutside \/ AllSigned \/ Signs \/ Declines
  \/ resolveFinalNormalization \/ resolveValidators \/ resolveVoucherIntercept

LEMMA QuietSteps ==
  ASSUME Quiet
  PROVE  /\ at \notin {"ref", "sequence"} \cup Sent /\ at' \notin {"decode", "resolved"}
         /\ UNCHANGED <<req, taken, transport, call>>
<1> USE DEF Sent
<1>1. CASE Builds
  BY <1>1 DEF Builds, Goes, Throws, Only
<1>2. CASE resolveCadence
  BY <1>2 DEF resolveCadence, Goes, Throws, Only
<1>3. CASE resolveComputeLimit
  BY <1>3 DEF resolveComputeLimit, Goes, Throws, Only
<1>4. CASE resolveArguments
  BY <1>4 DEF resolveArguments, Goes, Throws, Only
<1>5. CASE resolveAccountsByIds
  BY <1>5 DEF resolveAccountsByIds, Resolving, Goes, Throws, Only
<1>6. CASE EndsLevel
  BY <1>6 DEF EndsLevel, Resolving, Goes, Throws, Only
<1>7. CASE NoTransaction
  BY <1>7 DEF NoTransaction, Goes, Throws, Only
<1>8. CASE AsksInside
  BY <1>8 DEF AsksInside, AsksSigners, Goes, Throws, Only
<1>9. CASE AsksOutside
  BY <1>9 DEF AsksOutside, AsksSigners, Goes, Throws, Only
<1>10. CASE AllSigned
  BY <1>10 DEF AllSigned, Goes, Throws, Only
<1>11. CASE Signs
  BY <1>11 DEF Signs, Goes, Throws, Only
<1>12. CASE Declines
  BY <1>12 DEF Declines, Goes, Throws, Only
<1>13. CASE resolveFinalNormalization
  BY <1>13 DEF resolveFinalNormalization, Goes, Throws, Only
<1>14. CASE resolveValidators
  BY <1>14 DEF resolveValidators, Goes, Throws, Only
<1>15. CASE resolveVoucherIntercept
  BY <1>15 DEF resolveVoucherIntercept, Goes, Throws, Only
<1> QED
  BY <1>1, <1>2, <1>3, <1>4, <1>5, <1>6, <1>7, <1>8, <1>9, <1>10, <1>11, <1>12, <1>13, <1>14, <1>15 DEF Quiet

LEMMA OneQuiet ==
  ASSUME OneInv, Quiet PROVE OneInv'
  BY QuietSteps, Quietly

\* The two requests before send: for neither does the node take a transaction.
LEMMA Earlier ==
  ASSUME at \in {"ref", "sequence"} PROVE Requested.op # "submit"
<1>1. CASE at = "ref"
  <2>1. Requested = Request(transport, pipe(<<Step("getBlock", Null)>>))
    BY <1>1 DEF Requested, Request
  <2> QED
    BY <2>1, RefAsks DEF Request
<1>2. CASE at = "sequence"
  <2>1. Requested = Request(transport, pipe(<<Step("getAccount", ProposerAcct.addr)>>))
    BY <1>2 DEF Requested, Request
  <2> QED
    BY <2>1, SequenceAsks DEF Request
<1> QED
  BY <1>1, <1>2

LEMMA Sending ==
  ASSUME at = "send"
  PROVE  Requested = Request(transport, ix) /\ (isTransaction(ix) => Requested.op = "submit")
<1>1. Requested = Request(transport, ix)
  BY DEF Requested, Request
<1> QED
  BY <1>1, SubmitAsks DEF Request

LEMMA OneFetches ==
  ASSUME OneInv, execFetchRef \/ execFetchSequenceNumber PROVE OneInv'
<1> DEFINE asks == [NoRequest EXCEPT !.phase = "asks"]
<1>1. asks.phase = "asks" /\ asks.answer = Null /\ DOMAIN asks = DOMAIN NoRequest
      /\ asks = [x \in DOMAIN asks |-> asks[x]]
  BY Requests
<1> HIDE DEF asks
<1>2. /\ at \in {"ref", "sequence"} /\ UNCHANGED <<taken, transport>>
      /\ req.phase = "none"
      /\ \/ req' = req /\ at' \in {"sequence", "inside", "rejected"}
         \/ req' = asks /\ at' = at
  <2>1. CASE execFetchRef
    BY <2>1 DEF execFetchRef, Goes, Only, asks
  <2>2. CASE execFetchSequenceNumber
    BY <2>2 DEF execFetchSequenceNumber, Goes, Throws, Only, asks
  <2> QED
    BY <2>1, <2>2
<1>3. Submitted = {} /\ Submitted' = {} /\ req = NoRequest
  BY <1>2, Unsent, SameTaken DEF Sent, OneInv, Flow
<1>4. Flow'
  BY <1>1, <1>2, <1>3, Requests DEF Flow, Fetching, Waits, Sent
<1>5. Taken' /\ Known'
  BY <1>2, <1>3 DEF Taken, Known, Sent
<1> QED
  BY <1>4, <1>5 DEF OneInv

LEMMA OneSends ==
  ASSUME OneInv, send PROVE OneInv'
<1> DEFINE asks == [NoRequest EXCEPT !.phase = "asks"]
<1>1. asks.phase = "asks" /\ asks.answer = Null /\ DOMAIN asks = DOMAIN NoRequest
      /\ asks = [x \in DOMAIN asks |-> asks[x]]
  BY Requests
<1> HIDE DEF asks
<1>2. /\ at = "send" /\ UNCHANGED <<taken, transport, ix>>
      /\ \/ req' = asks /\ at' = at
         \/ req' = NoRequest /\ at' = "rejected"
  BY DEF send, Throws, Only, OneInv, Flow, asks
<1>3. Flow'
  BY <1>1, <1>2, Requests DEF Flow, Fetching, Waits, Sent
<1>4. Taken'
  BY <1>2, SameTaken DEF OneInv, Taken, Sent
<1>5. Known'
  BY <1>1, <1>2, Requests DEF Known
<1> QED
  BY <1>3, <1>4, <1>5 DEF OneInv

\* The node takes a request: a transaction only from send, and always the same.
LEMMA OneTaken ==
  ASSUME OneInv, NodeTakes PROVE OneInv'
<1>1. /\ UNCHANGED <<at, ix, transport>> /\ taken' = taken \cup {Requested}
      /\ req.phase = "asks" /\ req.answer = Null /\ at \in Fetching
  BY DEF NodeTakes, OneInv, Flow, Waits
<1>2. PICK v : req' = [req EXCEPT !.answer = v]
  BY DEF NodeTakes
<1>3. DOMAIN req' = DOMAIN req /\ req' = [x \in DOMAIN req' |-> req'[x]] /\ req'.phase = "asks"
  BY <1>1, <1>2 DEF OneInv, Flow
<1>4. Flow'
  BY <1>1, <1>3, Requests DEF OneInv, Flow
<1>5. \A tx : tx \in Submitted' <=> tx \in Submitted \/ (Requested.op = "submit" /\ tx = Requested.body)
  <2> DEFINE new == Requested
  <2>1. taken' = taken \cup {new}
    BY <1>1
  <2> HIDE DEF new
  <2>2. \A tx : tx \in Submitted' <=> \E r \in taken \cup {new} : r.op = "submit" /\ tx = r.body
    BY <2>1 DEF Submitted
  <2>3. \A tx : tx \in Submitted <=> \E r \in taken : r.op = "submit" /\ tx = r.body
    BY DEF Submitted
  <2>4. \A tx : tx \in Submitted' <=> tx \in Submitted \/ (new.op = "submit" /\ tx = new.body)
    BY <2>2, <2>3
  <2> QED
    BY <2>4 DEF new
<1>6. CASE at \in {"ref", "sequence"}
  <2>1. Submitted' = Submitted
    <3>1. Requested.op # "submit"
      BY <1>6, Earlier
    <3>2. \A tx : tx \in Submitted' <=> tx \in Submitted
      BY <1>5, <3>1
    <3> HIDE DEF Submitted
    <3> QED
      BY <3>2
  <2>2. Taken' /\ Known'
    BY <1>1, <1>6, <2>1 DEF OneInv, Taken, Known
  <2> QED
    BY <1>4, <2>2 DEF OneInv
<1>7. CASE at = "send"
  <2>1. Taken'
    BY <1>1, <1>5, <1>7, Sending DEF OneInv, Taken, Sent
  <2>2. ASSUME isTransaction(ix) PROVE req'.answer.tx \in Submitted'
    <3>1. req'.answer = [tx |-> Requested.body]
      BY <1>7, <2>2 DEF NodeTakes, OneInv, Flow, isTransaction, isScript, TxOrScript
    <3> QED
      BY <1>5, <1>7, <2>2, <3>1, Sending
  <2>3. Known'
    BY <1>1, <1>7, <2>2 DEF Known
  <2> QED
    BY <1>4, <2>1, <2>3 DEF OneInv
<1> QED
  BY <1>1, <1>6, <1>7 DEF Fetching

\* The answer arrives.
LEMMA OneAnswered ==
  ASSUME OneInv, NodeAnswers PROVE OneInv'
<1>1. /\ UNCHANGED <<transport, taken>> /\ Submitted' = Submitted
      /\ req.phase = "asks" /\ req.answer # Null /\ at \in Fetching
  BY SameTaken DEF NodeAnswers, Only, OneInv, Flow, Waits
<1>2. CASE at \in {"ref", "sequence"}
  <2>1. req' = NoRequest /\ at' \in {"sequence", "inside", "rejected"}
    BY <1>2 DEF NodeAnswers, Goes, Throws
  <2>2. Submitted' = {}
    BY <1>1, <1>2, Unsent DEF Sent
  <2> QED
    BY <2>1, <2>2, Requests DEF OneInv, Flow, Taken, Known, Waits, Sent
<1>3. CASE at = "send"
  <2>1. at' = "decode" /\ ix' = ix /\ req' = [req EXCEPT !.phase = "done"]
    BY <1>3 DEF NodeAnswers, Goes
  <2>2. /\ DOMAIN req' = DOMAIN req /\ req' = [x \in DOMAIN req' |-> req'[x]]
        /\ req'.phase = "done" /\ req'.answer = req.answer
    BY <2>1 DEF OneInv, Flow
  <2>3. Flow'
    BY <2>1, <2>2 DEF OneInv, Flow, Waits, Sent
  <2>4. Taken'
    BY <1>1, <2>1, <1>3 DEF OneInv, Taken, Sent
  <2>5. Known'
    BY <1>1, <1>3, <2>1, <2>2 DEF OneInv, Known
  <2> QED
    BY <2>3, <2>4, <2>5 DEF OneInv
<1> QED
  BY <1>1, <1>2, <1>3 DEF Fetching

\* A request that is given up, repeated or refused: what was taken stays the same.
LEMMA OneLost ==
  ASSUME OneInv, Unavailable \/ Retries \/ RequestFails PROVE OneInv'
<1>1. /\ UNCHANGED <<transport, taken>> /\ Submitted' = Submitted /\ at \in Fetching /\ ix' = ix
  BY SameTaken DEF Unavailable, Retries, RequestFails, Only, Throws, OneInv, Flow, Waits
<1>2. CASE req' = NoRequest /\ at' = "rejected"
  <2>1. Taken'
    BY <1>1, <1>2 DEF OneInv, Taken, Sent
  <2> QED
    BY <1>2, <2>1, Requests DEF OneInv, Flow, Known, Waits
<1>3. CASE /\ at' = at /\ DOMAIN req' = DOMAIN req /\ req' = [x \in DOMAIN req' |-> req'[x]]
           /\ req'.phase \in Waits /\ req'.answer = Null
  <2>1. Flow'
    BY <1>1, <1>3, Requests DEF OneInv, Flow, Waits, Fetching, Sent
  <2>2. Taken' /\ Known'
    BY <1>1, <1>3 DEF OneInv, Taken, Known, Fetching
  <2> QED
    BY <2>1, <2>2 DEF OneInv
<1>4. CASE at' = at /\ req.phase = "waits" /\ req' = [req EXCEPT !.phase = "asks", !.attempt = @ + 1]
  <2>1. /\ DOMAIN req' = DOMAIN req /\ req' = [x \in DOMAIN req' |-> req'[x]]
        /\ req'.phase = "asks" /\ req'.answer = Null
    BY <1>4 DEF OneInv, Flow
  <2> QED
    BY <1>3, <1>4, <2>1 DEF Waits
<1>5. CASE at' = at /\ req' = [req EXCEPT !.phase = "waits", !.answer = Null]
  <2>1. /\ DOMAIN req' = DOMAIN req /\ req' = [x \in DOMAIN req' |-> req'[x]]
        /\ req'.phase = "waits" /\ req'.answer = Null
    BY <1>5 DEF OneInv, Flow
  <2> QED
    BY <1>3, <1>5, <2>1 DEF Waits
<1> QED
  BY <1>2, <1>4, <1>5 DEF Unavailable, Retries, RequestFails, Throws

LEMMA OneDecoded ==
  ASSUME OneInv, decode PROVE OneInv'
<1>1. /\ at = "decode" /\ UNCHANGED <<req, transport, taken, ix>> /\ Submitted' = Submitted
      /\ at' \in {"resolved", "forgotten", "rejected"}
  BY SameTaken DEF decode, Only, Goes, Throws
<1>2. Flow'
  BY <1>1 DEF OneInv, Flow, Fetching, Sent
<1>3. Taken' /\ Known'
  BY <1>1 DEF OneInv, Taken, Known, Sent
<1> QED
  BY <1>2, <1>3 DEF OneInv

\* Steps that leave the call alone.
LEMMA OneSame ==
  ASSUME OneInv, UNCHANGED <<at, ix, req, transport, taken>> PROVE OneInv'
  BY SameTaken DEF OneInv, Flow, Taken, Known

LEMMA OneStarts ==
  ASSUME IxInit PROVE OneInv
<1>1. at = "build" /\ req = NoRequest /\ Submitted = {}
  BY DEF IxInit, Submitted
<1> QED
  BY <1>1, Requests DEF OneInv, Flow, Taken, Known, Waits

LEMMA OneKept ==
  ASSUME OneInv, [IxNext]_ixvars PROVE OneInv'
<1>1. CASE Quiet
  BY <1>1, OneQuiet
<1>2. CASE execFetchRef \/ execFetchSequenceNumber
  BY <1>2, OneFetches
<1>3. CASE send
  BY <1>3, OneSends
<1>4. CASE NodeTakes
  BY <1>4, OneTaken
<1>5. CASE NodeAnswers
  BY <1>5, OneAnswered
<1>6. CASE Unavailable \/ Retries \/ RequestFails
  BY <1>6, OneLost
<1>7. CASE decode
  BY <1>7, OneDecoded
<1>8. CASE OthersUse
  BY <1>8, OneSame DEF OthersUse
<1>9. CASE UNCHANGED ixvars
  BY <1>9, OneSame DEF ixvars
<1> QED
  BY <1>1, <1>2, <1>3, <1>4, <1>5, <1>6, <1>7, <1>8, <1>9 DEF IxNext, Library, Program, Node, Quiet

LEMMA OneShown ==
  ASSUME OneInv PROVE OneTransaction
<1> DEFINE body == Request(transport, ix).body
<1>1. Submitted = {} \/ Submitted = {body}
  BY DEF OneInv, Taken
<1>2. Cardinality(Submitted) <= 1
  <2> HIDE DEF body
  <2>1. Cardinality({}) = 0 /\ Cardinality({body}) = 1
    BY FS_EmptySet, FS_Singleton
  <2> QED
    BY <1>1, <2>1
<1> QED
  BY <1>2 DEF OneInv, Known, OneTransaction

\* However often a request is given up and repeated, and whatever the node took
\* of requests whose answers were lost, it receives one transaction per call,
\* and a call that resolves names that one.
THEOREM SubmitsOnce == IxSpec => []OneTransaction
<1> QED
  BY OneStarts, OneKept, OneShown, PTL DEF IxSpec

-----------------------------------------------------------------------------
(* What folds make of sequences, and pipe of builders.                     *)

\* A set of numbers that is not empty has a least one.
LEMMA LeastNat ==
  ASSUME NEW T, T \subseteq Nat, T # {}
  PROVE  \E x \in T : \A y \in T : x <= y
<1> DEFINE R == OpToRel(<, Nat)
<1>1. IsWellFoundedOn(R, Nat)
  BY NatLessThanWellFounded DEF OpToRel
<1>2. \A x, y \in Nat : x < y => <<x, y>> \in R
  BY DEF OpToRel
<1> HIDE DEF R
<1>3. PICK x \in T : \A y \in T : ~ (<<y, x>> \in R)
  BY <1>1, WFMin
<1>4. \A y \in T : y \in Nat /\ x \in Nat /\ ~ (y < x)
  BY <1>2, <1>3
<1>5. \A y \in T : x <= y
  BY <1>4
<1> QED
  BY <1>5

\* The greatest of a set of numbers, which a fold takes first.
LEMMA MaxIs ==
  ASSUME NEW n \in Nat, NEW u \in SUBSET (1 .. n + 1), n + 1 \in u PROVE Max(u) = n + 1
<1>1. \A y \in u : n + 1 >= y
  OBVIOUS
<1>2. \A x \in u : x \in Nat /\ (x >= n + 1 => x = n + 1)
  OBVIOUS
<1>3. \A x \in u : (\A y \in u : x >= y) => x = n + 1
  BY <1>2
<1> QED
  BY <1>1, <1>3 DEF Max

LEMMA MaxIn ==
  ASSUME NEW n \in Nat, NEW u \in SUBSET (1 .. n), u # {} PROVE Max(u) \in u
<1> DEFINE T == {m \in Nat : \A y \in u : y <= m}
<1>1. n \in T
  OBVIOUS
<1>2. PICK m \in T : \A k \in T : m <= k
  BY <1>1, LeastNat
<1>3. m \in u
  <2> SUFFICES ASSUME m \notin u PROVE FALSE
    OBVIOUS
  <2>1. PICK x \in u : TRUE
    OBVIOUS
  <2>2. \A y \in u : y \in Nat /\ y > 0 /\ y <= m /\ y # m
    BY <1>2
  <2>3. m \in Nat /\ m - 1 \in Nat /\ \A y \in u : y <= m - 1
    BY <2>1, <2>2
  <2>4. m - 1 \in T
    BY <2>3
  <2> QED
    BY <1>2, <2>3, <2>4
<1>4. \A y \in u : m >= y
  BY <1>2
<1> QED
  BY <1>3, <1>4 DEF Max

\* The folds of the model, each by its step.
Apply(i, step) == IF isBad(i) \/ ~ step.given THEN i ELSE Build(step, i)
Op(kind, a, x) ==
  CASE kind.of = "pipe"   -> Apply(a, x)
    [] kind.of = "unique" -> IF Contains(a, x) THEN a ELSE Append(a, x)
    [] kind.of = "place"  -> a \o (IF x = kind.old THEN kind.new ELSE <<x>>)
    [] kind.of = "join"   -> Join(kind.old, a, x)
Folded(kind, init, s) == FoldLeft(LAMBDA a, x : Op(kind, a, x), init, s)
Kind(of, old, new) == [of |-> of, old |-> old, new |-> new]

\* The values a fold goes through, one for each item.
GoesThrough(kind, init, steps, n) ==
  \E h : /\ h[0] = init /\ h[n] = Folded(kind, init, steps)
         /\ \A k \in 0 .. n - 1 : h[k + 1] = Op(kind, h[k], steps[k + 1])

LEMMA FoldGoes ==
  ASSUME NEW kind, NEW init, NEW steps, NEW N \in Nat, DOMAIN steps = 1 .. N
  PROVE  GoesThrough(kind, init, steps, N)
<1> DEFINE op(i, step) == Op(kind, i, step)
           G(f, n) == [u \in SUBSET (1 .. n) |->
                         IF u = {} THEN init ELSE op(f[u \ {Max(u)}], steps[Max(u)])]
<1>1. Folded(kind, init, steps) = (CHOOSE f : f = G(f, N))[1 .. N]
  BY DEF Folded, FoldLeft, MapThenFoldSet
<1> HIDE DEF op
<1>2. \A n \in Nat : \E f : f = G(f, n)
  <2> DEFINE T == {n \in Nat : ~ \E f : f = G(f, n)}
  <2> SUFFICES ASSUME T # {} PROVE FALSE
    OBVIOUS
  <2>1. PICK n \in T : \A m \in T : n <= m
    BY LeastNat
  <2>2. n \in Nat /\ ~ \E f : f = G(f, n)
    OBVIOUS
  <2>3. CASE n = 0
    <3> DEFINE f == [u \in SUBSET (1 .. n) |-> init]
    <3>1. \A u \in SUBSET (1 .. n) : u = {}
      BY <2>3
    <3>2. f = G(f, n)
      BY <3>1
    <3> QED
      BY <2>2, <3>2
  <2>4. CASE n # 0
    <3> DEFINE m == n - 1
    <3>1. m \in Nat /\ m \notin T /\ n = m + 1
      <4> HIDE DEF T
      <4>1. m \in Nat /\ n = m + 1 /\ ~ (n <= m)
        BY <2>2, <2>4
      <4> QED
        BY <2>1, <4>1
    <3>2. PICK f : f = G(f, m)
      BY <3>1
    <3> HIDE DEF m
    <3> DEFINE g == [u \in SUBSET (1 .. n) |->
                       IF n \in u THEN op(f[u \ {n}], steps[n]) ELSE f[u]]
    <3>3. ASSUME NEW u \in SUBSET (1 .. n) PROVE g[u] = G(g, n)[u]
      <4>1. CASE n \in u
        <5>1. Max(u) = n /\ u # {}
          BY <3>1, <4>1, MaxIs
        <5>2. u \ {n} \in SUBSET (1 .. n) /\ n \notin u \ {n}
          OBVIOUS
        <5>3. g[u \ {n}] = f[u \ {n}] /\ g[u] = op(f[u \ {n}], steps[n])
          BY <4>1, <5>2
        <5>4. G(g, n)[u] = op(g[u \ {Max(u)}], steps[Max(u)])
          BY <5>1
        <5> HIDE DEF g, G
        <5> QED
          BY <5>1, <5>3, <5>4
      <4>2. CASE n \notin u
        <5>1. u \in SUBSET (1 .. m)
          BY <3>1, <4>2
        <5>2. g[u] = f[u] /\ f[u] = G(f, m)[u]
          BY <3>2, <4>2
        <5>3. CASE u = {}
          <6>1. G(g, n)[u] = init /\ G(f, m)[u] = init
            BY <5>1, <5>3
          <6> HIDE DEF g, G
          <6> QED
            BY <5>2, <6>1
        <5>4. CASE u # {}
          <6>1. Max(u) \in u
            BY <3>1, <5>1, <5>4, MaxIn
          <6>2. u \ {Max(u)} \in SUBSET (1 .. n) /\ n \notin u \ {Max(u)}
            BY <4>2
          <6>3. g[u \ {Max(u)}] = f[u \ {Max(u)}]
            BY <6>2
          <6>4. /\ G(g, n)[u] = op(g[u \ {Max(u)}], steps[Max(u)])
                /\ G(f, m)[u] = op(f[u \ {Max(u)}], steps[Max(u)])
            BY <5>1, <5>4
          <6> HIDE DEF g, G
          <6> QED
            BY <5>2, <6>3, <6>4
        <5> QED
          BY <5>3, <5>4
      <4> QED
        BY <4>1, <4>2
    <3>4. g = G(g, n)
      <4> DEFINE d == G(g, n)
      <4>1. g = [u \in SUBSET (1 .. n) |-> g[u]] /\ d = [u \in SUBSET (1 .. n) |-> d[u]]
        OBVIOUS
      <4>2. \A u \in SUBSET (1 .. n) : g[u] = d[u]
        BY <3>3
      <4>3. g = d
        <5> HIDE DEF g, d
        <5> QED
          BY <4>1, <4>2
      <4> QED
        BY <4>3
    <3> QED
      BY <2>2, <3>4
  <2> QED
    BY <2>3, <2>4
<1> DEFINE F == CHOOSE f : f = G(f, N)
<1>3. F = G(F, N)
  BY <1>2
<1> HIDE DEF F
<1>4. F[{}] = init
  <2>1. G(F, N)[{}] = init
    OBVIOUS
  <2> HIDE DEF G
  <2> QED
    BY <1>3, <2>1
<1>5. ASSUME NEW k \in 0 .. N - 1 PROVE F[1 .. k + 1] = op(F[1 .. k], steps[k + 1])
  <2>1. k \in Nat /\ 1 .. k + 1 \in SUBSET (1 .. N) /\ 1 .. k + 1 # {} /\ k + 1 \in 1 .. k + 1
    OBVIOUS
  <2>2. Max(1 .. k + 1) = k + 1
    BY <2>1, MaxIs
  <2>3. (1 .. k + 1) \ {k + 1} = 1 .. k
    BY <2>1
  <2> DEFINE u == 1 .. k + 1
  <2>4. G(F, N)[u] = op(F[u \ {Max(u)}], steps[Max(u)])
    <3>1. u \in SUBSET (1 .. N) /\ u # {}
      BY <2>1
    <3> HIDE DEF u
    <3> QED
      BY <3>1
  <2> HIDE DEF G
  <2> QED
    BY <1>3, <2>2, <2>3, <2>4
<1> DEFINE h == [k \in 0 .. N |-> F[1 .. k]]
<1>6. h[0] = init /\ h[N] = Folded(kind, init, steps)
  <2>1. 1 .. 0 = {} /\ 0 \in 0 .. N /\ N \in 0 .. N
    OBVIOUS
  <2>2. h[0] = F[1 .. 0] /\ h[N] = F[1 .. N]
    BY <2>1
  <2> HIDE DEF h, G
  <2> QED
    BY <1>1, <1>4, <2>1, <2>2 DEF F
<1>7. ASSUME NEW k \in 0 .. N - 1 PROVE h[k + 1] = Op(kind, h[k], steps[k + 1])
  <2>1. k \in 0 .. N /\ k + 1 \in 0 .. N
    OBVIOUS
  <2>2. h[k + 1] = F[1 .. k + 1] /\ h[k] = F[1 .. k]
    BY <2>1
  <2> HIDE DEF h
  <2> QED
    BY <1>5, <2>2 DEF op
<1> HIDE DEF h
<1> QED
  BY <1>6, <1>7 DEF GoesThrough

LEMMA PipeFolds ==
  ASSUME NEW s PROVE pipe(s) = Folded(Kind("pipe", Null, Null), initInteraction, s)
<1> DEFINE k == Kind("pipe", Null, Null)
           B(f) == [u \in SUBSET (DOMAIN s) |->
                      IF u = {} THEN initInteraction ELSE IF isBad(f[u \ {Max(u)}]) \/ ~ s[Max(u)].given THEN f[u \ {Max(u)}] ELSE Build(s[Max(u)], f[u \ {Max(u)}])]
           C(f) == [u \in SUBSET (DOMAIN s) |->
                      IF u = {} THEN initInteraction ELSE Op(k, f[u \ {Max(u)}], s[Max(u)])]
<1>1. pipe(s) = (CHOOSE f : f = B(f))[DOMAIN s]
  BY DEF pipe, FoldLeft, MapThenFoldSet
<1>2. Folded(k, initInteraction, s) = (CHOOSE f : f = C(f))[DOMAIN s]
  BY DEF Folded, FoldLeft, MapThenFoldSet
<1>3. \A f : B(f) = C(f)
  BY DEF Op, Kind, Apply
<1> HIDE DEF B, C
<1>4. (CHOOSE f : f = B(f)) = (CHOOSE f : f = C(f))
  BY <1>3, Zenon
<1> QED
  BY <1>1, <1>2, <1>4

LEMMA UniqueFolds ==
  ASSUME NEW s PROVE Unique(s) = Folded(Kind("unique", Null, Null), << >>, s)
<1> DEFINE k == Kind("unique", Null, Null)
           B(f) == [u \in SUBSET (DOMAIN s) |->
                      IF u = {} THEN << >> ELSE IF Contains(f[u \ {Max(u)}], s[Max(u)]) THEN f[u \ {Max(u)}] ELSE Append(f[u \ {Max(u)}], s[Max(u)])]
           C(f) == [u \in SUBSET (DOMAIN s) |->
                      IF u = {} THEN << >> ELSE Op(k, f[u \ {Max(u)}], s[Max(u)])]
<1>1. Unique(s) = (CHOOSE f : f = B(f))[DOMAIN s]
  BY DEF Unique, FoldLeft, MapThenFoldSet
<1>2. Folded(k, << >>, s) = (CHOOSE f : f = C(f))[DOMAIN s]
  BY DEF Folded, FoldLeft, MapThenFoldSet
<1>3. \A f : B(f) = C(f)
  BY DEF Op, Kind, Apply
<1> HIDE DEF B, C
<1>4. (CHOOSE f : f = B(f)) = (CHOOSE f : f = C(f))
  BY <1>3, Zenon
<1> QED
  BY <1>1, <1>2, <1>4

LEMMA PlaceFolds ==
  ASSUME NEW old, NEW s, NEW new PROVE InPlaceOf(old, s, new) = Folded(Kind("place", old, new), << >>, s)
<1> DEFINE k == Kind("place", old, new)
           B(f) == [u \in SUBSET (DOMAIN s) |->
                      IF u = {} THEN << >> ELSE f[u \ {Max(u)}] \o (IF s[Max(u)] = old THEN new ELSE <<s[Max(u)]>>)]
           C(f) == [u \in SUBSET (DOMAIN s) |->
                      IF u = {} THEN << >> ELSE Op(k, f[u \ {Max(u)}], s[Max(u)])]
<1>1. InPlaceOf(old, s, new) = (CHOOSE f : f = B(f))[DOMAIN s]
  BY DEF InPlaceOf, FoldLeft, MapThenFoldSet
<1>2. Folded(k, << >>, s) = (CHOOSE f : f = C(f))[DOMAIN s]
  BY DEF Folded, FoldLeft, MapThenFoldSet
<1>3. \A f : B(f) = C(f)
  BY DEF Op, Kind, Apply
<1> HIDE DEF B, C
<1>4. (CHOOSE f : f = B(f)) = (CHOOSE f : f = C(f))
  BY <1>3, Zenon
<1> QED
  BY <1>1, <1>2, <1>4

LEMMA JoinFolds ==
  ASSUME NEW i, NEW from, NEW s, s = from.resolve.returns PROVE Joined(i, from) = Folded(Kind("join", from, Null), [ix |-> i, ids |-> << >>], s)
<1> DEFINE k == Kind("join", from, Null)
           B(f) == [u \in SUBSET (DOMAIN s) |->
                      IF u = {} THEN [ix |-> i, ids |-> << >>] ELSE Join(from, f[u \ {Max(u)}], s[Max(u)])]
           C(f) == [u \in SUBSET (DOMAIN s) |->
                      IF u = {} THEN [ix |-> i, ids |-> << >>] ELSE Op(k, f[u \ {Max(u)}], s[Max(u)])]
<1>1. Joined(i, from) = (CHOOSE f : f = B(f))[DOMAIN s]
  BY DEF Joined, FoldLeft, MapThenFoldSet
<1>2. Folded(k, [ix |-> i, ids |-> << >>], s) = (CHOOSE f : f = C(f))[DOMAIN s]
  BY DEF Folded, FoldLeft, MapThenFoldSet
<1>3. \A f : B(f) = C(f)
  BY DEF Op, Kind, Apply
<1> HIDE DEF B, C
<1>4. (CHOOSE f : f = B(f)) = (CHOOSE f : f = C(f))
  BY <1>3, Zenon
<1> QED
  BY <1>1, <1>2, <1>4

\* The interactions that pipe goes through, one for each builder.
LEMMA PipeGoes ==
  ASSUME NEW steps, NEW N \in Nat, DOMAIN steps = 1 .. N
  PROVE  \E h : /\ h[0] = initInteraction /\ h[N] = pipe(steps)
                /\ \A k \in 0 .. N - 1 : h[k + 1] = Apply(h[k], steps[k + 1])
<1> DEFINE kind == Kind("pipe", Null, Null)
<1>1. \A a, x : Op(kind, a, x) = Apply(a, x)
  BY DEF Op, Kind
<1>2. pipe(steps) = Folded(kind, initInteraction, steps)
  BY PipeFolds
<1> HIDE DEF kind
<1>0. GoesThrough(kind, initInteraction, steps, N)
  BY FoldGoes
<1>3. PICK h : /\ h[0] = initInteraction /\ h[N] = Folded(kind, initInteraction, steps)
               /\ \A k \in 0 .. N - 1 : h[k + 1] = Op(kind, h[k], steps[k + 1])
  BY <1>0 DEF GoesThrough
<1> QED
  BY <1>1, <1>2, <1>3

\* A maker gives an interaction its tag, a filler leaves it.
LEMMA MakersTag ==
  ASSUME NEW i, "tag" \in DOMAIN i, NEW step, step.op \in Makers
  PROVE  "tag" \in DOMAIN Build(step, i) /\ Build(step, i).tag \in Tags
<1>0. ASSUME NEW tag PROVE "tag" \in DOMAIN makeIx(tag, i) /\ makeIx(tag, i).tag = tag
  BY DEF makeIx, Ok
<1> USE DEF Tags
<1>1. CASE step.op = "transaction"
  BY <1>0, <1>1 DEF Build, transaction
<1>2. CASE step.op = "script"
  BY <1>0, <1>2 DEF Build, script
<1>3. CASE step.op = "getEvents"
  BY <1>0, <1>3 DEF Build, getEvents, withEvents
<1>4. CASE step.op = "getEventsAtBlockIds"
  BY <1>0, <1>4 DEF Build, getEventsAtBlockIds, withEvents
<1>5. CASE step.op = "getBlock"
  BY <1>0, <1>5 DEF Build, getBlock
<1>6. CASE step.op = "getBlockHeader"
  BY <1>0, <1>6 DEF Build, getBlockHeader
<1>7. CASE step.op = "getAccount"
  BY <1>0, <1>7 DEF Build, getAccount
<1>8. CASE step.op = "getCollection"
  BY <1>0, <1>8 DEF Build, getCollection
<1>9. CASE step.op = "getTransaction"
  BY <1>0, <1>9 DEF Build, getTransaction
<1>10. CASE step.op = "getTransactionStatus"
  BY <1>0, <1>10 DEF Build, getTransactionStatus
<1>11. CASE step.op = "ping"
  BY <1>0, <1>11 DEF Build, ping
<1>12. CASE step.op = "getNetworkParameters"
  BY <1>0, <1>12 DEF Build, getNetworkParameters
<1>13. CASE step.op = "getNodeVersionInfo"
  BY <1>0, <1>13 DEF Build, getNodeVersionInfo
<1> QED
  BY <1>1, <1>2, <1>3, <1>4, <1>5, <1>6, <1>7, <1>8, <1>9, <1>10, <1>11, <1>12, <1>13 DEF Makers

LEMMA FillersKeep ==
  ASSUME NEW i, "tag" \in DOMAIN i, NEW step, step.op \in Fillers
  PROVE  "tag" \in DOMAIN Build(step, i) /\ Build(step, i).tag = i.tag
<1>1. CASE step.op = "arg"
  BY <1>1 DEF Build, makeArgument, Ok
<1>2. CASE step.op = "limit"
  BY <1>2 DEF Build, limit
<1>3. CASE step.op = "ref"
  BY <1>3 DEF Build, ref, Ok
<1>4. CASE step.op = "proposer"
  BY <1>4 DEF Build, proposer, prepAccount
<1>5. CASE step.op = "payer"
  BY <1>5 DEF Build, payer, prepAccount
<1>6. CASE step.op = "authorizer"
  BY <1>6 DEF Build, authorization, prepAccount
<1>7. CASE step.op = "validator"
  BY <1>7 DEF Build, validator, Ok
<1>8. CASE step.op = "voucherIntercept"
  BY <1>8 DEF Build, voucherIntercept, Ok
<1>9. CASE step.op = "invariant"
  BY <1>9 DEF Build, invariant, Ok, Bad
<1>10. CASE step.op = "atBlockHeight"
  BY <1>10 DEF Build, atBlockHeight, validator, Ok
<1>11. CASE step.op = "atBlockId"
  BY <1>11 DEF Build, atBlockId, validator, Ok
<1> QED
  BY <1>1, <1>2, <1>3, <1>4, <1>5, <1>6, <1>7, <1>8, <1>9, <1>10, <1>11 DEF Fillers

-----------------------------------------------------------------------------
(* What the two transports ask.                                             *)

\* A field the class of a request has is read as it was set.
Field(name, table) == \E k \in DOMAIN table : table[k].name = name

LEMMA ReadsField ==
  ASSUME NEW r, NEW name, name \in DOMAIN r.message,
         Field(name, Access!AccessAPI[r.method].request)
  PROVE  Received(r)[name] = r.message[name]
<1> DEFINE table == Access!AccessAPI[r.method].request
           Unset(f) == CASE f.rule = "list" -> << >> [] f.type = "bool" -> FALSE
                         [] f.type = "uint64" -> 0 [] f.type \notin {"bool", "uint64"} -> Null
           FieldOf(n) == CHOOSE f \in ToSet(table) : f.name = n
           names == {f.name : f \in ToSet(table)}
<1>1. name \in names
  BY DEF Field, ToSet
<1>2. Received(r) = [n \in names |-> IF n \in DOMAIN r.message THEN r.message[n] ELSE Unset(FieldOf(n))]
  BY DEF Received
<1> HIDE DEF names, Unset, FieldOf
<1> QED
  BY <1>1, <1>2

\* The fields of the requests that are sent: each is one of its class.
Sends(method, name) == Field(name, Access!AccessAPI[method].request)

LEMMA Declared ==
  /\ Sends("SendTransaction", "transaction")
  /\ Sends("GetTransactionResult", "id")
  /\ Sends("GetTransaction", "id")
  /\ Sends("ExecuteScriptAtBlockID", "blockId") /\ Sends("ExecuteScriptAtBlockID", "script") /\ Sends("ExecuteScriptAtBlockID", "arguments")
  /\ Sends("ExecuteScriptAtBlockHeight", "blockHeight") /\ Sends("ExecuteScriptAtBlockHeight", "script") /\ Sends("ExecuteScriptAtBlockHeight", "arguments")
  /\ Sends("ExecuteScriptAtLatestBlock", "script") /\ Sends("ExecuteScriptAtLatestBlock", "arguments")
  /\ Sends("GetAccountAtBlockHeight", "address") /\ Sends("GetAccountAtBlockHeight", "blockHeight")
  /\ Sends("GetAccountAtLatestBlock", "address")
  /\ Sends("GetEventsForHeightRange", "type") /\ Sends("GetEventsForHeightRange", "startHeight") /\ Sends("GetEventsForHeightRange", "endHeight")
  /\ Sends("GetEventsForBlockIDs", "type") /\ Sends("GetEventsForBlockIDs", "blockIds")
  /\ Sends("GetBlockByID", "id")
  /\ Sends("GetBlockByHeight", "height")
  /\ Sends("GetLatestBlock", "isSealed")
  /\ Sends("GetBlockHeaderByID", "id")
  /\ Sends("GetBlockHeaderByHeight", "height")
  /\ Sends("GetLatestBlockHeader", "isSealed")
  /\ Sends("GetCollectionByID", "id")
<1>1. Sends("SendTransaction", "transaction")
  <2> DEFINE table == Access!SendTransactionRequest
  <2>1. Access!AccessAPI["SendTransaction"].request = table
    BY DEF Access!AccessAPI, Access!Unary
  <2>2. 1 \in DOMAIN table /\ table[1].name = "transaction"
    BY DEF Access!SendTransactionRequest, Access!Field, Access!Bytes, Access!Text, Access!Bool, Access!Uint64, Access!Sub, Access!Many
  <2> HIDE DEF table
  <2> QED
    BY <2>1, <2>2 DEF Sends, Field
<1>2. Sends("GetTransactionResult", "id")
  <2> DEFINE table == Access!GetTransactionRequest
  <2>1. Access!AccessAPI["GetTransactionResult"].request = table
    BY DEF Access!AccessAPI, Access!Unary
  <2>2. 1 \in DOMAIN table /\ table[1].name = "id"
    BY DEF Access!GetTransactionRequest, Access!Field, Access!Bytes, Access!Text, Access!Bool, Access!Uint64, Access!Sub, Access!Many
  <2> HIDE DEF table
  <2> QED
    BY <2>1, <2>2 DEF Sends, Field
<1>3. Sends("GetTransaction", "id")
  <2> DEFINE table == Access!GetTransactionRequest
  <2>1. Access!AccessAPI["GetTransaction"].request = table
    BY DEF Access!AccessAPI, Access!Unary
  <2>2. 1 \in DOMAIN table /\ table[1].name = "id"
    BY DEF Access!GetTransactionRequest, Access!Field, Access!Bytes, Access!Text, Access!Bool, Access!Uint64, Access!Sub, Access!Many
  <2> HIDE DEF table
  <2> QED
    BY <2>1, <2>2 DEF Sends, Field
<1>4. Sends("ExecuteScriptAtBlockID", "blockId") /\ Sends("ExecuteScriptAtBlockID", "script") /\ Sends("ExecuteScriptAtBlockID", "arguments")
  <2> DEFINE table == Access!ExecuteScriptAtBlockIDRequest
  <2>1. Access!AccessAPI["ExecuteScriptAtBlockID"].request = table
    BY DEF Access!AccessAPI, Access!Unary
  <2>2. 1 \in DOMAIN table /\ table[1].name = "blockId" /\ 2 \in DOMAIN table /\ table[2].name = "script" /\ 3 \in DOMAIN table /\ table[3].name = "arguments"
    BY DEF Access!ExecuteScriptAtBlockIDRequest, Access!Field, Access!Bytes, Access!Text, Access!Bool, Access!Uint64, Access!Sub, Access!Many
  <2> HIDE DEF table
  <2> QED
    BY <2>1, <2>2 DEF Sends, Field
<1>5. Sends("ExecuteScriptAtBlockHeight", "blockHeight") /\ Sends("ExecuteScriptAtBlockHeight", "script") /\ Sends("ExecuteScriptAtBlockHeight", "arguments")
  <2> DEFINE table == Access!ExecuteScriptAtBlockHeightRequest
  <2>1. Access!AccessAPI["ExecuteScriptAtBlockHeight"].request = table
    BY DEF Access!AccessAPI, Access!Unary
  <2>2. 1 \in DOMAIN table /\ table[1].name = "blockHeight" /\ 2 \in DOMAIN table /\ table[2].name = "script" /\ 3 \in DOMAIN table /\ table[3].name = "arguments"
    BY DEF Access!ExecuteScriptAtBlockHeightRequest, Access!Field, Access!Bytes, Access!Text, Access!Bool, Access!Uint64, Access!Sub, Access!Many
  <2> HIDE DEF table
  <2> QED
    BY <2>1, <2>2 DEF Sends, Field
<1>6. Sends("ExecuteScriptAtLatestBlock", "script") /\ Sends("ExecuteScriptAtLatestBlock", "arguments")
  <2> DEFINE table == Access!ExecuteScriptAtLatestBlockRequest
  <2>1. Access!AccessAPI["ExecuteScriptAtLatestBlock"].request = table
    BY DEF Access!AccessAPI, Access!Unary
  <2>2. 1 \in DOMAIN table /\ table[1].name = "script" /\ 2 \in DOMAIN table /\ table[2].name = "arguments"
    BY DEF Access!ExecuteScriptAtLatestBlockRequest, Access!Field, Access!Bytes, Access!Text, Access!Bool, Access!Uint64, Access!Sub, Access!Many
  <2> HIDE DEF table
  <2> QED
    BY <2>1, <2>2 DEF Sends, Field
<1>7. Sends("GetAccountAtBlockHeight", "address") /\ Sends("GetAccountAtBlockHeight", "blockHeight")
  <2> DEFINE table == Access!GetAccountAtBlockHeightRequest
  <2>1. Access!AccessAPI["GetAccountAtBlockHeight"].request = table
    BY DEF Access!AccessAPI, Access!Unary
  <2>2. 1 \in DOMAIN table /\ table[1].name = "address" /\ 2 \in DOMAIN table /\ table[2].name = "blockHeight"
    BY DEF Access!GetAccountAtBlockHeightRequest, Access!Field, Access!Bytes, Access!Text, Access!Bool, Access!Uint64, Access!Sub, Access!Many
  <2> HIDE DEF table
  <2> QED
    BY <2>1, <2>2 DEF Sends, Field
<1>8. Sends("GetAccountAtLatestBlock", "address")
  <2> DEFINE table == Access!GetAccountAtLatestBlockRequest
  <2>1. Access!AccessAPI["GetAccountAtLatestBlock"].request = table
    BY DEF Access!AccessAPI, Access!Unary
  <2>2. 1 \in DOMAIN table /\ table[1].name = "address"
    BY DEF Access!GetAccountAtLatestBlockRequest, Access!Field, Access!Bytes, Access!Text, Access!Bool, Access!Uint64, Access!Sub, Access!Many
  <2> HIDE DEF table
  <2> QED
    BY <2>1, <2>2 DEF Sends, Field
<1>9. Sends("GetEventsForHeightRange", "type") /\ Sends("GetEventsForHeightRange", "startHeight") /\ Sends("GetEventsForHeightRange", "endHeight")
  <2> DEFINE table == Access!GetEventsForHeightRangeRequest
  <2>1. Access!AccessAPI["GetEventsForHeightRange"].request = table
    BY DEF Access!AccessAPI, Access!Unary
  <2>2. 1 \in DOMAIN table /\ table[1].name = "type" /\ 2 \in DOMAIN table /\ table[2].name = "startHeight" /\ 3 \in DOMAIN table /\ table[3].name = "endHeight"
    BY DEF Access!GetEventsForHeightRangeRequest, Access!Field, Access!Bytes, Access!Text, Access!Bool, Access!Uint64, Access!Sub, Access!Many
  <2> HIDE DEF table
  <2> QED
    BY <2>1, <2>2 DEF Sends, Field
<1>10. Sends("GetEventsForBlockIDs", "type") /\ Sends("GetEventsForBlockIDs", "blockIds")
  <2> DEFINE table == Access!GetEventsForBlockIDsRequest
  <2>1. Access!AccessAPI["GetEventsForBlockIDs"].request = table
    BY DEF Access!AccessAPI, Access!Unary
  <2>2. 1 \in DOMAIN table /\ table[1].name = "type" /\ 2 \in DOMAIN table /\ table[2].name = "blockIds"
    BY DEF Access!GetEventsForBlockIDsRequest, Access!Field, Access!Bytes, Access!Text, Access!Bool, Access!Uint64, Access!Sub, Access!Many
  <2> HIDE DEF table
  <2> QED
    BY <2>1, <2>2 DEF Sends, Field
<1>11. Sends("GetBlockByID", "id")
  <2> DEFINE table == Access!GetBlockByIDRequest
  <2>1. Access!AccessAPI["GetBlockByID"].request = table
    BY DEF Access!AccessAPI, Access!Unary
  <2>2. 1 \in DOMAIN table /\ table[1].name = "id"
    BY DEF Access!GetBlockByIDRequest, Access!Field, Access!Bytes, Access!Text, Access!Bool, Access!Uint64, Access!Sub, Access!Many
  <2> HIDE DEF table
  <2> QED
    BY <2>1, <2>2 DEF Sends, Field
<1>12. Sends("GetBlockByHeight", "height")
  <2> DEFINE table == Access!GetBlockByHeightRequest
  <2>1. Access!AccessAPI["GetBlockByHeight"].request = table
    BY DEF Access!AccessAPI, Access!Unary
  <2>2. 1 \in DOMAIN table /\ table[1].name = "height"
    BY DEF Access!GetBlockByHeightRequest, Access!Field, Access!Bytes, Access!Text, Access!Bool, Access!Uint64, Access!Sub, Access!Many
  <2> HIDE DEF table
  <2> QED
    BY <2>1, <2>2 DEF Sends, Field
<1>13. Sends("GetLatestBlock", "isSealed")
  <2> DEFINE table == Access!GetLatestBlockRequest
  <2>1. Access!AccessAPI["GetLatestBlock"].request = table
    BY DEF Access!AccessAPI, Access!Unary
  <2>2. 1 \in DOMAIN table /\ table[1].name = "isSealed"
    BY DEF Access!GetLatestBlockRequest, Access!Field, Access!Bytes, Access!Text, Access!Bool, Access!Uint64, Access!Sub, Access!Many
  <2> HIDE DEF table
  <2> QED
    BY <2>1, <2>2 DEF Sends, Field
<1>14. Sends("GetBlockHeaderByID", "id")
  <2> DEFINE table == Access!GetBlockHeaderByIDRequest
  <2>1. Access!AccessAPI["GetBlockHeaderByID"].request = table
    BY DEF Access!AccessAPI, Access!Unary
  <2>2. 1 \in DOMAIN table /\ table[1].name = "id"
    BY DEF Access!GetBlockHeaderByIDRequest, Access!Field, Access!Bytes, Access!Text, Access!Bool, Access!Uint64, Access!Sub, Access!Many
  <2> HIDE DEF table
  <2> QED
    BY <2>1, <2>2 DEF Sends, Field
<1>15. Sends("GetBlockHeaderByHeight", "height")
  <2> DEFINE table == Access!GetBlockHeaderByHeightRequest
  <2>1. Access!AccessAPI["GetBlockHeaderByHeight"].request = table
    BY DEF Access!AccessAPI, Access!Unary
  <2>2. 1 \in DOMAIN table /\ table[1].name = "height"
    BY DEF Access!GetBlockHeaderByHeightRequest, Access!Field, Access!Bytes, Access!Text, Access!Bool, Access!Uint64, Access!Sub, Access!Many
  <2> HIDE DEF table
  <2> QED
    BY <2>1, <2>2 DEF Sends, Field
<1>16. Sends("GetLatestBlockHeader", "isSealed")
  <2> DEFINE table == Access!GetLatestBlockHeaderRequest
  <2>1. Access!AccessAPI["GetLatestBlockHeader"].request = table
    BY DEF Access!AccessAPI, Access!Unary
  <2>2. 1 \in DOMAIN table /\ table[1].name = "isSealed"
    BY DEF Access!GetLatestBlockHeaderRequest, Access!Field, Access!Bytes, Access!Text, Access!Bool, Access!Uint64, Access!Sub, Access!Many
  <2> HIDE DEF table
  <2> QED
    BY <2>1, <2>2 DEF Sends, Field
<1>17. Sends("GetCollectionByID", "id")
  <2> DEFINE table == Access!GetCollectionByIDRequest
  <2>1. Access!AccessAPI["GetCollectionByID"].request = table
    BY DEF Access!AccessAPI, Access!Unary
  <2>2. 1 \in DOMAIN table /\ table[1].name = "id"
    BY DEF Access!GetCollectionByIDRequest, Access!Field, Access!Bytes, Access!Text, Access!Bool, Access!Uint64, Access!Sub, Access!Many
  <2> HIDE DEF table
  <2> QED
    BY <2>1, <2>2 DEF Sends, Field
<1> QED
  BY <1>1, <1>2, <1>3, <1>4, <1>5, <1>6, <1>7, <1>8, <1>9, <1>10, <1>11, <1>12, <1>13, <1>14, <1>15, <1>16, <1>17

\* A block is asked for as it is finalized unless the message says it is sealed.
LEMMA Unsealed ==
  ASSUME NEW r, r.method \in {"GetLatestBlock", "GetLatestBlockHeader"},
         "isSealed" \notin DOMAIN r.message
  PROVE  ~ Received(r)["isSealed"]
<1> DEFINE Sealed(table) ==
             /\ \E f \in ToSet(table) : f.name = "isSealed"
             /\ \A f \in ToSet(table) : f.name = "isSealed" => f.type = "bool" /\ f.rule = "scalar"
<1>3. LET f == Access!Bool("isSealed", 1)
      IN f.name = "isSealed" /\ f.type = "bool" /\ f.rule = "scalar"
  BY DEF Access!Bool, Access!Field
<1>4. ASSUME Sealed(Access!AccessAPI[r.method].request) PROVE ~ Received(r)["isSealed"]
  <2> DEFINE table == Access!AccessAPI[r.method].request
             Unset(f) == CASE f.rule = "list" -> << >> [] f.type = "bool" -> FALSE
                           [] f.type = "uint64" -> 0 [] f.type \notin {"bool", "uint64"} -> Null
             FieldOf(n) == CHOOSE f \in ToSet(table) : f.name = n
             names == {f.name : f \in ToSet(table)}
  <2>1. Received(r) = [n \in names |-> IF n \in DOMAIN r.message THEN r.message[n] ELSE Unset(FieldOf(n))]
    BY DEF Received
  <2>2. "isSealed" \in names
    BY <1>4
  <2>3. FieldOf("isSealed").type = "bool" /\ FieldOf("isSealed").rule = "scalar"
    <3>1. \E f \in ToSet(table) : f.name = "isSealed"
      BY <1>4
    <3>2. \A f \in ToSet(table) : f.name = "isSealed" => f.type = "bool" /\ f.rule = "scalar"
      BY <1>4
    <3> HIDE DEF table
    <3>3. FieldOf("isSealed") \in ToSet(table) /\ FieldOf("isSealed").name = "isSealed"
      BY <3>1
    <3> HIDE DEF FieldOf
    <3> QED
      BY <3>2, <3>3
  <2>4. Unset(FieldOf("isSealed")) = FALSE
    <3>1. ASSUME NEW f, f.type = "bool", f.rule = "scalar" PROVE Unset(f) = FALSE
      <4> DEFINE type == f.type
                 rule == f.rule
      <4>1. type = "bool" /\ rule = "scalar"
        BY <3>1
      <4>2. Unset(f) = CASE rule = "list" -> << >> [] type = "bool" -> FALSE
                         [] type = "uint64" -> 0 [] type \notin {"bool", "uint64"} -> Null
        OBVIOUS
      <4> HIDE DEF type, rule, Unset
      <4>3. rule # "list"
        BY <4>1
      <4> QED
        BY <4>1, <4>2, <4>3, Zenon
    <3> HIDE DEF FieldOf, Unset
    <3> QED
      BY <2>3, <3>1
  <2> HIDE DEF names, Unset, FieldOf
  <2>5. Received(r)["isSealed"] = Unset(FieldOf("isSealed"))
    BY <2>1, <2>2
  <2> QED
    BY <2>4, <2>5
<1> HIDE DEF Sealed
<1>1. CASE r.method = "GetLatestBlock"
  <2>1. Access!AccessAPI[r.method].request = Access!GetLatestBlockRequest
    BY <1>1 DEF Access!AccessAPI, Access!Unary
  <2>2. /\ \A f \in ToSet(Access!GetLatestBlockRequest) : f.name = "isSealed" => f = Access!Bool("isSealed", 1)
        /\ Access!Bool("isSealed", 1) \in ToSet(Access!GetLatestBlockRequest)
    <3>1. DOMAIN Access!GetLatestBlockRequest = {1, 2} /\ Access!GetLatestBlockRequest[1] = Access!Bool("isSealed", 1)
      BY DEF Access!GetLatestBlockRequest
    <3>2. Access!GetLatestBlockRequest[2].name # "isSealed"
      BY DEF Access!GetLatestBlockRequest, Access!Bool, Access!Field
    <3> QED
      BY <3>1, <3>2 DEF ToSet
  <2>3. Sealed(Access!GetLatestBlockRequest)
    BY <2>2, <1>3 DEF Sealed
  <2> QED
    BY <2>1, <2>3, <1>4
<1>2. CASE r.method = "GetLatestBlockHeader"
  <2>1. Access!AccessAPI[r.method].request = Access!GetLatestBlockHeaderRequest
    BY <1>2 DEF Access!AccessAPI, Access!Unary
  <2>2. /\ \A f \in ToSet(Access!GetLatestBlockHeaderRequest) : f.name = "isSealed" => f = Access!Bool("isSealed", 1)
        /\ Access!Bool("isSealed", 1) \in ToSet(Access!GetLatestBlockHeaderRequest)
    <3>1. DOMAIN Access!GetLatestBlockHeaderRequest = {1} /\ Access!GetLatestBlockHeaderRequest[1] = Access!Bool("isSealed", 1)
      BY DEF Access!GetLatestBlockHeaderRequest
    <3>2. TRUE
      OBVIOUS
    <3> QED
      BY <3>1, <3>2 DEF ToSet
  <2>3. Sealed(Access!GetLatestBlockHeaderRequest)
    BY <2>2, <1>3 DEF Sealed
  <2> QED
    BY <2>1, <2>3, <1>4
<1> QED
  BY <1>1, <1>2

Asked(op, of, where, body) == [op |-> op, at |-> where, of |-> of, body |-> body]

LEMMA HttpShape ==
  ASSUME NEW r
  PROVE  LET a == HttpAsks(r) IN a = [op |-> a.op, at |-> a.at, of |-> a.of, body |-> a.body]
<1> DEFINE a == HttpAsks(r)
<1>1. PICK op, of : a = [op |-> op, of |-> of, at |-> r.at, body |-> r.body]
  BY DEF HttpAsks
<1> HIDE DEF a
<1> QED
  BY <1>1 DEF a

\* What the node takes each path to ask for.
LEMMA HttpTakes ==
  /\ \A where, body : HttpAsks(Http(<<"transactions">>, where, body)) = Asked("submit", Null, where, body)
  /\ \A where, body, x : HttpAsks(Http(<<"transactions", x>>, where, body)) = Asked("transaction", x, where, body)
  /\ \A where, body, x : HttpAsks(Http(<<"transaction_results", x>>, where, body)) = Asked("transaction_results", x, where, body)
  /\ \A where, body : HttpAsks(Http(<<"scripts">>, where, body)) = Asked("scripts", Null, where, body)
  /\ \A where, body, x : HttpAsks(Http(<<"accounts", x>>, where, body)) = Asked("accounts", x, where, body)
  /\ \A where, body, x : HttpAsks(Http(<<"events", x>>, where, body)) = Asked("events", x, where, body)
  /\ \A where, body : HttpAsks(Http(<<"blocks", "payload">>, where, body)) = Asked("block", Null, where, body)
  /\ \A where, body : HttpAsks(Http(<<"blocks">>, where, body)) = Asked("header", Null, where, body)
  /\ \A where, body, x : HttpAsks(Http(<<"collections", x>>, where, body)) = Asked("collections", x, where, body)
  /\ \A where, body : HttpAsks(Http(<<"network", "parameters">>, where, body)) = Asked("network", Null, where, body)
  /\ \A where, body : HttpAsks(Http(<<"node_version_info">>, where, body)) = Asked("node_version_info", Null, where, body)
<1>1. ASSUME NEW where, NEW body PROVE HttpAsks(Http(<<"transactions">>, where, body)) = Asked("submit", Null, where, body)
  <2> DEFINE r == Http(<<"transactions">>, where, body)
  <2>1. r.path = <<"transactions">> /\ r.at = where /\ r.body = body
    BY DEF Http
  <2> HIDE DEF r
  <2>2. Len(r.path) = 1 /\ r.path[1] = "transactions"
    BY <2>1
  <2>3. r.path # <<"blocks">> /\ r.path # <<"blocks", "payload">>
    BY <2>1
  <2>4. HttpAsks(r).op = "submit"
    BY <2>2, <2>3 DEF HttpAsks
  <2>5. HttpAsks(r).of = Null
    BY <2>2 DEF HttpAsks
  <2>6. HttpAsks(r) = Asked(HttpAsks(r).op, HttpAsks(r).of, HttpAsks(r).at, HttpAsks(r).body)
    BY HttpShape DEF Asked
  <2>7. HttpAsks(r).at = r.at /\ HttpAsks(r).body = r.body
    BY DEF HttpAsks
  <2> QED
    BY <2>1, <2>4, <2>5, <2>6, <2>7 DEF r
<1>2. ASSUME NEW where, NEW body, NEW x PROVE HttpAsks(Http(<<"transactions", x>>, where, body)) = Asked("transaction", x, where, body)
  <2> DEFINE r == Http(<<"transactions", x>>, where, body)
  <2>1. r.path = <<"transactions", x>> /\ r.at = where /\ r.body = body
    BY DEF Http
  <2> HIDE DEF r
  <2>2. Len(r.path) = 2 /\ r.path[1] = "transactions" /\ r.path[2] = x
    BY <2>1
  <2>3. r.path # <<"blocks">> /\ r.path # <<"blocks", "payload">>
    BY <2>1
  <2>4. HttpAsks(r).op = "transaction"
    BY <2>2, <2>3 DEF HttpAsks
  <2>5. HttpAsks(r).of = x
    BY <2>2 DEF HttpAsks
  <2>6. HttpAsks(r) = Asked(HttpAsks(r).op, HttpAsks(r).of, HttpAsks(r).at, HttpAsks(r).body)
    BY HttpShape DEF Asked
  <2>7. HttpAsks(r).at = r.at /\ HttpAsks(r).body = r.body
    BY DEF HttpAsks
  <2> QED
    BY <2>1, <2>4, <2>5, <2>6, <2>7 DEF r
<1>3. ASSUME NEW where, NEW body, NEW x PROVE HttpAsks(Http(<<"transaction_results", x>>, where, body)) = Asked("transaction_results", x, where, body)
  <2> DEFINE r == Http(<<"transaction_results", x>>, where, body)
  <2>1. r.path = <<"transaction_results", x>> /\ r.at = where /\ r.body = body
    BY DEF Http
  <2> HIDE DEF r
  <2>2. Len(r.path) = 2 /\ r.path[1] = "transaction_results" /\ r.path[2] = x
    BY <2>1
  <2>3. r.path # <<"blocks">> /\ r.path # <<"blocks", "payload">>
    BY <2>1
  <2>4. HttpAsks(r).op = "transaction_results"
    BY <2>2, <2>3 DEF HttpAsks
  <2>5. HttpAsks(r).of = x
    BY <2>2 DEF HttpAsks
  <2>6. HttpAsks(r) = Asked(HttpAsks(r).op, HttpAsks(r).of, HttpAsks(r).at, HttpAsks(r).body)
    BY HttpShape DEF Asked
  <2>7. HttpAsks(r).at = r.at /\ HttpAsks(r).body = r.body
    BY DEF HttpAsks
  <2> QED
    BY <2>1, <2>4, <2>5, <2>6, <2>7 DEF r
<1>4. ASSUME NEW where, NEW body PROVE HttpAsks(Http(<<"scripts">>, where, body)) = Asked("scripts", Null, where, body)
  <2> DEFINE r == Http(<<"scripts">>, where, body)
  <2>1. r.path = <<"scripts">> /\ r.at = where /\ r.body = body
    BY DEF Http
  <2> HIDE DEF r
  <2>2. Len(r.path) = 1 /\ r.path[1] = "scripts"
    BY <2>1
  <2>3. r.path # <<"blocks">> /\ r.path # <<"blocks", "payload">>
    BY <2>1
  <2>4. HttpAsks(r).op = "scripts"
    BY <2>2, <2>3 DEF HttpAsks
  <2>5. HttpAsks(r).of = Null
    BY <2>2 DEF HttpAsks
  <2>6. HttpAsks(r) = Asked(HttpAsks(r).op, HttpAsks(r).of, HttpAsks(r).at, HttpAsks(r).body)
    BY HttpShape DEF Asked
  <2>7. HttpAsks(r).at = r.at /\ HttpAsks(r).body = r.body
    BY DEF HttpAsks
  <2> QED
    BY <2>1, <2>4, <2>5, <2>6, <2>7 DEF r
<1>5. ASSUME NEW where, NEW body, NEW x PROVE HttpAsks(Http(<<"accounts", x>>, where, body)) = Asked("accounts", x, where, body)
  <2> DEFINE r == Http(<<"accounts", x>>, where, body)
  <2>1. r.path = <<"accounts", x>> /\ r.at = where /\ r.body = body
    BY DEF Http
  <2> HIDE DEF r
  <2>2. Len(r.path) = 2 /\ r.path[1] = "accounts" /\ r.path[2] = x
    BY <2>1
  <2>3. r.path # <<"blocks">> /\ r.path # <<"blocks", "payload">>
    BY <2>1
  <2>4. HttpAsks(r).op = "accounts"
    BY <2>2, <2>3 DEF HttpAsks
  <2>5. HttpAsks(r).of = x
    BY <2>2 DEF HttpAsks
  <2>6. HttpAsks(r) = Asked(HttpAsks(r).op, HttpAsks(r).of, HttpAsks(r).at, HttpAsks(r).body)
    BY HttpShape DEF Asked
  <2>7. HttpAsks(r).at = r.at /\ HttpAsks(r).body = r.body
    BY DEF HttpAsks
  <2> QED
    BY <2>1, <2>4, <2>5, <2>6, <2>7 DEF r
<1>6. ASSUME NEW where, NEW body, NEW x PROVE HttpAsks(Http(<<"events", x>>, where, body)) = Asked("events", x, where, body)
  <2> DEFINE r == Http(<<"events", x>>, where, body)
  <2>1. r.path = <<"events", x>> /\ r.at = where /\ r.body = body
    BY DEF Http
  <2> HIDE DEF r
  <2>2. Len(r.path) = 2 /\ r.path[1] = "events" /\ r.path[2] = x
    BY <2>1
  <2>3. r.path # <<"blocks">> /\ r.path # <<"blocks", "payload">>
    BY <2>1
  <2>4. HttpAsks(r).op = "events"
    BY <2>2, <2>3 DEF HttpAsks
  <2>5. HttpAsks(r).of = x
    BY <2>2 DEF HttpAsks
  <2>6. HttpAsks(r) = Asked(HttpAsks(r).op, HttpAsks(r).of, HttpAsks(r).at, HttpAsks(r).body)
    BY HttpShape DEF Asked
  <2>7. HttpAsks(r).at = r.at /\ HttpAsks(r).body = r.body
    BY DEF HttpAsks
  <2> QED
    BY <2>1, <2>4, <2>5, <2>6, <2>7 DEF r
<1>7. ASSUME NEW where, NEW body PROVE HttpAsks(Http(<<"blocks", "payload">>, where, body)) = Asked("block", Null, where, body)
  <2> DEFINE r == Http(<<"blocks", "payload">>, where, body)
  <2>1. r.path = <<"blocks", "payload">> /\ r.at = where /\ r.body = body
    BY DEF Http
  <2> HIDE DEF r
  <2>2. Len(r.path) = 2 /\ r.path[1] = "blocks" /\ r.path[2] = "payload"
    BY <2>1
  <2>3. r.path # <<"blocks">> /\ r.path = <<"blocks", "payload">>
    BY <2>1
  <2>4. HttpAsks(r).op = "block"
    BY <2>2, <2>3 DEF HttpAsks
  <2>5. HttpAsks(r).of = Null
    BY <2>2 DEF HttpAsks
  <2>6. HttpAsks(r) = Asked(HttpAsks(r).op, HttpAsks(r).of, HttpAsks(r).at, HttpAsks(r).body)
    BY HttpShape DEF Asked
  <2>7. HttpAsks(r).at = r.at /\ HttpAsks(r).body = r.body
    BY DEF HttpAsks
  <2> QED
    BY <2>1, <2>4, <2>5, <2>6, <2>7 DEF r
<1>8. ASSUME NEW where, NEW body PROVE HttpAsks(Http(<<"blocks">>, where, body)) = Asked("header", Null, where, body)
  <2> DEFINE r == Http(<<"blocks">>, where, body)
  <2>1. r.path = <<"blocks">> /\ r.at = where /\ r.body = body
    BY DEF Http
  <2> HIDE DEF r
  <2>2. Len(r.path) = 1 /\ r.path[1] = "blocks"
    BY <2>1
  <2>3. r.path = <<"blocks">> /\ r.path # <<"blocks", "payload">>
    BY <2>1
  <2>4. HttpAsks(r).op = "header"
    BY <2>2, <2>3 DEF HttpAsks
  <2>5. HttpAsks(r).of = Null
    BY <2>2 DEF HttpAsks
  <2>6. HttpAsks(r) = Asked(HttpAsks(r).op, HttpAsks(r).of, HttpAsks(r).at, HttpAsks(r).body)
    BY HttpShape DEF Asked
  <2>7. HttpAsks(r).at = r.at /\ HttpAsks(r).body = r.body
    BY DEF HttpAsks
  <2> QED
    BY <2>1, <2>4, <2>5, <2>6, <2>7 DEF r
<1>9. ASSUME NEW where, NEW body, NEW x PROVE HttpAsks(Http(<<"collections", x>>, where, body)) = Asked("collections", x, where, body)
  <2> DEFINE r == Http(<<"collections", x>>, where, body)
  <2>1. r.path = <<"collections", x>> /\ r.at = where /\ r.body = body
    BY DEF Http
  <2> HIDE DEF r
  <2>2. Len(r.path) = 2 /\ r.path[1] = "collections" /\ r.path[2] = x
    BY <2>1
  <2>3. r.path # <<"blocks">> /\ r.path # <<"blocks", "payload">>
    BY <2>1
  <2>4. HttpAsks(r).op = "collections"
    BY <2>2, <2>3 DEF HttpAsks
  <2>5. HttpAsks(r).of = x
    BY <2>2 DEF HttpAsks
  <2>6. HttpAsks(r) = Asked(HttpAsks(r).op, HttpAsks(r).of, HttpAsks(r).at, HttpAsks(r).body)
    BY HttpShape DEF Asked
  <2>7. HttpAsks(r).at = r.at /\ HttpAsks(r).body = r.body
    BY DEF HttpAsks
  <2> QED
    BY <2>1, <2>4, <2>5, <2>6, <2>7 DEF r
<1>10. ASSUME NEW where, NEW body PROVE HttpAsks(Http(<<"network", "parameters">>, where, body)) = Asked("network", Null, where, body)
  <2> DEFINE r == Http(<<"network", "parameters">>, where, body)
  <2>1. r.path = <<"network", "parameters">> /\ r.at = where /\ r.body = body
    BY DEF Http
  <2> HIDE DEF r
  <2>2. Len(r.path) = 2 /\ r.path[1] = "network" /\ r.path[2] = "parameters"
    BY <2>1
  <2>3. r.path # <<"blocks">> /\ r.path # <<"blocks", "payload">>
    BY <2>1
  <2>4. HttpAsks(r).op = "network"
    BY <2>2, <2>3 DEF HttpAsks
  <2>5. HttpAsks(r).of = Null
    BY <2>2 DEF HttpAsks
  <2>6. HttpAsks(r) = Asked(HttpAsks(r).op, HttpAsks(r).of, HttpAsks(r).at, HttpAsks(r).body)
    BY HttpShape DEF Asked
  <2>7. HttpAsks(r).at = r.at /\ HttpAsks(r).body = r.body
    BY DEF HttpAsks
  <2> QED
    BY <2>1, <2>4, <2>5, <2>6, <2>7 DEF r
<1>11. ASSUME NEW where, NEW body PROVE HttpAsks(Http(<<"node_version_info">>, where, body)) = Asked("node_version_info", Null, where, body)
  <2> DEFINE r == Http(<<"node_version_info">>, where, body)
  <2>1. r.path = <<"node_version_info">> /\ r.at = where /\ r.body = body
    BY DEF Http
  <2> HIDE DEF r
  <2>2. Len(r.path) = 1 /\ r.path[1] = "node_version_info"
    BY <2>1
  <2>3. r.path # <<"blocks">> /\ r.path # <<"blocks", "payload">>
    BY <2>1
  <2>4. HttpAsks(r).op = "node_version_info"
    BY <2>2, <2>3 DEF HttpAsks
  <2>5. HttpAsks(r).of = Null
    BY <2>2 DEF HttpAsks
  <2>6. HttpAsks(r) = Asked(HttpAsks(r).op, HttpAsks(r).of, HttpAsks(r).at, HttpAsks(r).body)
    BY HttpShape DEF Asked
  <2>7. HttpAsks(r).at = r.at /\ HttpAsks(r).body = r.body
    BY DEF HttpAsks
  <2> QED
    BY <2>1, <2>4, <2>5, <2>6, <2>7 DEF r
<1> QED
  BY <1>1, <1>2, <1>3, <1>4, <1>5, <1>6, <1>7, <1>8, <1>9, <1>10, <1>11

\* And what it takes each method to ask for.
LEMMA GrpcTakes ==
  ASSUME NEW r
  PROVE
    /\ r.method = "SendTransaction" => GrpcAsks(r) = Asked("submit", Null, Nowhere, Received(r).transaction)
    /\ r.method = "GetTransactionResult" => GrpcAsks(r) = Asked("transaction_results", Received(r).id, Nowhere, Null)
    /\ r.method = "GetTransaction" => GrpcAsks(r) = Asked("transaction", Received(r).id, Nowhere, Null)
    /\ r.method = "ExecuteScriptAtBlockID" => GrpcAsks(r) = Asked("scripts", Null, AtId(Received(r).blockId), [script |-> Received(r).script, arguments |-> Received(r).arguments])
    /\ r.method = "ExecuteScriptAtBlockHeight" => GrpcAsks(r) = Asked("scripts", Null, AtHeight(Received(r).blockHeight), [script |-> Received(r).script, arguments |-> Received(r).arguments])
    /\ r.method = "ExecuteScriptAtLatestBlock" => GrpcAsks(r) = Asked("scripts", Null, Latest("sealed"), [script |-> Received(r).script, arguments |-> Received(r).arguments])
    /\ r.method = "GetAccountAtBlockHeight" => GrpcAsks(r) = Asked("accounts", Received(r).address, AtHeight(Received(r).blockHeight), Null)
    /\ r.method = "GetAccountAtLatestBlock" => GrpcAsks(r) = Asked("accounts", Received(r).address, Latest("sealed"), Null)
    /\ r.method = "GetEventsForHeightRange" => GrpcAsks(r) = Asked("events", Received(r).type, <<"range", Received(r).startHeight, Received(r).endHeight>>, Null)
    /\ r.method = "GetEventsForBlockIDs" => GrpcAsks(r) = Asked("events", Received(r).type, <<"ids", Received(r).blockIds>>, Null)
    /\ r.method = "GetBlockByID" => GrpcAsks(r) = Asked("block", Null, AtId(Received(r).id), Null)
    /\ r.method = "GetBlockByHeight" => GrpcAsks(r) = Asked("block", Null, AtHeight(Received(r).height), Null)
    /\ r.method = "GetLatestBlock" => GrpcAsks(r) = Asked("block", Null, Latest(IF Received(r).isSealed THEN "sealed" ELSE "final"), Null)
    /\ r.method = "GetBlockHeaderByID" => GrpcAsks(r) = Asked("header", Null, AtId(Received(r).id), Null)
    /\ r.method = "GetBlockHeaderByHeight" => GrpcAsks(r) = Asked("header", Null, AtHeight(Received(r).height), Null)
    /\ r.method = "GetLatestBlockHeader" => GrpcAsks(r) = Asked("header", Null, Latest(IF Received(r).isSealed THEN "sealed" ELSE "final"), Null)
    /\ r.method = "GetCollectionByID" => GrpcAsks(r) = Asked("collections", Received(r).id, Nowhere, Null)
    /\ r.method = "GetNetworkParameters" => GrpcAsks(r) = Asked("network", Null, Nowhere, Null)
    /\ r.method = "GetNodeVersionInfo" => GrpcAsks(r) = Asked("node_version_info", Null, Nowhere, Null)
<1>1. ASSUME r.method = "SendTransaction" PROVE GrpcAsks(r) = Asked("submit", Null, Nowhere, Received(r).transaction)
  <2>1. GrpcOp(r.method) = "submit"
    BY <1>1 DEF GrpcOp
  <2>2. GrpcAt(r.method, Received(r)) = Nowhere
    BY <1>1, <2>1 DEF GrpcAt
  <2> QED
    BY <2>1, <2>2 DEF GrpcAsks, Asked
<1>2. ASSUME r.method = "GetTransactionResult" PROVE GrpcAsks(r) = Asked("transaction_results", Received(r).id, Nowhere, Null)
  <2>1. GrpcOp(r.method) = "transaction_results"
    BY <1>2 DEF GrpcOp
  <2>2. GrpcAt(r.method, Received(r)) = Nowhere
    BY <1>2, <2>1 DEF GrpcAt
  <2> QED
    BY <2>1, <2>2 DEF GrpcAsks, Asked
<1>3. ASSUME r.method = "GetTransaction" PROVE GrpcAsks(r) = Asked("transaction", Received(r).id, Nowhere, Null)
  <2>1. GrpcOp(r.method) = "transaction"
    BY <1>3 DEF GrpcOp
  <2>2. GrpcAt(r.method, Received(r)) = Nowhere
    BY <1>3, <2>1 DEF GrpcAt
  <2> QED
    BY <2>1, <2>2 DEF GrpcAsks, Asked
<1>4. ASSUME r.method = "ExecuteScriptAtBlockID" PROVE GrpcAsks(r) = Asked("scripts", Null, AtId(Received(r).blockId), [script |-> Received(r).script, arguments |-> Received(r).arguments])
  <2>1. GrpcOp(r.method) = "scripts"
    BY <1>4 DEF GrpcOp
  <2>2. GrpcAt(r.method, Received(r)) = AtId(Received(r).blockId)
    BY <1>4, <2>1 DEF GrpcAt
  <2> QED
    BY <2>1, <2>2 DEF GrpcAsks, Asked
<1>5. ASSUME r.method = "ExecuteScriptAtBlockHeight" PROVE GrpcAsks(r) = Asked("scripts", Null, AtHeight(Received(r).blockHeight), [script |-> Received(r).script, arguments |-> Received(r).arguments])
  <2>1. GrpcOp(r.method) = "scripts"
    BY <1>5 DEF GrpcOp
  <2>2. GrpcAt(r.method, Received(r)) = AtHeight(Received(r).blockHeight)
    BY <1>5, <2>1 DEF GrpcAt
  <2> QED
    BY <2>1, <2>2 DEF GrpcAsks, Asked
<1>6. ASSUME r.method = "ExecuteScriptAtLatestBlock" PROVE GrpcAsks(r) = Asked("scripts", Null, Latest("sealed"), [script |-> Received(r).script, arguments |-> Received(r).arguments])
  <2>1. GrpcOp(r.method) = "scripts"
    BY <1>6 DEF GrpcOp
  <2>2. GrpcAt(r.method, Received(r)) = Latest("sealed")
    BY <1>6, <2>1 DEF GrpcAt
  <2> QED
    BY <2>1, <2>2 DEF GrpcAsks, Asked
<1>7. ASSUME r.method = "GetAccountAtBlockHeight" PROVE GrpcAsks(r) = Asked("accounts", Received(r).address, AtHeight(Received(r).blockHeight), Null)
  <2>1. GrpcOp(r.method) = "accounts"
    BY <1>7 DEF GrpcOp
  <2>2. GrpcAt(r.method, Received(r)) = AtHeight(Received(r).blockHeight)
    BY <1>7, <2>1 DEF GrpcAt
  <2> QED
    BY <2>1, <2>2 DEF GrpcAsks, Asked
<1>8. ASSUME r.method = "GetAccountAtLatestBlock" PROVE GrpcAsks(r) = Asked("accounts", Received(r).address, Latest("sealed"), Null)
  <2>1. GrpcOp(r.method) = "accounts"
    BY <1>8 DEF GrpcOp
  <2>2. GrpcAt(r.method, Received(r)) = Latest("sealed")
    BY <1>8, <2>1 DEF GrpcAt
  <2> QED
    BY <2>1, <2>2 DEF GrpcAsks, Asked
<1>9. ASSUME r.method = "GetEventsForHeightRange" PROVE GrpcAsks(r) = Asked("events", Received(r).type, <<"range", Received(r).startHeight, Received(r).endHeight>>, Null)
  <2>1. GrpcOp(r.method) = "events"
    BY <1>9 DEF GrpcOp
  <2>2. GrpcAt(r.method, Received(r)) = <<"range", Received(r).startHeight, Received(r).endHeight>>
    BY <1>9, <2>1 DEF GrpcAt
  <2> QED
    BY <2>1, <2>2 DEF GrpcAsks, Asked
<1>10. ASSUME r.method = "GetEventsForBlockIDs" PROVE GrpcAsks(r) = Asked("events", Received(r).type, <<"ids", Received(r).blockIds>>, Null)
  <2>1. GrpcOp(r.method) = "events"
    BY <1>10 DEF GrpcOp
  <2>2. GrpcAt(r.method, Received(r)) = <<"ids", Received(r).blockIds>>
    BY <1>10, <2>1 DEF GrpcAt
  <2> QED
    BY <2>1, <2>2 DEF GrpcAsks, Asked
<1>11. ASSUME r.method = "GetBlockByID" PROVE GrpcAsks(r) = Asked("block", Null, AtId(Received(r).id), Null)
  <2>1. GrpcOp(r.method) = "block"
    BY <1>11 DEF GrpcOp
  <2>2. GrpcAt(r.method, Received(r)) = AtId(Received(r).id)
    BY <1>11, <2>1 DEF GrpcAt
  <2> QED
    BY <2>1, <2>2 DEF GrpcAsks, Asked
<1>12. ASSUME r.method = "GetBlockByHeight" PROVE GrpcAsks(r) = Asked("block", Null, AtHeight(Received(r).height), Null)
  <2>1. GrpcOp(r.method) = "block"
    BY <1>12 DEF GrpcOp
  <2>2. GrpcAt(r.method, Received(r)) = AtHeight(Received(r).height)
    BY <1>12, <2>1 DEF GrpcAt
  <2> QED
    BY <2>1, <2>2 DEF GrpcAsks, Asked
<1>13. ASSUME r.method = "GetLatestBlock" PROVE GrpcAsks(r) = Asked("block", Null, Latest(IF Received(r).isSealed THEN "sealed" ELSE "final"), Null)
  <2>1. GrpcOp(r.method) = "block"
    BY <1>13 DEF GrpcOp
  <2>2. GrpcAt(r.method, Received(r)) = Latest(IF Received(r).isSealed THEN "sealed" ELSE "final")
    BY <1>13, <2>1 DEF GrpcAt
  <2> QED
    BY <2>1, <2>2 DEF GrpcAsks, Asked
<1>14. ASSUME r.method = "GetBlockHeaderByID" PROVE GrpcAsks(r) = Asked("header", Null, AtId(Received(r).id), Null)
  <2>1. GrpcOp(r.method) = "header"
    BY <1>14 DEF GrpcOp
  <2>2. GrpcAt(r.method, Received(r)) = AtId(Received(r).id)
    BY <1>14, <2>1 DEF GrpcAt
  <2> QED
    BY <2>1, <2>2 DEF GrpcAsks, Asked
<1>15. ASSUME r.method = "GetBlockHeaderByHeight" PROVE GrpcAsks(r) = Asked("header", Null, AtHeight(Received(r).height), Null)
  <2>1. GrpcOp(r.method) = "header"
    BY <1>15 DEF GrpcOp
  <2>2. GrpcAt(r.method, Received(r)) = AtHeight(Received(r).height)
    BY <1>15, <2>1 DEF GrpcAt
  <2> QED
    BY <2>1, <2>2 DEF GrpcAsks, Asked
<1>16. ASSUME r.method = "GetLatestBlockHeader" PROVE GrpcAsks(r) = Asked("header", Null, Latest(IF Received(r).isSealed THEN "sealed" ELSE "final"), Null)
  <2>1. GrpcOp(r.method) = "header"
    BY <1>16 DEF GrpcOp
  <2>2. GrpcAt(r.method, Received(r)) = Latest(IF Received(r).isSealed THEN "sealed" ELSE "final")
    BY <1>16, <2>1 DEF GrpcAt
  <2> QED
    BY <2>1, <2>2 DEF GrpcAsks, Asked
<1>17. ASSUME r.method = "GetCollectionByID" PROVE GrpcAsks(r) = Asked("collections", Received(r).id, Nowhere, Null)
  <2>1. GrpcOp(r.method) = "collections"
    BY <1>17 DEF GrpcOp
  <2>2. GrpcAt(r.method, Received(r)) = Nowhere
    BY <1>17, <2>1 DEF GrpcAt
  <2> QED
    BY <2>1, <2>2 DEF GrpcAsks, Asked
<1>18. ASSUME r.method = "GetNetworkParameters" PROVE GrpcAsks(r) = Asked("network", Null, Nowhere, Null)
  <2>1. GrpcOp(r.method) = "network"
    BY <1>18 DEF GrpcOp
  <2>2. GrpcAt(r.method, Received(r)) = Nowhere
    BY <1>18, <2>1 DEF GrpcAt
  <2> QED
    BY <2>1, <2>2 DEF GrpcAsks, Asked
<1>19. ASSUME r.method = "GetNodeVersionInfo" PROVE GrpcAsks(r) = Asked("node_version_info", Null, Nowhere, Null)
  <2>1. GrpcOp(r.method) = "node_version_info"
    BY <1>19 DEF GrpcOp
  <2>2. GrpcAt(r.method, Received(r)) = Nowhere
    BY <1>19, <2>1 DEF GrpcAt
  <2> QED
    BY <2>1, <2>2 DEF GrpcAsks, Asked
<1> QED
  BY <1>1, <1>2, <1>3, <1>4, <1>5, <1>6, <1>7, <1>8, <1>9, <1>10, <1>11, <1>12, <1>13, <1>14, <1>15, <1>16, <1>17, <1>18, <1>19

\* Of an interaction with any tag but PING both transports ask the same.
Agrees(i) == HttpAsks(httpSend(i)) = GrpcAsks(grpcSend(i))

LEMMA TransactionAgrees ==
  ASSUME NEW i, i.tag = "TRANSACTION" PROVE Agrees(i)
<1> DEFINE r == grpcSend(i)
           m == Received(r)
           tx == TransactionSent(i, Unique(Signatures(i, FALSE)), Signatures(i, TRUE))
<1>1. httpSend(i) = Http(<<"transactions">>, Nowhere, tx)
  BY DEF httpSend, httpTransaction
<1>2. r.method = "SendTransaction" /\ r.message = [transaction |-> tx]
  BY DEF grpcSend, grpcTransaction, Grpc
<1> HIDE DEF r, tx
<1>3. m["transaction"] = tx
  <2>1. {"transaction"} \subseteq DOMAIN r.message
    BY <1>2
  <2>2. r.message["transaction"] = tx
    BY <1>2
  <2>3. m["transaction"] = r.message["transaction"]
    BY <1>2, <2>1, Declared, ReadsField DEF Sends
  <2> QED
    BY <2>2, <2>3
<1>4. HttpAsks(httpSend(i)) = Asked("submit", Null, Nowhere, tx)
  BY <1>1, HttpTakes
<1>5. GrpcAsks(r) = Asked("submit", Null, Nowhere, tx)
  <2>1. GrpcAsks(r) = Asked("submit", Null, Nowhere, m.transaction)
    BY <1>2, GrpcTakes DEF m
  <2> HIDE DEF m
  <2> QED
    BY <2>1, <1>3
<1> QED
  BY <1>4, <1>5 DEF r, Agrees

LEMMA GetTransactionStatusAgrees ==
  ASSUME NEW i, i.tag = "GET_TRANSACTION_STATUS" PROVE Agrees(i)
<1> DEFINE r == grpcSend(i)
           m == Received(r)
<1>1. httpSend(i) = Http(<<"transaction_results", i.id>>, Nowhere, Null)
  BY DEF httpSend, httpTransactionStatus
<1>2. r.method = "GetTransactionResult" /\ r.message = [id |-> i.id]
  BY DEF grpcSend, grpcTransactionStatus, Grpc
<1> HIDE DEF r
<1>3. m["id"] = i.id
  <2>1. {"id"} \subseteq DOMAIN r.message
    BY <1>2
  <2>2. r.message["id"] = i.id
    BY <1>2
  <2>3. m["id"] = r.message["id"]
    BY <1>2, <2>1, Declared, ReadsField DEF Sends
  <2> QED
    BY <2>2, <2>3
<1>4. HttpAsks(httpSend(i)) = Asked("transaction_results", i.id, Nowhere, Null)
  BY <1>1, HttpTakes
<1>5. GrpcAsks(r) = Asked("transaction_results", i.id, Nowhere, Null)
  <2>1. GrpcAsks(r) = Asked("transaction_results", m.id, Nowhere, Null)
    BY <1>2, GrpcTakes DEF m
  <2> HIDE DEF m
  <2> QED
    BY <2>1, <1>3
<1> QED
  BY <1>4, <1>5 DEF r, Agrees

LEMMA GetTransactionAgrees ==
  ASSUME NEW i, i.tag = "GET_TRANSACTION" PROVE Agrees(i)
<1> DEFINE r == grpcSend(i)
           m == Received(r)
<1>1. httpSend(i) = Http(<<"transactions", i.id>>, Nowhere, Null)
  BY DEF httpSend, httpGetTransaction
<1>2. r.method = "GetTransaction" /\ r.message = [id |-> i.id]
  BY DEF grpcSend, grpcGetTransaction, Grpc
<1> HIDE DEF r
<1>3. m["id"] = i.id
  <2>1. {"id"} \subseteq DOMAIN r.message
    BY <1>2
  <2>2. r.message["id"] = i.id
    BY <1>2
  <2>3. m["id"] = r.message["id"]
    BY <1>2, <2>1, Declared, ReadsField DEF Sends
  <2> QED
    BY <2>2, <2>3
<1>4. HttpAsks(httpSend(i)) = Asked("transaction", i.id, Nowhere, Null)
  BY <1>1, HttpTakes
<1>5. GrpcAsks(r) = Asked("transaction", i.id, Nowhere, Null)
  <2>1. GrpcAsks(r) = Asked("transaction", m.id, Nowhere, Null)
    BY <1>2, GrpcTakes DEF m
  <2> HIDE DEF m
  <2> QED
    BY <2>1, <1>3
<1> QED
  BY <1>4, <1>5 DEF r, Agrees

LEMMA ScriptAgrees ==
  ASSUME NEW i, i.tag = "SCRIPT" PROVE Agrees(i)
<1>1. CASE Truthy(i.block.id)
  <2> DEFINE r == grpcSend(i)
             m == Received(r)
  <2>1. httpSend(i) = Http(<<"scripts">>, AtId(i.block.id), [script |-> i.cadence, arguments |-> Arguments(i)])
    BY <1>1 DEF httpSend, httpScript
  <2>2. r.method = "ExecuteScriptAtBlockID" /\ r.message = [blockId |-> i.block.id, script |-> i.cadence, arguments |-> Arguments(i)]
    BY <1>1 DEF grpcSend, grpcScript, Grpc
  <2> HIDE DEF r
  <2>3. m["blockId"] = i.block.id /\ m["script"] = i.cadence /\ m["arguments"] = Arguments(i)
    <3>1. {"blockId", "script", "arguments"} \subseteq DOMAIN r.message
      BY <2>2
    <3>2. r.message["blockId"] = i.block.id /\ r.message["script"] = i.cadence /\ r.message["arguments"] = Arguments(i)
      BY <2>2
    <3>3. m["blockId"] = r.message["blockId"]
      BY <2>2, <3>1, Declared, ReadsField DEF Sends
    <3>4. m["script"] = r.message["script"]
      BY <2>2, <3>1, Declared, ReadsField DEF Sends
    <3>5. m["arguments"] = r.message["arguments"]
      BY <2>2, <3>1, Declared, ReadsField DEF Sends
    <3> QED
      BY <3>2, <3>3, <3>4, <3>5
  <2>4. HttpAsks(httpSend(i)) = Asked("scripts", Null, AtId(i.block.id), [script |-> i.cadence, arguments |-> Arguments(i)])
    BY <2>1, HttpTakes
  <2>5. GrpcAsks(r) = Asked("scripts", Null, AtId(i.block.id), [script |-> i.cadence, arguments |-> Arguments(i)])
    <3>1. GrpcAsks(r) = Asked("scripts", Null, AtId(m.blockId), [script |-> m.script, arguments |-> m.arguments])
      BY <2>2, GrpcTakes DEF m
    <3> HIDE DEF m
    <3> QED
      BY <3>1, <2>3
  <2> QED
    BY <2>4, <2>5 DEF r, Agrees
<1>2. CASE ~ Truthy(i.block.id) /\ Truthy(i.block.height)
  <2> DEFINE r == grpcSend(i)
             m == Received(r)
  <2>1. httpSend(i) = Http(<<"scripts">>, AtHeight(i.block.height), [script |-> i.cadence, arguments |-> Arguments(i)])
    BY <1>2 DEF httpSend, httpScript
  <2>2. r.method = "ExecuteScriptAtBlockHeight" /\ r.message = [blockHeight |-> i.block.height, script |-> i.cadence, arguments |-> Arguments(i)]
    BY <1>2 DEF grpcSend, grpcScript, Grpc
  <2> HIDE DEF r
  <2>3. m["blockHeight"] = i.block.height /\ m["script"] = i.cadence /\ m["arguments"] = Arguments(i)
    <3>1. {"blockHeight", "script", "arguments"} \subseteq DOMAIN r.message
      BY <2>2
    <3>2. r.message["blockHeight"] = i.block.height /\ r.message["script"] = i.cadence /\ r.message["arguments"] = Arguments(i)
      BY <2>2
    <3>3. m["blockHeight"] = r.message["blockHeight"]
      BY <2>2, <3>1, Declared, ReadsField DEF Sends
    <3>4. m["script"] = r.message["script"]
      BY <2>2, <3>1, Declared, ReadsField DEF Sends
    <3>5. m["arguments"] = r.message["arguments"]
      BY <2>2, <3>1, Declared, ReadsField DEF Sends
    <3> QED
      BY <3>2, <3>3, <3>4, <3>5
  <2>4. HttpAsks(httpSend(i)) = Asked("scripts", Null, AtHeight(i.block.height), [script |-> i.cadence, arguments |-> Arguments(i)])
    BY <2>1, HttpTakes
  <2>5. GrpcAsks(r) = Asked("scripts", Null, AtHeight(i.block.height), [script |-> i.cadence, arguments |-> Arguments(i)])
    <3>1. GrpcAsks(r) = Asked("scripts", Null, AtHeight(m.blockHeight), [script |-> m.script, arguments |-> m.arguments])
      BY <2>2, GrpcTakes DEF m
    <3> HIDE DEF m
    <3> QED
      BY <3>1, <2>3
  <2> QED
    BY <2>4, <2>5 DEF r, Agrees
<1>3. CASE ~ Truthy(i.block.id) /\ ~ Truthy(i.block.height)
  <2> DEFINE r == grpcSend(i)
             m == Received(r)
  <2>1. httpSend(i) = Http(<<"scripts">>, Latest("sealed"), [script |-> i.cadence, arguments |-> Arguments(i)])
    BY <1>3 DEF httpSend, httpScript
  <2>2. r.method = "ExecuteScriptAtLatestBlock" /\ r.message = [script |-> i.cadence, arguments |-> Arguments(i)]
    BY <1>3 DEF grpcSend, grpcScript, Grpc
  <2> HIDE DEF r
  <2>3. m["script"] = i.cadence /\ m["arguments"] = Arguments(i)
    <3>1. {"script", "arguments"} \subseteq DOMAIN r.message
      BY <2>2
    <3>2. r.message["script"] = i.cadence /\ r.message["arguments"] = Arguments(i)
      BY <2>2
    <3>3. m["script"] = r.message["script"]
      BY <2>2, <3>1, Declared, ReadsField DEF Sends
    <3>4. m["arguments"] = r.message["arguments"]
      BY <2>2, <3>1, Declared, ReadsField DEF Sends
    <3> QED
      BY <3>2, <3>3, <3>4
  <2>4. HttpAsks(httpSend(i)) = Asked("scripts", Null, Latest("sealed"), [script |-> i.cadence, arguments |-> Arguments(i)])
    BY <2>1, HttpTakes
  <2>5. GrpcAsks(r) = Asked("scripts", Null, Latest("sealed"), [script |-> i.cadence, arguments |-> Arguments(i)])
    <3>1. GrpcAsks(r) = Asked("scripts", Null, Latest("sealed"), [script |-> m.script, arguments |-> m.arguments])
      BY <2>2, GrpcTakes DEF m
    <3> HIDE DEF m
    <3> QED
      BY <3>1, <2>3
  <2> QED
    BY <2>4, <2>5 DEF r, Agrees
<1> QED
  BY <1>1, <1>2, <1>3

LEMMA GetAccountAgrees ==
  ASSUME NEW i, i.tag = "GET_ACCOUNT" PROVE Agrees(i)
<1>1. CASE i.block.height # Null
  <2> DEFINE r == grpcSend(i)
             m == Received(r)
  <2>1. httpSend(i) = Http(<<"accounts", i.id>>, AtHeight(i.block.height), Null)
    BY <1>1 DEF httpSend, httpAccount
  <2>2. r.method = "GetAccountAtBlockHeight" /\ r.message = [address |-> i.id, blockHeight |-> i.block.height]
    BY <1>1 DEF grpcSend, grpcAccount, Grpc
  <2> HIDE DEF r
  <2>3. m["address"] = i.id /\ m["blockHeight"] = i.block.height
    <3>1. {"address", "blockHeight"} \subseteq DOMAIN r.message
      BY <2>2
    <3>2. r.message["address"] = i.id /\ r.message["blockHeight"] = i.block.height
      BY <2>2
    <3>3. m["address"] = r.message["address"]
      BY <2>2, <3>1, Declared, ReadsField DEF Sends
    <3>4. m["blockHeight"] = r.message["blockHeight"]
      BY <2>2, <3>1, Declared, ReadsField DEF Sends
    <3> QED
      BY <3>2, <3>3, <3>4
  <2>4. HttpAsks(httpSend(i)) = Asked("accounts", i.id, AtHeight(i.block.height), Null)
    BY <2>1, HttpTakes
  <2>5. GrpcAsks(r) = Asked("accounts", i.id, AtHeight(i.block.height), Null)
    <3>1. GrpcAsks(r) = Asked("accounts", m.address, AtHeight(m.blockHeight), Null)
      BY <2>2, GrpcTakes DEF m
    <3> HIDE DEF m
    <3> QED
      BY <3>1, <2>3
  <2> QED
    BY <2>4, <2>5 DEF r, Agrees
<1>2. CASE i.block.height = Null
  <2> DEFINE r == grpcSend(i)
             m == Received(r)
  <2>1. httpSend(i) = Http(<<"accounts", i.id>>, Latest("sealed"), Null)
    BY <1>2 DEF httpSend, httpAccount
  <2>2. r.method = "GetAccountAtLatestBlock" /\ r.message = [address |-> i.id]
    BY <1>2 DEF grpcSend, grpcAccount, Grpc
  <2> HIDE DEF r
  <2>3. m["address"] = i.id
    <3>1. {"address"} \subseteq DOMAIN r.message
      BY <2>2
    <3>2. r.message["address"] = i.id
      BY <2>2
    <3>3. m["address"] = r.message["address"]
      BY <2>2, <3>1, Declared, ReadsField DEF Sends
    <3> QED
      BY <3>2, <3>3
  <2>4. HttpAsks(httpSend(i)) = Asked("accounts", i.id, Latest("sealed"), Null)
    BY <2>1, HttpTakes
  <2>5. GrpcAsks(r) = Asked("accounts", i.id, Latest("sealed"), Null)
    <3>1. GrpcAsks(r) = Asked("accounts", m.address, Latest("sealed"), Null)
      BY <2>2, GrpcTakes DEF m
    <3> HIDE DEF m
    <3> QED
      BY <3>1, <2>3
  <2> QED
    BY <2>4, <2>5 DEF r, Agrees
<1> QED
  BY <1>1, <1>2

LEMMA GetEventsAgrees ==
  ASSUME NEW i, i.tag = "GET_EVENTS" PROVE Agrees(i)
<1>1. CASE i.events.start # Null
  <2> DEFINE r == grpcSend(i)
             m == Received(r)
  <2>1. httpSend(i) = Http(<<"events", i.events.type>>, <<"range", i.events.start, i.events.end>>, Null)
    BY <1>1 DEF httpSend, httpEvents
  <2>2. r.method = "GetEventsForHeightRange" /\ r.message = [type |-> i.events.type, startHeight |-> i.events.start, endHeight |-> i.events.end]
    BY <1>1 DEF grpcSend, grpcEvents, Grpc
  <2> HIDE DEF r
  <2>3. m["type"] = i.events.type /\ m["startHeight"] = i.events.start /\ m["endHeight"] = i.events.end
    <3>1. {"type", "startHeight", "endHeight"} \subseteq DOMAIN r.message
      BY <2>2
    <3>2. r.message["type"] = i.events.type /\ r.message["startHeight"] = i.events.start /\ r.message["endHeight"] = i.events.end
      BY <2>2
    <3>3. m["type"] = r.message["type"]
      BY <2>2, <3>1, Declared, ReadsField DEF Sends
    <3>4. m["startHeight"] = r.message["startHeight"]
      BY <2>2, <3>1, Declared, ReadsField DEF Sends
    <3>5. m["endHeight"] = r.message["endHeight"]
      BY <2>2, <3>1, Declared, ReadsField DEF Sends
    <3> QED
      BY <3>2, <3>3, <3>4, <3>5
  <2>4. HttpAsks(httpSend(i)) = Asked("events", i.events.type, <<"range", i.events.start, i.events.end>>, Null)
    BY <2>1, HttpTakes
  <2>5. GrpcAsks(r) = Asked("events", i.events.type, <<"range", i.events.start, i.events.end>>, Null)
    <3>1. GrpcAsks(r) = Asked("events", m.type, <<"range", m.startHeight, m.endHeight>>, Null)
      BY <2>2, GrpcTakes DEF m
    <3> HIDE DEF m
    <3> QED
      BY <3>1, <2>3
  <2> QED
    BY <2>4, <2>5 DEF r, Agrees
<1>2. CASE i.events.start = Null
  <2> DEFINE r == grpcSend(i)
             m == Received(r)
  <2>1. httpSend(i) = Http(<<"events", i.events.type>>, <<"ids", i.events.ids>>, Null)
    BY <1>2 DEF httpSend, httpEvents
  <2>2. r.method = "GetEventsForBlockIDs" /\ r.message = [type |-> i.events.type, blockIds |-> i.events.ids]
    BY <1>2 DEF grpcSend, grpcEvents, Grpc
  <2> HIDE DEF r
  <2>3. m["type"] = i.events.type /\ m["blockIds"] = i.events.ids
    <3>1. {"type", "blockIds"} \subseteq DOMAIN r.message
      BY <2>2
    <3>2. r.message["type"] = i.events.type /\ r.message["blockIds"] = i.events.ids
      BY <2>2
    <3>3. m["type"] = r.message["type"]
      BY <2>2, <3>1, Declared, ReadsField DEF Sends
    <3>4. m["blockIds"] = r.message["blockIds"]
      BY <2>2, <3>1, Declared, ReadsField DEF Sends
    <3> QED
      BY <3>2, <3>3, <3>4
  <2>4. HttpAsks(httpSend(i)) = Asked("events", i.events.type, <<"ids", i.events.ids>>, Null)
    BY <2>1, HttpTakes
  <2>5. GrpcAsks(r) = Asked("events", i.events.type, <<"ids", i.events.ids>>, Null)
    <3>1. GrpcAsks(r) = Asked("events", m.type, <<"ids", m.blockIds>>, Null)
      BY <2>2, GrpcTakes DEF m
    <3> HIDE DEF m
    <3> QED
      BY <3>1, <2>3
  <2> QED
    BY <2>4, <2>5 DEF r, Agrees
<1> QED
  BY <1>1, <1>2

LEMMA GetBlockAgrees ==
  ASSUME NEW i, i.tag = "GET_BLOCK" PROVE Agrees(i)
<1>1. CASE i.block.id # Null
  <2> DEFINE r == grpcSend(i)
             m == Received(r)
  <2>1. httpSend(i) = Http(<<"blocks", "payload">>, AtId(i.block.id), Null)
    BY <1>1 DEF httpSend, httpBlock, httpBlockAt
  <2>2. r.method = "GetBlockByID" /\ r.message = [id |-> i.block.id]
    BY <1>1 DEF grpcSend, grpcBlock, grpcBlockAt, Grpc
  <2> HIDE DEF r
  <2>3. m["id"] = i.block.id
    <3>1. {"id"} \subseteq DOMAIN r.message
      BY <2>2
    <3>2. r.message["id"] = i.block.id
      BY <2>2
    <3>3. m["id"] = r.message["id"]
      BY <2>2, <3>1, Declared, ReadsField DEF Sends
    <3> QED
      BY <3>2, <3>3
  <2>4. HttpAsks(httpSend(i)) = Asked("block", Null, AtId(i.block.id), Null)
    BY <2>1, HttpTakes
  <2>5. GrpcAsks(r) = Asked("block", Null, AtId(i.block.id), Null)
    <3>1. GrpcAsks(r) = Asked("block", Null, AtId(m.id), Null)
      BY <2>2, GrpcTakes DEF m
    <3> HIDE DEF m
    <3> QED
      BY <3>1, <2>3
  <2> QED
    BY <2>4, <2>5 DEF r, Agrees
<1>2. CASE i.block.id = Null /\ i.block.height # Null
  <2> DEFINE r == grpcSend(i)
             m == Received(r)
  <2>1. httpSend(i) = Http(<<"blocks", "payload">>, AtHeight(i.block.height), Null)
    BY <1>2 DEF httpSend, httpBlock, httpBlockAt
  <2>2. r.method = "GetBlockByHeight" /\ r.message = [height |-> i.block.height]
    BY <1>2 DEF grpcSend, grpcBlock, grpcBlockAt, Grpc
  <2> HIDE DEF r
  <2>3. m["height"] = i.block.height
    <3>1. {"height"} \subseteq DOMAIN r.message
      BY <2>2
    <3>2. r.message["height"] = i.block.height
      BY <2>2
    <3>3. m["height"] = r.message["height"]
      BY <2>2, <3>1, Declared, ReadsField DEF Sends
    <3> QED
      BY <3>2, <3>3
  <2>4. HttpAsks(httpSend(i)) = Asked("block", Null, AtHeight(i.block.height), Null)
    BY <2>1, HttpTakes
  <2>5. GrpcAsks(r) = Asked("block", Null, AtHeight(i.block.height), Null)
    <3>1. GrpcAsks(r) = Asked("block", Null, AtHeight(m.height), Null)
      BY <2>2, GrpcTakes DEF m
    <3> HIDE DEF m
    <3> QED
      BY <3>1, <2>3
  <2> QED
    BY <2>4, <2>5 DEF r, Agrees
<1>3. CASE i.block.id = Null /\ i.block.height = Null /\ i.block.isSealed = TRUE
  <2> DEFINE r == grpcSend(i)
             m == Received(r)
  <2>1. httpSend(i) = Http(<<"blocks", "payload">>, Latest("sealed"), Null)
    BY <1>3 DEF httpSend, httpBlock, httpBlockAt
  <2>2. r.method = "GetLatestBlock" /\ r.message = [isSealed |-> TRUE]
    BY <1>3 DEF grpcSend, grpcBlock, grpcBlockAt, Grpc
  <2> HIDE DEF r
  <2>3. m["isSealed"] = TRUE
    <3>1. {"isSealed"} \subseteq DOMAIN r.message
      BY <2>2
    <3>2. r.message["isSealed"] = TRUE
      BY <2>2
    <3>3. m["isSealed"] = r.message["isSealed"]
      BY <2>2, <3>1, Declared, ReadsField DEF Sends
    <3> QED
      BY <3>2, <3>3
  <2>4. HttpAsks(httpSend(i)) = Asked("block", Null, Latest("sealed"), Null)
    BY <2>1, HttpTakes
  <2>5. GrpcAsks(r) = Asked("block", Null, Latest("sealed"), Null)
    <3>1. GrpcAsks(r) = Asked("block", Null, Latest(IF m.isSealed THEN "sealed" ELSE "final"), Null)
      BY <2>2, GrpcTakes DEF m
    <3> HIDE DEF m
    <3> QED
      BY <3>1, <2>3
  <2> QED
    BY <2>4, <2>5 DEF r, Agrees
<1>4. CASE i.block.id = Null /\ i.block.height = Null /\ i.block.isSealed # TRUE
  <2> DEFINE r == grpcSend(i)
             m == Received(r)
  <2>1. httpSend(i) = Http(<<"blocks", "payload">>, Latest("final"), Null)
    BY <1>4 DEF httpSend, httpBlock, httpBlockAt
  <2>2. r.method = "GetLatestBlock" /\ r.message = NoField
    BY <1>4 DEF grpcSend, grpcBlock, grpcBlockAt, Grpc
  <2> HIDE DEF r
  <2>3. ~ m["isSealed"]
    <3>1. "isSealed" \notin DOMAIN r.message
      BY <2>2 DEF NoField
    <3>2. r.method \in {"GetLatestBlock", "GetLatestBlockHeader"}
      BY <2>2
    <3> QED
      BY <3>1, <3>2, Unsealed
  <2>4. HttpAsks(httpSend(i)) = Asked("block", Null, Latest("final"), Null)
    BY <2>1, HttpTakes
  <2>5. GrpcAsks(r) = Asked("block", Null, Latest("final"), Null)
    <3>1. GrpcAsks(r) = Asked("block", Null, Latest(IF m.isSealed THEN "sealed" ELSE "final"), Null)
      BY <2>2, GrpcTakes DEF m
    <3> HIDE DEF m
    <3> QED
      BY <3>1, <2>3
  <2> QED
    BY <2>4, <2>5 DEF r, Agrees
<1> QED
  BY <1>1, <1>2, <1>3, <1>4

LEMMA GetBlockHeaderAgrees ==
  ASSUME NEW i, i.tag = "GET_BLOCK_HEADER" PROVE Agrees(i)
<1>1. CASE i.block.id # Null
  <2> DEFINE r == grpcSend(i)
             m == Received(r)
  <2>1. httpSend(i) = Http(<<"blocks">>, AtId(i.block.id), Null)
    BY <1>1 DEF httpSend, httpBlockHeader, httpBlockAt
  <2>2. r.method = "GetBlockHeaderByID" /\ r.message = [id |-> i.block.id]
    BY <1>1 DEF grpcSend, grpcBlockHeader, grpcBlockAt, Grpc
  <2> HIDE DEF r
  <2>3. m["id"] = i.block.id
    <3>1. {"id"} \subseteq DOMAIN r.message
      BY <2>2
    <3>2. r.message["id"] = i.block.id
      BY <2>2
    <3>3. m["id"] = r.message["id"]
      BY <2>2, <3>1, Declared, ReadsField DEF Sends
    <3> QED
      BY <3>2, <3>3
  <2>4. HttpAsks(httpSend(i)) = Asked("header", Null, AtId(i.block.id), Null)
    BY <2>1, HttpTakes
  <2>5. GrpcAsks(r) = Asked("header", Null, AtId(i.block.id), Null)
    <3>1. GrpcAsks(r) = Asked("header", Null, AtId(m.id), Null)
      BY <2>2, GrpcTakes DEF m
    <3> HIDE DEF m
    <3> QED
      BY <3>1, <2>3
  <2> QED
    BY <2>4, <2>5 DEF r, Agrees
<1>2. CASE i.block.id = Null /\ i.block.height # Null
  <2> DEFINE r == grpcSend(i)
             m == Received(r)
  <2>1. httpSend(i) = Http(<<"blocks">>, AtHeight(i.block.height), Null)
    BY <1>2 DEF httpSend, httpBlockHeader, httpBlockAt
  <2>2. r.method = "GetBlockHeaderByHeight" /\ r.message = [height |-> i.block.height]
    BY <1>2 DEF grpcSend, grpcBlockHeader, grpcBlockAt, Grpc
  <2> HIDE DEF r
  <2>3. m["height"] = i.block.height
    <3>1. {"height"} \subseteq DOMAIN r.message
      BY <2>2
    <3>2. r.message["height"] = i.block.height
      BY <2>2
    <3>3. m["height"] = r.message["height"]
      BY <2>2, <3>1, Declared, ReadsField DEF Sends
    <3> QED
      BY <3>2, <3>3
  <2>4. HttpAsks(httpSend(i)) = Asked("header", Null, AtHeight(i.block.height), Null)
    BY <2>1, HttpTakes
  <2>5. GrpcAsks(r) = Asked("header", Null, AtHeight(i.block.height), Null)
    <3>1. GrpcAsks(r) = Asked("header", Null, AtHeight(m.height), Null)
      BY <2>2, GrpcTakes DEF m
    <3> HIDE DEF m
    <3> QED
      BY <3>1, <2>3
  <2> QED
    BY <2>4, <2>5 DEF r, Agrees
<1>3. CASE i.block.id = Null /\ i.block.height = Null /\ i.block.isSealed = TRUE
  <2> DEFINE r == grpcSend(i)
             m == Received(r)
  <2>1. httpSend(i) = Http(<<"blocks">>, Latest("sealed"), Null)
    BY <1>3 DEF httpSend, httpBlockHeader, httpBlockAt
  <2>2. r.method = "GetLatestBlockHeader" /\ r.message = [isSealed |-> TRUE]
    BY <1>3 DEF grpcSend, grpcBlockHeader, grpcBlockAt, Grpc
  <2> HIDE DEF r
  <2>3. m["isSealed"] = TRUE
    <3>1. {"isSealed"} \subseteq DOMAIN r.message
      BY <2>2
    <3>2. r.message["isSealed"] = TRUE
      BY <2>2
    <3>3. m["isSealed"] = r.message["isSealed"]
      BY <2>2, <3>1, Declared, ReadsField DEF Sends
    <3> QED
      BY <3>2, <3>3
  <2>4. HttpAsks(httpSend(i)) = Asked("header", Null, Latest("sealed"), Null)
    BY <2>1, HttpTakes
  <2>5. GrpcAsks(r) = Asked("header", Null, Latest("sealed"), Null)
    <3>1. GrpcAsks(r) = Asked("header", Null, Latest(IF m.isSealed THEN "sealed" ELSE "final"), Null)
      BY <2>2, GrpcTakes DEF m
    <3> HIDE DEF m
    <3> QED
      BY <3>1, <2>3
  <2> QED
    BY <2>4, <2>5 DEF r, Agrees
<1>4. CASE i.block.id = Null /\ i.block.height = Null /\ i.block.isSealed # TRUE
  <2> DEFINE r == grpcSend(i)
             m == Received(r)
  <2>1. httpSend(i) = Http(<<"blocks">>, Latest("final"), Null)
    BY <1>4 DEF httpSend, httpBlockHeader, httpBlockAt
  <2>2. r.method = "GetLatestBlockHeader" /\ r.message = NoField
    BY <1>4 DEF grpcSend, grpcBlockHeader, grpcBlockAt, Grpc
  <2> HIDE DEF r
  <2>3. ~ m["isSealed"]
    <3>1. "isSealed" \notin DOMAIN r.message
      BY <2>2 DEF NoField
    <3>2. r.method \in {"GetLatestBlock", "GetLatestBlockHeader"}
      BY <2>2
    <3> QED
      BY <3>1, <3>2, Unsealed
  <2>4. HttpAsks(httpSend(i)) = Asked("header", Null, Latest("final"), Null)
    BY <2>1, HttpTakes
  <2>5. GrpcAsks(r) = Asked("header", Null, Latest("final"), Null)
    <3>1. GrpcAsks(r) = Asked("header", Null, Latest(IF m.isSealed THEN "sealed" ELSE "final"), Null)
      BY <2>2, GrpcTakes DEF m
    <3> HIDE DEF m
    <3> QED
      BY <3>1, <2>3
  <2> QED
    BY <2>4, <2>5 DEF r, Agrees
<1> QED
  BY <1>1, <1>2, <1>3, <1>4

LEMMA GetCollectionAgrees ==
  ASSUME NEW i, i.tag = "GET_COLLECTION" PROVE Agrees(i)
<1> DEFINE r == grpcSend(i)
           m == Received(r)
<1>1. httpSend(i) = Http(<<"collections", i.id>>, Nowhere, Null)
  BY DEF httpSend, httpCollection
<1>2. r.method = "GetCollectionByID" /\ r.message = [id |-> i.id]
  BY DEF grpcSend, grpcCollection, Grpc
<1> HIDE DEF r
<1>3. m["id"] = i.id
  <2>1. {"id"} \subseteq DOMAIN r.message
    BY <1>2
  <2>2. r.message["id"] = i.id
    BY <1>2
  <2>3. m["id"] = r.message["id"]
    BY <1>2, <2>1, Declared, ReadsField DEF Sends
  <2> QED
    BY <2>2, <2>3
<1>4. HttpAsks(httpSend(i)) = Asked("collections", i.id, Nowhere, Null)
  BY <1>1, HttpTakes
<1>5. GrpcAsks(r) = Asked("collections", i.id, Nowhere, Null)
  <2>1. GrpcAsks(r) = Asked("collections", m.id, Nowhere, Null)
    BY <1>2, GrpcTakes DEF m
  <2> HIDE DEF m
  <2> QED
    BY <2>1, <1>3
<1> QED
  BY <1>4, <1>5 DEF r, Agrees

LEMMA GetNetworkParametersAgrees ==
  ASSUME NEW i, i.tag = "GET_NETWORK_PARAMETERS" PROVE Agrees(i)
<1> DEFINE r == grpcSend(i)
           m == Received(r)
<1>1. httpSend(i) = Http(<<"network", "parameters">>, Nowhere, Null)
  BY DEF httpSend, httpNetworkParameters
<1>2. r.method = "GetNetworkParameters" /\ r.message = NoField
  BY DEF grpcSend, grpcNetworkParameters, Grpc
<1> HIDE DEF r
<1>4. HttpAsks(httpSend(i)) = Asked("network", Null, Nowhere, Null)
  BY <1>1, HttpTakes
<1>5. GrpcAsks(r) = Asked("network", Null, Nowhere, Null)
  <2>1. GrpcAsks(r) = Asked("network", Null, Nowhere, Null)
    BY <1>2, GrpcTakes DEF m
  <2> HIDE DEF m
  <2> QED
    BY <2>1
<1> QED
  BY <1>4, <1>5 DEF r, Agrees

LEMMA GetNodeVersionInfoAgrees ==
  ASSUME NEW i, i.tag = "GET_NODE_VERSION_INFO" PROVE Agrees(i)
<1> DEFINE r == grpcSend(i)
           m == Received(r)
<1>1. httpSend(i) = Http(<<"node_version_info">>, Nowhere, Null)
  BY DEF httpSend, httpNodeVersionInfo
<1>2. r.method = "GetNodeVersionInfo" /\ r.message = NoField
  BY DEF grpcSend, grpcNodeVersionInfo, Grpc
<1> HIDE DEF r
<1>4. HttpAsks(httpSend(i)) = Asked("node_version_info", Null, Nowhere, Null)
  BY <1>1, HttpTakes
<1>5. GrpcAsks(r) = Asked("node_version_info", Null, Nowhere, Null)
  <2>1. GrpcAsks(r) = Asked("node_version_info", Null, Nowhere, Null)
    BY <1>2, GrpcTakes DEF m
  <2> HIDE DEF m
  <2> QED
    BY <2>1
<1> QED
  BY <1>4, <1>5 DEF r, Agrees

LEMMA Agree ==
  ASSUME NEW i, i.tag \in Tags \ {"PING"} PROVE Agrees(i)
  BY TransactionAgrees,
     GetTransactionStatusAgrees,
     GetTransactionAgrees,
     ScriptAgrees,
     GetAccountAgrees,
     GetEventsAgrees,
     GetBlockAgrees,
     GetBlockHeaderAgrees,
     GetCollectionAgrees,
     GetNetworkParametersAgrees,
     GetNodeVersionInfoAgrees DEF Tags

-----------------------------------------------------------------------------
(* What an interaction asks for is settled when it is built.                *)

Tagged(i) == "tag" \in DOMAIN i /\ i.tag \in Tags

LEMMA PipeTagged ==
  ASSUME NEW c \in Calls, ~ isBad(pipe(Steps(c))) PROVE Tagged(pipe(Steps(c)))
<1> DEFINE steps == Steps(c)
           N == Len(steps)
<1>1. /\ N \in Nat /\ DOMAIN steps = 1 .. N
      /\ \A i \in 1 .. N : steps[i].op \in Makers \cup Fillers
      /\ \E i \in 1 .. N : steps[i].given /\ steps[i].op \in Makers
  BY CallsAssumption DEF CallsAssumption
<1> HIDE DEF steps, N
<1>2. PICK h : /\ h[0] = initInteraction /\ h[N] = pipe(steps)
               /\ \A k \in 0 .. N - 1 : h[k + 1] = Apply(h[k], steps[k + 1])
  BY <1>1, PipeGoes
<1> DEFINE Made(k) == \E j \in 1 .. k : steps[j].given /\ steps[j].op \in Makers
           Good(k) == \/ isBad(h[k])
                      \/ "tag" \in DOMAIN h[k] /\ (Made(k) => h[k].tag \in Tags)
<1>3. Good(0)
  <2>1. ~ Made(0)
    OBVIOUS
  <2>2. "tag" \in DOMAIN h[0]
    BY <1>2, Opens
  <2> HIDE DEF Made
  <2> QED
    BY <2>1, <2>2
<1>4. ASSUME NEW k \in 0 .. N - 1, Good(k) PROVE Good(k + 1)
  <2> DEFINE s == steps[k + 1]
  <2>1. h[k + 1] = Apply(h[k], s) /\ s.op \in Makers \cup Fillers
    BY <1>1, <1>2
  <2>2. Made(k + 1) => Made(k) \/ (s.given /\ s.op \in Makers)
    <3>1. \A j \in 1 .. k + 1 : j \in 1 .. k \/ j = k + 1
      OBVIOUS
    <3> QED
      BY <3>1
  <2> HIDE DEF Made, s
  <2>3. CASE isBad(h[k])
    BY <2>1, <2>3 DEF Apply
  <2>4. CASE ~ isBad(h[k]) /\ ~ s.given
    BY <1>4, <2>1, <2>2, <2>4 DEF Apply
  <2>5. CASE ~ isBad(h[k]) /\ s.given
    <3>1. h[k + 1] = Build(s, h[k]) /\ "tag" \in DOMAIN h[k]
      BY <1>4, <2>1, <2>5 DEF Apply
    <3>2. CASE s.op \in Makers
      BY <3>1, <3>2, MakersTag
    <3>3. CASE s.op \in Fillers \ Makers
      BY <1>4, <2>2, <2>5, <3>1, <3>3, FillersKeep
    <3> QED
      BY <2>1, <3>2, <3>3
  <2> QED
    BY <2>3, <2>4, <2>5
<1>5. \A k \in 0 .. N : Good(k)
  <2> DEFINE T == {k \in 0 .. N : ~ Good(k)}
  <2> HIDE DEF Good
  <2> SUFFICES ASSUME T # {} PROVE FALSE
    OBVIOUS
  <2>0. T \subseteq Nat
    BY <1>1
  <2>1. PICK k \in T : \A m \in T : k <= m
    BY <2>0, LeastNat
  <2>2. k \in 0 .. N /\ ~ Good(k)
    OBVIOUS
  <2> HIDE DEF T
  <2>3. k # 0 /\ k - 1 \in 0 .. N - 1 /\ k - 1 \in 0 .. N /\ (k - 1) + 1 = k /\ ~ (k <= k - 1)
    BY <1>1, <1>3, <2>2
  <2>4. Good(k - 1)
    BY <2>1, <2>3 DEF T
  <2>5. Good((k - 1) + 1)
    BY <1>4, <2>3, <2>4
  <2> QED
    BY <2>2, <2>3, <2>5
<1>6. Good(N) /\ Made(N)
  BY <1>1, <1>5
<1> HIDE DEF Made
<1> QED
  BY <1>2, <1>6 DEF Tagged, steps

TagInv ==
  /\ at = "build" => call \in Calls /\ ix = pipe(Steps(call))
  /\ at \notin {"build", "rejected"} => Tagged(ix)

LEMMA ReplacedTag ==
  ASSUME NEW i, Tagged(i), NEW t, NEW new PROVE Tagged(replaceRoles(i, t, new))
<1> DEFINE paid == [i EXCEPT !.payer = InPlaceOf(t, @, HaveRole(i, new, "payer"))]
           heads == HaveRole(i, new, "proposer")
           proposed == IF heads = << >> THEN paid ELSE [paid EXCEPT !.proposer = Head(heads)]
           all == [proposed EXCEPT
                     !.authorizations = InPlaceOf(t, @, HaveRole(i, new, "authorizer"))]
<1>1. Tagged(paid)
  BY DEF Tagged
<1>2. replaceRoles(i, t, new) = IF Len(heads) > 1 THEN paid ELSE all
  BY DEF replaceRoles
<1> HIDE DEF paid, heads
<1>3. Tagged(proposed)
  BY <1>1 DEF Tagged
<1> HIDE DEF proposed
<1>4. Tagged(all)
  BY <1>3 DEF Tagged
<1> HIDE DEF all
<1> QED
  BY <1>1, <1>2, <1>4

LEMMA ResolvedTag ==
  ASSUME NEW i, Tagged(i), NEW t PROVE Tagged(ResolveOne(i, t).ix)
<1> DEFINE f == resolveSingleAccount(i, t).ix
           found == Joined(i, Acct(i, t))
           accounts == [found.ix.accounts EXCEPT ![Place(found.ix, t)].resolve = Resolved(found.ids)]
           g == [i EXCEPT !.accounts = accounts, !.roles = found.ix.roles, !.uuids = found.ix.uuids]
<1>1. f = IF isFn(Acct(i, t).resolve) THEN g ELSE i
  BY DEF resolveSingleAccount
<1> HIDE DEF accounts, found, f
<1>2. Tagged(g)
  BY DEF Tagged
<1> HIDE DEF g
<1>3. Tagged(f)
  BY <1>1, <1>2
<1> DEFINE new == Unique(resolveSingleAccount(i, t).ids)
<1>4. ResolveOne(i, t).ix = IF isFn(Acct(i, t).resolve) THEN replaceRoles(f, t, new) ELSE i
  BY DEF ResolveOne, f
<1> HIDE DEF new
<1> QED
  BY <1>3, <1>4, ReplacedTag

LEMMA TagStarts ==
  ASSUME IxInit PROVE TagInv
  BY DEF IxInit, TagInv

LEMMA TagKept ==
  ASSUME Flow, TagInv, [IxNext]_ixvars PROVE TagInv'
<1> USE DEF TagInv
<1>1. CASE Builds
  <2>1. at = "build" /\ ix' = ix /\ at' \in {"rejected", "cadence"}
    BY <1>1 DEF Builds, Throws, Goes
  <2>2. at' = "cadence" => ~ isBad(ix)
    BY <1>1 DEF Builds, Throws
  <2> QED
    BY <2>1, <2>2, PipeTagged
<1>2. CASE resolveAccountsByIds
  <2>1. at = "accounts" /\ at' \in {"accounts", "rejected"}
    BY <1>2 DEF resolveAccountsByIds, Resolving, Throws
  <2>2. at' = "accounts" => \E t : ix' = ResolveOne(ix, t).ix
    BY <1>2 DEF resolveAccountsByIds, Throws
  <2> QED
    BY <2>1, <2>2, ResolvedTag
<1>3. CASE EndsLevel
  <2>1. at = "accounts" /\ at' \in {"accounts", "rejected", "ref"}
    BY <1>3 DEF EndsLevel, Resolving, Throws, Goes
  <2>2. ix' = ix \/ ix' = removeUnusedIxAccounts(ix)
    BY <1>3 DEF EndsLevel, Throws, Goes
  <2> QED
    BY <2>1, <2>2 DEF Tagged, removeUnusedIxAccounts
<1>4. CASE NodeAnswers
  <2>1. CASE at = "ref"
    BY <1>4, <2>1 DEF NodeAnswers, Goes, Tagged
  <2>2. CASE at = "sequence"
    BY <1>4, <2>2 DEF NodeAnswers, Goes, Throws, Tagged
  <2>3. CASE at = "send"
    BY <1>4, <2>3 DEF NodeAnswers, Goes, Tagged
  <2>4. at \in Fetching
    BY <1>4 DEF NodeAnswers, Flow, Waits
  <2> QED
    BY <2>1, <2>2, <2>3, <2>4 DEF Fetching
<1>5. CASE AsksInside \/ AsksOutside
  BY <1>5 DEF AsksInside, AsksOutside, AsksSigners, Goes, Throws
<1>6. CASE resolveCadence
  BY <1>6 DEF resolveCadence, Goes, Throws, Only, Tagged
<1>7. CASE resolveComputeLimit
  BY <1>7 DEF resolveComputeLimit, Goes, Throws, Only, Tagged
<1>8. CASE resolveArguments
  BY <1>8 DEF resolveArguments, Goes, Throws, Only, Tagged
<1>9. CASE resolveFinalNormalization
  BY <1>9 DEF resolveFinalNormalization, Goes, Throws, Only, Tagged
<1>10. CASE resolveValidators
  BY <1>10 DEF resolveValidators, Ok, Goes, Throws, Only, Tagged
<1>11. CASE resolveVoucherIntercept
  BY <1>11 DEF resolveVoucherIntercept, Goes, Throws, Only, Tagged
<1>12. CASE NoTransaction
  BY <1>12 DEF NoTransaction, Goes, Throws, Only, Tagged
<1>13. CASE AllSigned
  BY <1>13 DEF AllSigned, Goes, Throws, Only, Tagged
<1>14. CASE Signs
  BY <1>14 DEF Signs, Goes, Throws, Only, Tagged
<1>15. CASE Declines
  BY <1>15 DEF Declines, Goes, Throws, Only, Tagged
<1>16. CASE execFetchRef
  BY <1>16 DEF execFetchRef, Goes, Throws, Only, Tagged
<1>17. CASE execFetchSequenceNumber
  BY <1>17 DEF execFetchSequenceNumber, Goes, Throws, Only, Tagged
<1>18. CASE send
  BY <1>18 DEF send, Goes, Throws, Only, Tagged
<1>19. CASE NodeTakes
  BY <1>19 DEF NodeTakes, Goes, Throws, Only, Tagged
<1>20. CASE Unavailable
  BY <1>20 DEF Unavailable, Goes, Throws, Only, Tagged
<1>21. CASE Retries
  BY <1>21 DEF Retries, Goes, Throws, Only, Tagged
<1>22. CASE RequestFails
  BY <1>22 DEF RequestFails, Goes, Throws, Only, Tagged
<1>23. CASE decode
  BY <1>23 DEF decode, Goes, Throws, Only, Tagged
<1>24. CASE OthersUse
  BY <1>24 DEF OthersUse, Goes, Throws, Only, Tagged
<1>25. CASE UNCHANGED ixvars
  BY <1>25 DEF ixvars
<1> QED
  BY <1>1, <1>2, <1>3, <1>4, <1>5, <1>6, <1>7, <1>8, <1>9, <1>10, <1>11, <1>12, <1>13, <1>14, <1>15, <1>16, <1>17, <1>18, <1>19, <1>20, <1>21, <1>22, <1>23, <1>24, <1>25 DEF IxNext, Library, Program, Node

LEMMA TagShown ==
  ASSUME TagInv PROVE TransportsAgree
<1>1. ASSUME at = "send", ix.tag # "PING" PROVE HttpAsks(httpSend(ix)) = GrpcAsks(grpcSend(ix))
  <2>1. ix.tag \in Tags \ {"PING"}
    BY <1>1 DEF TagInv, Tagged
  <2> QED
    BY <2>1, Agree DEF Agrees
<1> QED
  BY <1>1 DEF TransportsAgree

\* Whatever is sent, a ping apart, asks the node for the same over HTTP and gRPC:
\* the same operation, at the same block, of the same thing, with the same body.
THEOREM TransportsSendAlike == IxSpec => []TransportsAgree
<1>1. IxInit => OneInv /\ TagInv
  BY OneStarts, TagStarts
<1>2. OneInv /\ TagInv /\ [IxNext]_ixvars => (OneInv /\ TagInv)'
  BY OneKept, TagKept DEF OneInv
<1> QED
  BY <1>1, <1>2, TagShown, PTL DEF IxSpec

-----------------------------------------------------------------------------
(* What is signed.                                                         *)

\* What the accounts and the lists of an interaction are, whatever the functions
\* of the program returned.
Fields == {"tempId", "addr", "keyId", "sequenceNum", "signature", "resolve", "role"}
IsSeq(s) == s \in Seq(ToSet(s))
Person(a, i) ==
  /\ DOMAIN a = Fields /\ a.role \in DOMAIN i.roles
  /\ isFn(a.resolve) => a.resolve.returns \in Seq(Accounts)
  /\ a.addr # Null => IsAddr(a.addr)
Formed(i) ==
  /\ DOMAIN i = DOMAIN initInteraction
  /\ IsSeq(i.accounts) /\ IsSeq(i.roles) /\ IsSeq(i.payer) /\ IsSeq(i.authorizations)
  /\ \A p, q \in DOMAIN i.accounts : i.accounts[p].tempId = i.accounts[q].tempId => p = q
  /\ \A p \in DOMAIN i.accounts : Person(i.accounts[p], i)
Listed(i) ==
  /\ ToSet(i.payer) \subseteq Ids(i) /\ ToSet(i.authorizations) \subseteq Ids(i)
  /\ i.proposer # Null => i.proposer \in Ids(i)
  /\ \A t \in ToSet(i.payer) : "payer" \in Role(i, t)
Unsigned(i) == \A p \in DOMAIN i.accounts : i.accounts[p].signature = Null
PayloadOf(i) == encodeTransactionPayload(prepForEncoding(i))
Signed(i) ==
  \A p \in DOMAIN i.accounts :
    LET a == i.accounts[p] IN
    a.signature # Null /\ a.tempId \notin ToSet(i.payer)
      => a.addr # Null /\ a.signature = [by |-> KeyOf(a), message |-> PayloadOf(i)]
Shown(i, s) ==
  /\ s.id \in Ids(i) /\ Acct(i, s.id).addr # Null
  /\ s.id \notin ToSet(i.payer) => s.signable.message = PayloadOf(i)
Before == {"build", "cadence", "limit", "arguments", "accounts", "ref", "sequence", "inside"}
After  == {"insideSigning", "outsideSigning", "normalize", "validate", "intercept", "send"}

-----------------------------------------------------------------------------
(* Folds that stay within a set.                                           *)

LEMMA Climbs ==
  ASSUME NEW N \in Nat, NEW B, 0 \in B, \A k \in 0 .. N - 1 : k \in B => k + 1 \in B
  PROVE  \A k \in 0 .. N : k \in B
<1> DEFINE T == {k \in Nat : k <= N /\ k \notin B}
<1> SUFFICES ASSUME T # {} PROVE FALSE
  OBVIOUS
<1>1. PICK k \in T : \A m \in T : k <= m
  <2>1. T \subseteq Nat
    OBVIOUS
  <2> HIDE DEF T
  <2> QED
    BY <2>1, LeastNat
<1>2. k \in Nat /\ k <= N /\ k \notin B /\ k # 0
  OBVIOUS
<1>3. k - 1 \in Nat /\ k - 1 \in 0 .. N - 1 /\ ~ (k <= k - 1)
  BY <1>2
<1>4. k - 1 \in B
  BY <1>1, <1>3
<1> QED
  BY <1>2, <1>3, <1>4

LEMMA FoldOf ==
  ASSUME NEW kind, NEW init, NEW R, NEW s \in Seq(R)
  PROVE  \E h : /\ h[0] = init /\ h[Len(s)] = Folded(kind, init, s)
                /\ \A k \in 0 .. Len(s) - 1 : h[k + 1] = Op(kind, h[k], s[k + 1])
<1> DEFINE N == Len(s)
<1>1. N \in Nat /\ DOMAIN s = 1 .. N
  OBVIOUS
<1>0. GoesThrough(kind, init, s, N)
  BY <1>1, FoldGoes
<1>2. \E h : /\ h[0] = init /\ h[N] = Folded(kind, init, s)
              /\ \A k \in 0 .. N - 1 : h[k + 1] = Op(kind, h[k], s[k + 1])
  <2> HIDE DEF N
  <2> QED
    BY <1>1, <1>0 DEF GoesThrough
<1> QED
  BY <1>2

\* What every step of a fold keeps, the fold keeps.
LEMMA FoldIn ==
  ASSUME NEW kind, NEW init, NEW R, NEW s \in Seq(R), NEW Q, init \in Q,
         \A a \in Q, x \in R : Op(kind, a, x) \in Q
  PROVE  Folded(kind, init, s) \in Q
<1> DEFINE N == Len(s)
<1>1. N \in Nat /\ DOMAIN s = 1 .. N /\ \A k \in 1 .. N : s[k] \in R
  OBVIOUS
<1>2. PICK h : /\ h[0] = init /\ h[N] = Folded(kind, init, s)
               /\ \A k \in 0 .. N - 1 : h[k + 1] = Op(kind, h[k], s[k + 1])
  BY FoldOf
<1> DEFINE B == {k \in 0 .. N : h[k] \in Q}
<1>3. 0 \in B
  BY <1>1, <1>2
<1>4. \A k \in 0 .. N - 1 : k \in B => k + 1 \in B
  <2> TAKE k \in 0 .. N - 1
  <2> HAVE k \in B
  <2>1. k + 1 \in 0 .. N /\ k + 1 \in 1 .. N /\ h[k] \in Q
    BY <1>1
  <2>2. s[k + 1] \in R
    BY <1>1, <2>1
  <2>3. h[k + 1] = Op(kind, h[k], s[k + 1])
    BY <1>2
  <2>4. h[k + 1] \in Q
    BY <2>1, <2>2, <2>3
  <2> QED
    BY <2>1, <2>4
<1>5. N \in B
  <2>1. N \in 0 .. N
    BY <1>1
  <2> HIDE DEF B, N
  <2> QED
    BY <1>1, <1>3, <1>4, <2>1, Climbs
<1> QED
  BY <1>2, <1>5

LEMMA UniqueIn ==
  ASSUME NEW R, NEW s \in Seq(R) PROVE Unique(s) \in Seq(R)
<1> DEFINE k == Kind("unique", Null, Null)
<1>1. \A a \in Seq(R), x \in R : Op(k, a, x) \in Seq(R)
  BY DEF Op, Kind
<1>2. << >> \in Seq(R)
  OBVIOUS
<1> DEFINE Q == Seq(R)
<1> HIDE DEF k, Q
<1>3. Folded(k, << >>, s) \in Q
  <2>1. \A a \in Q, x \in R : Op(k, a, x) \in Q
    BY <1>1 DEF Q
  <2>2. << >> \in Q
    BY <1>2 DEF Q
  <2> QED
    BY <2>1, <2>2, FoldIn
<1> QED
  BY <1>3, UniqueFolds DEF k, Q

LEMMA PlaceIn ==
  ASSUME NEW old, NEW S, NEW R, NEW ids \in Seq(S), NEW new \in Seq(R)
  PROVE  InPlaceOf(old, ids, new) \in Seq((S \ {old}) \cup R)
<1> DEFINE k == Kind("place", old, new)
           Q == Seq((S \ {old}) \cup R)
<1>1. new \in Q
  OBVIOUS
<1>2. \A x \in S : x # old => <<x>> \in Q
  OBVIOUS
<1>3. \A a \in Q, b \in Q : a \o b \in Q
  OBVIOUS
<1>4. \A a \in Q, x \in S : Op(k, a, x) \in Q
  <2> TAKE a \in Q, x \in S
  <2>1. Op(k, a, x) = a \o (IF x = old THEN new ELSE <<x>>)
    BY DEF Op, Kind
  <2> HIDE DEF Q
  <2> QED
    BY <1>1, <1>2, <1>3, <2>1
<1>5. << >> \in Q
  OBVIOUS
<1> HIDE DEF k, Q
<1>6. Folded(k, << >>, ids) \in Q
  BY <1>4, <1>5, FoldIn
<1> QED
  BY <1>6, PlaceFolds DEF k, Q

\* Among, by its equation.
LEMMA AmongGoes ==
  ASSUME NEW s, NEW S, NEW N \in Nat, N = Len(s)
  PROVE  \E h : /\ h[0] = << >> /\ h[N] = Among(s, S)
                /\ \A k \in 0 .. N - 1 :
                     h[k + 1] = IF s[k + 1] \in S THEN Append(h[k], s[k + 1]) ELSE h[k]
<1> DEFINE E(f, i) == IF i = 0 THEN << >>
                      ELSE IF s[i] \in S THEN Append(f[i - 1], s[i]) ELSE f[i - 1]
           G(f, n) == [i \in 0 .. n |-> E(f, i)]
<1>1. Among(s, S) = (CHOOSE f : f = G(f, N))[N]
  BY Zenon DEF Among
<1>2. \A n \in Nat : \E f : f = G(f, n)
  <2> DEFINE T == {n \in Nat : ~ \E f : f = G(f, n)}
  <2> SUFFICES ASSUME T # {} PROVE FALSE
    OBVIOUS
  <2>1. PICK n \in T : \A m \in T : n <= m
    BY LeastNat
  <2>2. n \in Nat /\ ~ \E f : f = G(f, n)
    OBVIOUS
  <2>3. CASE n = 0
    <3> DEFINE f == [i \in 0 .. 0 |-> << >>]
    <3>1. f = G(f, n)
      BY <2>3
    <3> QED
      BY <2>2, <3>1
  <2>4. CASE n # 0
    <3> DEFINE m == n - 1
    <3>1. m \in Nat /\ n = m + 1 /\ ~ (n <= m)
      BY <2>2, <2>4
    <3>2. \E f : f = G(f, m)
      <4>1. m \notin T
        <5> HIDE DEF T, m
        <5> QED
          BY <2>1, <3>1
      <4> QED
        BY <3>1, <4>1
    <3>3. PICK f : f = G(f, m)
      BY <3>2
    <3> HIDE DEF m
    <3> DEFINE g == [i \in 0 .. n |-> IF i = n THEN E(f, n) ELSE f[i]]
    <3>4. \A i \in 0 .. m : f[i] = E(f, i)
      BY <3>3
    <3>5. \A i \in 0 .. n : i # n => i \in 0 .. m
      BY <3>1
    <3>6. \A i \in 0 .. n : i # 0 => i - 1 \in 0 .. m /\ i - 1 \in 0 .. n /\ i - 1 # n
      BY <3>1
    <3>7. \A i \in 0 .. n : i # n => g[i] = f[i]
      OBVIOUS
    <3>8. n \in 0 .. n /\ g[n] = E(f, n)
      BY <3>1
    <3>9. ASSUME NEW i \in 0 .. n PROVE g[i] = E(g, i)
      <4>1. i # 0 => g[i - 1] = f[i - 1]
        BY <3>6, <3>7
      <4>2. g[i] = E(f, i)
        <5> HIDE DEF g, E
        <5> QED
          BY <3>4, <3>5, <3>7, <3>8
      <4> HIDE DEF g
      <4> QED
        BY <4>1, <4>2
    <3>10. g = G(g, n)
      <4>1. g = [i \in 0 .. n |-> g[i]]
        OBVIOUS
      <4> HIDE DEF g, E
      <4> QED
        BY <3>9, <4>1
    <3> QED
      BY <2>2, <3>10
  <2> QED
    BY <2>3, <2>4
<1> DEFINE F == CHOOSE f : f = G(f, N)
<1>3. F = G(F, N)
  BY <1>2
<1>4. Among(s, S) = F[N]
  <2> HIDE DEF G
  <2> QED
    BY <1>1
<1> HIDE DEF F
<1>5. \A i \in 0 .. N : F[i] = E(F, i)
  BY <1>3
<1>6. F[0] = << >>
  BY <1>5
<1>7. ASSUME NEW k \in 0 .. N - 1
      PROVE  F[k + 1] = IF s[k + 1] \in S THEN Append(F[k], s[k + 1]) ELSE F[k]
  <2>1. k + 1 \in 0 .. N /\ k + 1 # 0 /\ (k + 1) - 1 = k
    OBVIOUS
  <2>2. F[k + 1] = E(F, k + 1)
    BY <1>5, <2>1
  <2> QED
    BY <2>1, <2>2
<1> QED
  BY <1>4, <1>6, <1>7

LEMMA Appended ==
  ASSUME NEW R, NEW a \in Seq(R), NEW x \in R
  PROVE  /\ Append(a, x) \in Seq(R)
         /\ DOMAIN Append(a, x) = 1 .. Len(a) + 1 /\ DOMAIN a = 1 .. Len(a) /\ Len(a) \in Nat
         /\ \A p \in DOMAIN a : Append(a, x)[p] = a[p]
         /\ Append(a, x)[Len(a) + 1] = x
         /\ ToSet(Append(a, x)) = ToSet(a) \cup {x}
<1>1. /\ Append(a, x) \in Seq(R)
      /\ DOMAIN Append(a, x) = 1 .. Len(a) + 1 /\ DOMAIN a = 1 .. Len(a) /\ Len(a) \in Nat
      /\ \A p \in DOMAIN a : Append(a, x)[p] = a[p]
      /\ Append(a, x)[Len(a) + 1] = x
  OBVIOUS
<1> DEFINE b == Append(a, x)
<1>2. b = Append(a, x)
  OBVIOUS
<1> HIDE DEF b
<1>3. \A p \in DOMAIN b : p \in DOMAIN a \/ p = Len(a) + 1
  BY <1>1, <1>2
<1>4. \A p \in DOMAIN a : p \in DOMAIN b /\ b[p] = a[p]
  BY <1>1, <1>2
<1>5. Len(a) + 1 \in DOMAIN b /\ b[Len(a) + 1] = x
  BY <1>1, <1>2
<1>6. ToSet(b) = ToSet(a) \cup {x}
  <2>1. ASSUME NEW y \in ToSet(b) PROVE y \in ToSet(a) \cup {x}
    BY <1>3, <1>4, <1>5 DEF ToSet
  <2>2. ASSUME NEW y \in ToSet(a) PROVE y \in ToSet(b)
    BY <1>4 DEF ToSet
  <2>3. x \in ToSet(b)
    BY <1>5 DEF ToSet
  <2> QED
    BY <2>1, <2>2, <2>3
<1> QED
  BY <1>1, <1>2, <1>6

\* A sequence is one of its items.
LEMMA OwnItems ==
  ASSUME NEW R, NEW s \in Seq(R)
  PROVE  /\ IsSeq(s) /\ ToSet(s) \subseteq R /\ DOMAIN s = 1 .. Len(s) /\ Len(s) \in Nat
         /\ s = << >> <=> ToSet(s) = {}
<1>1. DOMAIN s = 1 .. Len(s) /\ Len(s) \in Nat /\ s = [i \in 1 .. Len(s) |-> s[i]]
  OBVIOUS
<1>2. \A i \in 1 .. Len(s) : s[i] \in ToSet(s) /\ s[i] \in R
  BY <1>1 DEF ToSet
<1>3. s \in Seq(ToSet(s))
  <2> DEFINE T == ToSet(s)
  <2>1. \A i \in 1 .. Len(s) : s[i] \in T
    BY <1>2
  <2> HIDE DEF T
  <2>2. s \in Seq(T)
    BY <1>1, <2>1
  <2> QED
    BY <2>2 DEF T
<1>4. ToSet(s) \subseteq R
  BY <1>1, <1>2 DEF ToSet
<1>5. s = << >> => ToSet(s) = {}
  BY DEF ToSet
<1>6. s # << >> => 1 \in DOMAIN s
  OBVIOUS
<1>7. s # << >> => ToSet(s) # {}
  BY <1>6 DEF ToSet
<1> QED
  BY <1>1, <1>3, <1>4, <1>5, <1>7 DEF IsSeq

LEMMA AmongIs ==
  ASSUME NEW R, NEW s \in Seq(R), NEW S
  PROVE  /\ Among(s, S) \in Seq(R) /\ ToSet(Among(s, S)) = ToSet(s) \cap S
         /\ (\A p, q \in DOMAIN s : s[p] = s[q] => p = q)
              => \A p, q \in DOMAIN Among(s, S) : Among(s, S)[p] = Among(s, S)[q] => p = q
<1> DEFINE N == Len(s)
<1>1. N \in Nat /\ DOMAIN s = 1 .. N /\ \A k \in 1 .. N : s[k] \in R
  OBVIOUS
<1>2. PICK h : /\ h[0] = << >> /\ h[N] = Among(s, S)
               /\ \A k \in 0 .. N - 1 :
                    h[k + 1] = IF s[k + 1] \in S THEN Append(h[k], s[k + 1]) ELSE h[k]
  BY <1>1, AmongGoes
<1> DEFINE Inj(t) == \A p, q \in DOMAIN t : t[p] = t[q] => p = q
           Items(k) == {s[j] : j \in 1 .. k}
           Good(k) == /\ h[k] \in Seq(R) /\ ToSet(h[k]) = Items(k) \cap S
                      /\ Inj(s) => Inj(h[k])
           B == {k \in 0 .. N : Good(k)}
<1>3. 0 \in B
  <2>1. 0 \in 0 .. N /\ Items(0) = {}
    BY <1>1
  <2>2. h[0] \in Seq(R) /\ DOMAIN h[0] = {}
    BY <1>2
  <2>3. ToSet(h[0]) = {} /\ Inj(h[0])
    BY <2>2 DEF ToSet
  <2> QED
    BY <2>1, <2>2, <2>3
<1>4. ASSUME NEW k \in 0 .. N - 1, k \in B PROVE k + 1 \in B
  <2> DEFINE x == s[k + 1]
             a == h[k]
             b == h[k + 1]
  <2>1. k \in Nat /\ k + 1 \in 0 .. N /\ k + 1 \in 1 .. N /\ x \in R
    BY <1>1
  <2>2. b = IF x \in S THEN Append(a, x) ELSE a
    BY <1>2
  <2>3. a \in Seq(R) /\ ToSet(a) = Items(k) \cap S /\ (Inj(s) => Inj(a))
    BY <1>4
  <2>4. Items(k + 1) = Items(k) \cup {x}
    <3>1. \A j \in 1 .. k + 1 : j \in 1 .. k \/ j = k + 1
      BY <2>1
    <3>2. k + 1 \in 1 .. k + 1 /\ \A j \in 1 .. k : j \in 1 .. k + 1
      BY <2>1
    <3> QED
      BY <3>1, <3>2
  <2>5. Inj(s) => x \notin Items(k)
    <3>1. \A j \in 1 .. k : j \in DOMAIN s /\ j # k + 1 /\ k + 1 \in DOMAIN s
      BY <1>1, <2>1
    <3> QED
      BY <3>1
  <2> HIDE DEF x, a, b, Items
  <2>6. CASE x \in S
    <3>1. b = Append(a, x)
      BY <2>2, <2>6
    <3>2. /\ b \in Seq(R)
          /\ DOMAIN b = 1 .. Len(a) + 1 /\ DOMAIN a = 1 .. Len(a) /\ Len(a) \in Nat
          /\ \A p \in DOMAIN a : b[p] = a[p]
          /\ b[Len(a) + 1] = x
          /\ ToSet(b) = ToSet(a) \cup {x}
      BY <2>1, <2>3, <3>1, Appended
    <3>3. \A p \in DOMAIN b : p \in DOMAIN a \/ p = Len(a) + 1
      BY <3>2
    <3>4. ToSet(b) = Items(k + 1) \cap S
      BY <2>3, <2>4, <2>6, <3>2
    <3>5. ASSUME Inj(s) PROVE Inj(b)
      <4>1. x \notin ToSet(a)
        BY <2>3, <2>5, <3>5
      <4>2. \A p \in DOMAIN a : a[p] # x
        BY <4>1 DEF ToSet
      <4> TAKE p, q \in DOMAIN b
      <4> HAVE b[p] = b[q]
      <4>3. CASE p \in DOMAIN a /\ q \in DOMAIN a
        BY <2>3, <3>2, <3>5, <4>3
      <4>4. CASE p \in DOMAIN a /\ q = Len(a) + 1
        BY <3>2, <4>2, <4>4
      <4>5. CASE p = Len(a) + 1 /\ q \in DOMAIN a
        BY <3>2, <4>2, <4>5
      <4> QED
        BY <3>3, <4>3, <4>4, <4>5
    <3>6. Good(k + 1)
      BY <3>2, <3>4, <3>5 DEF b
    <3> QED
      BY <2>1, <3>6
  <2>7. CASE x \notin S
    <3>1. b = a
      BY <2>2, <2>7
    <3>2. ToSet(b) = Items(k + 1) \cap S
      BY <2>3, <2>4, <2>7, <3>1
    <3>3. Good(k + 1)
      BY <2>3, <3>1, <3>2 DEF b
    <3> QED
      BY <2>1, <3>3
  <2> QED
    BY <2>6, <2>7
<1>5. N \in B
  <2>1. N \in 0 .. N
    BY <1>1
  <2> HIDE DEF B, N
  <2> QED
    BY <1>1, <1>3, <1>4, <2>1, Climbs
<1>6. Items(N) = ToSet(s)
  BY <1>1 DEF ToSet
<1>7. Good(N)
  BY <1>5
<1> QED
  BY <1>2, <1>6, <1>7

-----------------------------------------------------------------------------
(* Interactions with their accounts.                                       *)

IxFields ==
  {"tag", "status", "accounts", "roles", "uuids", "proposer", "payer", "authorizations", "template",
   "cadence", "refBlock", "computeLimit", "arguments", "events", "block", "id", "validators", "intercept"}
LEMMA IxShape == DOMAIN initInteraction = IxFields
BY DEF initInteraction, IxFields

\* Accounts and roles are only added to.
Grows(i, j) ==
  /\ \A p \in DOMAIN i.accounts :
       /\ p \in DOMAIN j.accounts
       /\ j.accounts[p].tempId = i.accounts[p].tempId /\ j.accounts[p].role = i.accounts[p].role
  /\ \A c \in DOMAIN i.roles : c \in DOMAIN j.roles /\ i.roles[c] \subseteq j.roles[c]

LEMMA Placed ==
  ASSUME NEW i, \A p, q \in DOMAIN i.accounts : i.accounts[p].tempId = i.accounts[q].tempId => p = q
  PROVE  /\ \A p \in DOMAIN i.accounts :
              /\ i.accounts[p].tempId \in Ids(i) /\ Place(i, i.accounts[p].tempId) = p
         /\ \A t \in Ids(i) : Place(i, t) \in DOMAIN i.accounts /\ i.accounts[Place(i, t)].tempId = t
<1>1. \A t \in Ids(i) : Place(i, t) \in DOMAIN i.accounts /\ i.accounts[Place(i, t)].tempId = t
  BY DEF Ids, Place
<1>2. \A p \in DOMAIN i.accounts : i.accounts[p].tempId \in Ids(i)
  BY DEF Ids
<1>3. \A p \in DOMAIN i.accounts : Place(i, i.accounts[p].tempId) = p
  BY <1>1, <1>2
<1> QED
  BY <1>1, <1>2, <1>3

LEMMA FormedParts ==
  ASSUME NEW i, Formed(i)
  PROVE  /\ DOMAIN i = IxFields
         /\ \A p, q \in DOMAIN i.accounts : i.accounts[p].tempId = i.accounts[q].tempId => p = q
         /\ IsSeq(i.accounts) /\ IsSeq(i.roles) /\ IsSeq(i.payer) /\ IsSeq(i.authorizations)
         /\ \A p \in DOMAIN i.accounts : Person(i.accounts[p], i)
         /\ \A p \in DOMAIN i.accounts :
              /\ i.accounts[p].tempId \in Ids(i) /\ Place(i, i.accounts[p].tempId) = p
         /\ \A t \in Ids(i) : Place(i, t) \in DOMAIN i.accounts /\ i.accounts[Place(i, t)].tempId = t
BY Placed, IxShape DEF Formed

LEMMA RolesGrow ==
  ASSUME NEW i, NEW j, Formed(i), Formed(j), Grows(i, j)
  PROVE  Ids(i) \subseteq Ids(j) /\ \A t \in Ids(i) : Role(i, t) \subseteq Role(j, t)
<1>1. ASSUME NEW t \in Ids(i) PROVE t \in Ids(j) /\ Role(i, t) \subseteq Role(j, t)
  <2> DEFINE p == Place(i, t)
  <2>1. p \in DOMAIN i.accounts /\ i.accounts[p].tempId = t /\ Person(i.accounts[p], i)
    BY <1>1, FormedParts
  <2> HIDE DEF p
  <2>2. p \in DOMAIN j.accounts /\ j.accounts[p].tempId = t /\ j.accounts[p].role = i.accounts[p].role
    BY <2>1 DEF Grows
  <2>3. t \in Ids(j) /\ Place(j, t) = p
    BY <2>2, FormedParts
  <2>4. i.accounts[p].role \in DOMAIN i.roles
    BY <2>1 DEF Person
  <2>5. Role(i, t) = i.roles[i.accounts[p].role] /\ Role(j, t) = j.roles[i.accounts[p].role]
    BY <2>2, <2>3 DEF Role, Acct, p
  <2> QED
    BY <2>3, <2>4, <2>5 DEF Grows
<1> QED
  BY <1>1

LEMMA GrowsOn ==
  ASSUME NEW i, NEW j, NEW k, Grows(i, j), Grows(j, k) PROVE Grows(i, k)
<1>1. ASSUME NEW p \in DOMAIN i.accounts
      PROVE  /\ p \in DOMAIN k.accounts
             /\ k.accounts[p].tempId = i.accounts[p].tempId /\ k.accounts[p].role = i.accounts[p].role
  BY DEF Grows
<1>2. ASSUME NEW c \in DOMAIN i.roles PROVE c \in DOMAIN k.roles /\ i.roles[c] \subseteq k.roles[c]
  BY DEF Grows
<1> QED
  BY <1>1, <1>2 DEF Grows

LEMMA GrowsSame == ASSUME NEW i PROVE Grows(i, i)
BY DEF Grows

\* A sequence made longer by one.
LEMMA Longer ==
  ASSUME NEW s, IsSeq(s), NEW x
  PROVE  LET b == Append(s, x) IN
         /\ IsSeq(b) /\ DOMAIN s = 1 .. Len(s) /\ Len(s) \in Nat /\ DOMAIN b = 1 .. Len(s) + 1
         /\ \A p \in DOMAIN s : p \in DOMAIN b /\ b[p] = s[p]
         /\ b[Len(s) + 1] = x /\ \A p \in DOMAIN b : p \in DOMAIN s \/ p = Len(s) + 1
         /\ ToSet(b) = ToSet(s) \cup {x}
<1> DEFINE R == ToSet(s) \cup {x}
           b == Append(s, x)
<1>1. s \in Seq(R) /\ x \in R
  <2> DEFINE T == ToSet(s)
  <2>1. s \in Seq(T)
    BY DEF IsSeq
  <2> HIDE DEF T
  <2>2. s \in Seq(T \cup {x})
    BY <2>1
  <2> QED
    BY <2>2 DEF T
<1> HIDE DEF R, b
<1>2. /\ b \in Seq(R)
      /\ DOMAIN b = 1 .. Len(s) + 1 /\ DOMAIN s = 1 .. Len(s) /\ Len(s) \in Nat
      /\ \A p \in DOMAIN s : b[p] = s[p]
      /\ b[Len(s) + 1] = x
      /\ ToSet(b) = ToSet(s) \cup {x}
  BY <1>1, Appended DEF b
<1>3. IsSeq(b)
  BY <1>2, OwnItems
<1>4. (\A p \in DOMAIN s : p \in DOMAIN b) /\ \A p \in DOMAIN b : p \in DOMAIN s \/ p = Len(s) + 1
  BY <1>2
<1> QED
  BY <1>2, <1>3, <1>4 DEF b

\* A sequence with one item changed.
LEMMA Changed ==
  ASSUME NEW s, IsSeq(s), NEW c, NEW x
  PROVE  LET b == [s EXCEPT ![c] = x] IN
         /\ IsSeq(b) /\ DOMAIN b = DOMAIN s
         /\ c \in DOMAIN s => b[c] = x
         /\ \A p \in DOMAIN s : p # c => b[p] = s[p]
<1> DEFINE R == ToSet(s) \cup {x}
           b == [s EXCEPT ![c] = x]
<1>1. s \in Seq(R)
  <2> DEFINE T == ToSet(s)
  <2>1. s \in Seq(T)
    BY DEF IsSeq
  <2> HIDE DEF T
  <2>2. s \in Seq(T \cup {x})
    BY <2>1
  <2> QED
    BY <2>2 DEF T
<1>2. x \in R
  OBVIOUS
<1> HIDE DEF R
<1>3. b \in Seq(R) /\ DOMAIN b = DOMAIN s /\ (c \in DOMAIN s => b[c] = x)
      /\ \A p \in DOMAIN s : p # c => b[p] = s[p]
  <2>1. DOMAIN s = 1 .. Len(s) /\ Len(s) \in Nat /\ \A p \in DOMAIN s : s[p] \in R
    BY <1>1
  <2>2. b = [p \in DOMAIN s |-> IF p = c THEN x ELSE s[p]]
    OBVIOUS
  <2>3. DOMAIN b = DOMAIN s /\ b = [p \in DOMAIN s |-> b[p]]
    OBVIOUS
  <2>4. (c \in DOMAIN s => b[c] = x) /\ \A p \in DOMAIN s : p # c => b[p] = s[p]
    OBVIOUS
  <2> HIDE DEF b
  <2>5. \A p \in 1 .. Len(s) : b[p] \in R
    BY <1>2, <2>1, <2>2
  <2>6. b \in Seq(R)
    BY <2>1, <2>3, <2>5
  <2> QED
    BY <2>3, <2>4, <2>6
<1> HIDE DEF b
<1>4. IsSeq(b)
  BY <1>3, OwnItems
<1> QED
  BY <1>3, <1>4 DEF b

-----------------------------------------------------------------------------
(* Accounts that functions return join the interaction.                    *)

\* An interaction with other accounts and roles, its lists as they were.
LEMMA Reformed ==
  ASSUME NEW i, Formed(i), NEW j, DOMAIN j = DOMAIN i, j.payer = i.payer, j.authorizations = i.authorizations,
         IsSeq(j.accounts), IsSeq(j.roles),
         \A p, q \in DOMAIN j.accounts : j.accounts[p].tempId = j.accounts[q].tempId => p = q,
         \A p \in DOMAIN j.accounts : Person(j.accounts[p], j)
  PROVE  Formed(j)
BY DEF Formed

LEMMA Relisted ==
  ASSUME NEW i, NEW j, Formed(i), Listed(i), Formed(j), Grows(i, j),
         j.payer = i.payer, j.authorizations = i.authorizations, j.proposer = i.proposer
  PROVE  Listed(j)
<1>1. Ids(i) \subseteq Ids(j) /\ \A t \in Ids(i) : Role(i, t) \subseteq Role(j, t)
  BY RolesGrow
<1> QED
  BY <1>1 DEF Listed

\* A role object more, or one with more in it.
LEMMA MoreRoles ==
  ASSUME NEW i, Formed(i), Unsigned(i), NEW rs, IsSeq(rs),
         \A c \in DOMAIN i.roles : c \in DOMAIN rs /\ i.roles[c] \subseteq rs[c]
  PROVE  LET j == [i EXCEPT !.roles = rs] IN
         Formed(j) /\ Unsigned(j) /\ Grows(i, j) /\ DOMAIN j.roles = DOMAIN rs /\ Ids(j) = Ids(i)
<1> DEFINE j == [i EXCEPT !.roles = rs]
<1>1. DOMAIN i = IxFields
  BY FormedParts
<1>2. /\ DOMAIN j = DOMAIN i /\ j.accounts = i.accounts /\ j.roles = rs
      /\ j.payer = i.payer /\ j.authorizations = i.authorizations
  BY <1>1 DEF IxFields
<1> HIDE DEF j
<1>3. \A p \in DOMAIN j.accounts : Person(j.accounts[p], j)
  BY <1>2, FormedParts DEF Person
<1>4. Formed(j)
  BY <1>2, <1>3, FormedParts, Reformed
<1>5. Unsigned(j) /\ Grows(i, j) /\ Ids(j) = Ids(i)
  BY <1>2 DEF Unsigned, Grows, Ids
<1> QED
  BY <1>2, <1>4, <1>5 DEF j

\* One account more, under an id that is new.
LEMMA OneMore ==
  ASSUME NEW i, Formed(i), Unsigned(i), NEW a, Person(a, i), a.signature = Null, a.tempId \notin Ids(i), NEW j,
         DOMAIN j = DOMAIN i, j.accounts = Append(i.accounts, a), j.roles = i.roles,
         j.payer = i.payer, j.authorizations = i.authorizations
  PROVE  /\ Formed(j) /\ Unsigned(j) /\ Grows(i, j) /\ Ids(j) = Ids(i) \cup {a.tempId}
<1> DEFINE s == i.accounts
           b == Append(s, a)
<1>1. DOMAIN i = IxFields /\ IsSeq(s)
  BY FormedParts
<1>2. /\ DOMAIN j = DOMAIN i /\ j.accounts = b /\ j.roles = i.roles
      /\ j.payer = i.payer /\ j.authorizations = i.authorizations
  OBVIOUS
<1>3. /\ IsSeq(b) /\ DOMAIN b = 1 .. Len(s) + 1 /\ DOMAIN s = 1 .. Len(s) /\ Len(s) \in Nat
      /\ \A p \in DOMAIN s : p \in DOMAIN b /\ b[p] = s[p]
      /\ b[Len(s) + 1] = a /\ \A p \in DOMAIN b : p \in DOMAIN s \/ p = Len(s) + 1
  BY <1>1, Longer
<1>4. \A p \in DOMAIN s : s[p].tempId # a.tempId
  BY DEF Ids
<1>5. \A p \in DOMAIN s : Person(s[p], i) /\ s[p].signature = Null
  BY FormedParts DEF Unsigned
<1>6. \A p, q \in DOMAIN s : s[p].tempId = s[q].tempId => p = q
  BY FormedParts
<1> HIDE DEF b, s
<1>7. \A p, q \in DOMAIN b : b[p].tempId = b[q].tempId => p = q
  <2> TAKE p, q \in DOMAIN b
  <2> HAVE b[p].tempId = b[q].tempId
  <2>1. CASE p \in DOMAIN s /\ q \in DOMAIN s
    BY <1>3, <1>6, <2>1
  <2>2. CASE p \in DOMAIN s /\ q = Len(s) + 1
    BY <1>3, <1>4, <2>2
  <2>3. CASE p = Len(s) + 1 /\ q \in DOMAIN s
    BY <1>3, <1>4, <2>3
  <2> QED
    BY <1>3, <2>1, <2>2, <2>3
<1>8. \A p \in DOMAIN b : Person(b[p], j) /\ b[p].signature = Null
  <2>1. \A x : Person(x, i) => Person(x, j)
    BY <1>2 DEF Person
  <2>2. \A p \in DOMAIN s : Person(b[p], j) /\ b[p].signature = Null
    BY <1>3, <1>5, <2>1
  <2>3. Person(a, j) /\ a.signature = Null
    BY <2>1
  <2> HIDE DEF b
  <2> QED
    BY <1>3, <2>2, <2>3
<1>9. Formed(j)
  <2>1. IsSeq(j.accounts) /\ IsSeq(j.roles)
    BY <1>2, <1>3, FormedParts
  <2>2. \A p, q \in DOMAIN j.accounts : j.accounts[p].tempId = j.accounts[q].tempId => p = q
    BY <1>2, <1>7
  <2>3. \A p \in DOMAIN j.accounts : Person(j.accounts[p], j)
    BY <1>2, <1>8
  <2>4. /\ DOMAIN j = DOMAIN initInteraction
        /\ IsSeq(j.payer) /\ IsSeq(j.authorizations)
    BY <1>1, <1>2, FormedParts, IxShape
  <2> QED
    BY <2>1, <2>2, <2>3, <2>4 DEF Formed
<1>10. Unsigned(j) /\ Grows(i, j)
  BY <1>2, <1>3, <1>8 DEF Unsigned, Grows, s
<1>11. Ids(j) = Ids(i) \cup {a.tempId}
  <2> DEFINE I == Ids(i)
  <2>0. I = {s[p].tempId : p \in DOMAIN s}
    BY DEF Ids, s
  <2> HIDE DEF I
  <2>1. \A p \in DOMAIN b : b[p].tempId \in I \cup {a.tempId}
    BY <1>3, <2>0
  <2>2. \A t \in I : \E p \in DOMAIN b : b[p].tempId = t
    BY <1>3, <2>0
  <2>3. Len(s) + 1 \in DOMAIN b /\ b[Len(s) + 1].tempId = a.tempId
    BY <1>3
  <2>4. Ids(j) = {b[p].tempId : p \in DOMAIN b}
    BY <1>2 DEF Ids
  <2>5. Ids(j) = I \cup {a.tempId}
    BY <2>1, <2>2, <2>3, <2>4
  <2> QED
    BY <2>5 DEF I
<1> QED
  BY <1>2, <1>9, <1>10, <1>11

\* What addAccountToIx makes of an account.
LEMMA AddedAccount ==
  ASSUME NEW i, Formed(i), Unsigned(i), NEW a, Person(a, i), a.signature = Null
  PROVE  LET j == addAccountToIx(i, a) IN
         Formed(j) /\ Unsigned(j) /\ Grows(i, j) /\ TempId(i, a) \in Ids(j)
<1> DEFINE t == TempId(i, a)
           b == [a EXCEPT !.tempId = t]
           more == [i EXCEPT !.accounts = Append(@, b), !.uuids = @ + 1]
           known == IF t \in Ids(i) THEN i ELSE more
           c == Acct(known, t).role
           rs == [known.roles EXCEPT ![c] = @ \cup i.roles[a.role]]
           j == [known EXCEPT !.roles = rs]
<1>1. Formed(known) /\ Unsigned(known) /\ Grows(i, known) /\ t \in Ids(known)
  <2>1. CASE t \in Ids(i)
    BY <2>1, GrowsSame
  <2>2. CASE t \notin Ids(i)
    <3>1. Person(b, i) /\ b.signature = Null /\ b.tempId = t
      BY DEF Person, Fields
    <3>2. /\ DOMAIN more = DOMAIN i /\ more.accounts = Append(i.accounts, b) /\ more.roles = i.roles
          /\ more.payer = i.payer /\ more.authorizations = i.authorizations
      BY FormedParts DEF IxFields
    <3> HIDE DEF b, more, t
    <3>3. b.tempId \notin Ids(i)
      BY <2>2, <3>1
    <3>4. Formed(more) /\ Unsigned(more) /\ Grows(i, more) /\ Ids(more) = Ids(i) \cup {b.tempId}
      BY <3>1, <3>2, <3>3, OneMore
    <3> QED
      BY <2>2, <3>1, <3>4
  <2> QED
    BY <2>1, <2>2
<1>2. addAccountToIx(i, a) = j
  <2>1. addAccountToIx(i, a) = [known EXCEPT !.roles[c] = @ \cup i.roles[a.role]]
    BY DEF addAccountToIx
  <2> HIDE DEF known, c
  <2>2. [known EXCEPT !.roles[c] = @ \cup i.roles[a.role]] = j
    OBVIOUS
  <2> QED
    BY <2>1, <2>2
<1> HIDE DEF known, c
<1>3. IsSeq(known.roles)
  BY <1>1, FormedParts
<1>4. /\ IsSeq(rs) /\ \A d \in DOMAIN known.roles : d \in DOMAIN rs /\ known.roles[d] \subseteq rs[d]
  <2> DEFINE s == known.roles
             x == s[c] \cup i.roles[a.role]
  <2>1. rs = [s EXCEPT ![c] = x]
    OBVIOUS
  <2> HIDE DEF x, s, rs
  <2>2. IsSeq(rs) /\ DOMAIN rs = DOMAIN s /\ (c \in DOMAIN s => rs[c] = x)
        /\ \A d \in DOMAIN s : d # c => rs[d] = s[d]
    BY <1>3, <2>1, Changed DEF s
  <2>3. \A d \in DOMAIN s : d \in DOMAIN rs /\ s[d] \subseteq rs[d]
    BY <2>2 DEF x
  <2> QED
    BY <2>2, <2>3 DEF s
<1> HIDE DEF rs
<1>5. Formed(j) /\ Unsigned(j) /\ Grows(known, j) /\ Ids(j) = Ids(known)
  BY <1>1, <1>4, MoreRoles
<1> HIDE DEF j
<1>6. Grows(i, j)
  BY <1>1, <1>5, GrowsOn
<1> QED
  BY <1>1, <1>2, <1>5, <1>6

\* One account that a function returned joins the others.
LEMMA JoinedOne ==
  ASSUME NEW i, Formed(i), Unsigned(i), NEW from, from.role \in DOMAIN i.roles,
         NEW was, was.ix = i, was.ids \in Seq(Ids(i)), NEW r \in Accounts
  PROVE  LET now == Join(from, was, r) IN
         /\ Formed(now.ix) /\ Unsigned(now.ix) /\ Grows(i, now.ix)
         /\ now.ids \in Seq(Ids(now.ix))
<1> DEFINE i0 == WithRole(i, r)
           a == Returned(i0, from, r)
           j == addAccountToIx(i0, a)
           t == TempId(i0, a)
<1>1. Join(from, was, r) = [ix |-> j, ids |-> Append(was.ids, t)]
  BY DEF Join
<1>2. /\ Formed(i0) /\ Unsigned(i0) /\ Grows(i, i0) /\ from.role \in DOMAIN i0.roles
      /\ r.role # Null => Len(i0.roles) \in DOMAIN i0.roles
  <2>1. CASE r.role = Null
    BY <2>1, GrowsSame DEF WithRole
  <2>2. CASE r.role # Null
    <3> DEFINE s == i.roles
               rs == Append(s, r.role)
    <3>1. IsSeq(s)
      BY FormedParts
    <3>2. /\ IsSeq(rs) /\ Len(s) \in Nat /\ DOMAIN rs = 1 .. Len(s) + 1 /\ \A c \in DOMAIN s : c \in DOMAIN rs /\ rs[c] = s[c]
      BY <3>1, Longer
    <3>3. i0 = [i EXCEPT !.roles = rs]
      BY <2>2 DEF WithRole
    <3> HIDE DEF rs
    <3>4. Formed(i0) /\ Unsigned(i0) /\ Grows(i, i0) /\ DOMAIN i0.roles = DOMAIN rs
      BY <3>2, <3>3, MoreRoles
    <3>5. IsSeq(i0.roles)
      BY <3>4, FormedParts
    <3>6. i0.roles \in Seq(ToSet(i0.roles))
      BY <3>5 DEF IsSeq
    <3>7. DOMAIN i0.roles = 1 .. Len(i0.roles) /\ Len(i0.roles) \in Nat
      BY <3>6
    <3>8. Len(i0.roles) \in DOMAIN i0.roles
      BY <3>2, <3>4, <3>7
    <3> QED
      BY <3>2, <3>4, <3>8
  <2> QED
    BY <2>1, <2>2
<1>3. Person(a, i0) /\ a.signature = Null
  <2> HIDE DEF i0
  <2>1. (isFn(r.resolve) => r.resolve.returns \in Seq(Accounts)) /\ (r.addr # Null => IsAddr(r.addr))
    BY AccountsAssumption DEF AccountsAssumption
  <2>2. /\ DOMAIN a = Fields /\ a.addr = r.addr /\ a.resolve = r.resolve /\ a.signature = Null
        /\ a.role = IF r.role = Null THEN from.role ELSE Len(i0.roles)
    BY DEF Returned, Fields
  <2>3. a.role \in DOMAIN i0.roles
    BY <1>2, <2>2
  <2> HIDE DEF a
  <2> QED
    BY <2>1, <2>2, <2>3 DEF Person
<1> HIDE DEF i0, a
<1>4. Formed(j) /\ Unsigned(j) /\ Grows(i0, j) /\ t \in Ids(j)
  BY <1>2, <1>3, AddedAccount
<1> HIDE DEF j, t
<1>5. Grows(i, j)
  BY <1>2, <1>4, GrowsOn
<1>6. Ids(i) \subseteq Ids(j)
  BY <1>4, <1>5, RolesGrow
<1>7. Append(was.ids, t) \in Seq(Ids(j))
  <2> DEFINE A == Ids(i)
             B == Ids(j)
  <2>1. was.ids \in Seq(A) /\ A \subseteq B /\ t \in B
    BY <1>4, <1>6
  <2> HIDE DEF A, B
  <2>2. was.ids \in Seq(B)
    BY <2>1
  <2>3. Append(was.ids, t) \in Seq(B)
    BY <2>1, <2>2
  <2> QED
    BY <2>3 DEF B
<1> QED
  BY <1>1, <1>4, <1>5, <1>7

\* The accounts in their places, something else about them changed.
LEMMA Touched ==
  ASSUME NEW i, Formed(i), NEW j, DOMAIN j = DOMAIN i, j.roles = i.roles,
         j.payer = i.payer, j.authorizations = i.authorizations,
         IsSeq(j.accounts), DOMAIN j.accounts = DOMAIN i.accounts,
         \A p \in DOMAIN i.accounts : /\ Person(j.accounts[p], i)
                                      /\ j.accounts[p].tempId = i.accounts[p].tempId
                                      /\ j.accounts[p].role = i.accounts[p].role
  PROVE  Formed(j) /\ Grows(i, j) /\ Ids(j) = Ids(i)
<1>1. \A x : Person(x, i) => Person(x, j)
  BY DEF Person
<1>2. \A p \in DOMAIN j.accounts : Person(j.accounts[p], j)
  BY <1>1
<1>3. \A p, q \in DOMAIN j.accounts : j.accounts[p].tempId = j.accounts[q].tempId => p = q
  BY FormedParts
<1>4. IsSeq(j.roles) /\ DOMAIN j = DOMAIN initInteraction /\ IsSeq(j.payer) /\ IsSeq(j.authorizations)
  BY FormedParts, IxShape
<1>5. Formed(j)
  BY <1>2, <1>3, <1>4 DEF Formed
<1>6. Grows(i, j)
  BY DEF Grows
<1>7. Ids(j) = Ids(i)
  <2>1. \A p \in DOMAIN i.accounts : j.accounts[p].tempId = i.accounts[p].tempId
    OBVIOUS
  <2> QED
    BY <2>1 DEF Ids
<1> QED
  BY <1>5, <1>6, <1>7

\* All that a function returned.
LEMMA JoinedAll ==
  ASSUME NEW i, Formed(i), Unsigned(i), NEW from, from.role \in DOMAIN i.roles,
         from.resolve.returns \in Seq(Accounts)
  PROVE  LET found == Joined(i, from) IN
         /\ Formed(found.ix) /\ Unsigned(found.ix) /\ Grows(i, found.ix)
         /\ found.ids \in Seq(Ids(found.ix))
<1> DEFINE s == from.resolve.returns
           kind == Kind("join", from, Null)
           init == [ix |-> i, ids |-> << >>]
           N == Len(s)
<1>1. N \in Nat /\ \A k \in 1 .. N : s[k] \in Accounts
  OBVIOUS
<1>2. \A a, r : Op(kind, a, r) = Join(from, a, r)
  BY DEF Op, Kind
<1>3. Joined(i, from) = Folded(kind, init, s)
  BY JoinFolds
<1> HIDE DEF kind, init
<1>4. PICK h : /\ h[0] = init /\ h[N] = Folded(kind, init, s)
               /\ \A k \in 0 .. N - 1 : h[k + 1] = Op(kind, h[k], s[k + 1])
  BY FoldOf
<1> DEFINE Good(x) == /\ Formed(x.ix) /\ Unsigned(x.ix) /\ Grows(i, x.ix)
                      /\ x.ids \in Seq(Ids(x.ix))
           B == {k \in 0 .. N : Good(h[k])}
<1>5. 0 \in B
  <2>1. h[0].ix = i /\ h[0].ids = << >>
    BY <1>4 DEF init
  <2>2. << >> \in Seq(Ids(i))
    OBVIOUS
  <2>3. Good(h[0])
    BY <2>1, <2>2, GrowsSame
  <2>4. 0 \in 0 .. N
    BY <1>1
  <2> HIDE DEF Good, N
  <2> QED
    BY <2>3, <2>4
<1>6. ASSUME NEW k \in 0 .. N - 1, k \in B PROVE k + 1 \in B
  <2>1. k + 1 \in 0 .. N /\ k + 1 \in 1 .. N
    BY <1>1
  <2> DEFINE a == h[k]
             b == h[k + 1]
             r == s[k + 1]
  <2>2. b = Join(from, a, r) /\ r \in Accounts
    BY <1>1, <1>2, <1>4, <2>1
  <2>3. Good(a)
    BY <1>6
  <2> HIDE DEF a, b, r
  <2>4. from.role \in DOMAIN a.ix.roles
    BY <2>3 DEF Grows
  <2>5. /\ Formed(b.ix) /\ Unsigned(b.ix) /\ Grows(a.ix, b.ix) /\ b.ids \in Seq(Ids(b.ix))
    BY <2>2, <2>3, <2>4, JoinedOne
  <2>6. Grows(i, b.ix)
    BY <2>3, <2>5, GrowsOn
  <2>7. Good(b)
    BY <2>5, <2>6
  <2> HIDE DEF Good, N
  <2> QED
    BY <2>1, <2>7 DEF b
<1>7. N \in B
  <2>1. N \in 0 .. N
    BY <1>1
  <2> HIDE DEF B, N
  <2> QED
    BY <1>1, <1>5, <1>6, <2>1, Climbs
<1>8. Good(h[N])
  BY <1>7
<1> QED
  BY <1>3, <1>4, <1>8

LEMMA Apart ==
  ASSUME NEW i, Formed(i), NEW t \in Ids(i)
  PROVE  /\ Person(Acct(i, t), i) /\ Acct(i, t) = i.accounts[Place(i, t)]
         /\ Place(i, t) \in DOMAIN i.accounts /\ Acct(i, t).tempId = t
BY FormedParts DEF Acct

\* What resolveSingleAccount makes of an account.
LEMMA ResolvedSingle ==
  ASSUME NEW i, Formed(i), Unsigned(i), Listed(i), NEW t \in Ids(i)
  PROVE  LET res == resolveSingleAccount(i, t) IN
         /\ Formed(res.ix) /\ Unsigned(res.ix) /\ Listed(res.ix) /\ Grows(i, res.ix)
         /\ res.ids \in Seq(Ids(res.ix))
<1> DEFINE from == Acct(i, t)
           res == resolveSingleAccount(i, t)
<1>1. Person(from, i)
  BY Apart
<1>2. CASE ~ isFn(from.resolve)
  <2>1. res = [ix |-> i, ids |-> << >>]
    BY <1>2 DEF resolveSingleAccount
  <2>2. << >> \in Seq(Ids(i))
    OBVIOUS
  <2> QED
    BY <2>1, <2>2, GrowsSame
<1>3. CASE isFn(from.resolve)
  <2> DEFINE found == Joined(i, from)
             f == found.ix
             q == Place(f, t)
             x == [f.accounts[q] EXCEPT !.resolve = Resolved(found.ids)]
             as == [f.accounts EXCEPT ![q] = x]
             j == [i EXCEPT !.accounts = as, !.roles = f.roles, !.uuids = f.uuids]
  <2>1. res = [ix |-> j, ids |-> found.ids]
    BY <1>3 DEF resolveSingleAccount
  <2>2. from.role \in DOMAIN i.roles /\ from.resolve.returns \in Seq(Accounts)
    BY <1>1, <1>3 DEF Person
  <2> HIDE DEF from
  <2>3. /\ Formed(f) /\ Unsigned(f) /\ Grows(i, f) /\ found.ids \in Seq(Ids(f))
    BY <2>2, JoinedAll
  <2>4. t \in Ids(f)
    BY <2>3, RolesGrow
  <2>5. q \in DOMAIN f.accounts /\ Person(f.accounts[q], f) /\ f.accounts[q].signature = Null
    BY <2>3, <2>4, Apart DEF Unsigned
  <2>6. /\ DOMAIN j = DOMAIN i /\ j.accounts = as /\ j.roles = f.roles
        /\ j.payer = i.payer /\ j.authorizations = i.authorizations /\ j.proposer = i.proposer
    BY FormedParts DEF IxFields
  <2> HIDE DEF found, q, j
  <2>7. /\ Person(x, f) /\ x.signature = Null
        /\ x.tempId = f.accounts[q].tempId /\ x.role = f.accounts[q].role
    BY <2>5 DEF Person, Fields, Resolved, isFn
  <2> HIDE DEF x
  <2>8. /\ IsSeq(as) /\ DOMAIN as = DOMAIN f.accounts /\ as[q] = x
        /\ \A p \in DOMAIN f.accounts : p # q => as[p] = f.accounts[p]
    <3>1. IsSeq(f.accounts)
      BY <2>3, FormedParts
    <3> QED
      BY <2>5, <3>1, Changed
  <2> HIDE DEF as
  <2>9. \A p \in DOMAIN f.accounts :
          /\ Person(as[p], f) /\ as[p].tempId = f.accounts[p].tempId /\ as[p].role = f.accounts[p].role
          /\ as[p].signature = Null
    <3> TAKE p \in DOMAIN f.accounts
    <3>1. Person(f.accounts[p], f) /\ f.accounts[p].signature = Null
      BY <2>3, FormedParts DEF Unsigned
    <3>2. CASE p = q
      BY <2>7, <2>8, <3>2
    <3>3. CASE p # q
      BY <2>8, <3>1, <3>3
    <3> QED
      BY <3>2, <3>3
  \* As `f` would be with these accounts.
  <2> DEFINE g == [f EXCEPT !.accounts = as]
  <2>10. /\ DOMAIN g = DOMAIN f /\ g.accounts = as /\ g.roles = f.roles
         /\ g.payer = f.payer /\ g.authorizations = f.authorizations
    BY <2>3, FormedParts DEF IxFields
  <2> HIDE DEF g
  <2>11. Formed(g) /\ Grows(f, g) /\ Ids(g) = Ids(f)
    BY <2>3, <2>8, <2>9, <2>10, Touched
  <2>12. /\ IsSeq(j.accounts) /\ IsSeq(j.roles) /\ IsSeq(j.payer) /\ IsSeq(j.authorizations)
         /\ DOMAIN j = DOMAIN initInteraction
    BY <2>6, <2>10, <2>11, FormedParts, IxShape
  <2>13. \A x1 : Person(x1, g) => Person(x1, j)
    BY <2>6, <2>10 DEF Person
  <2>14. /\ \A p1, p2 \in DOMAIN j.accounts : j.accounts[p1].tempId = j.accounts[p2].tempId => p1 = p2
         /\ \A p \in DOMAIN j.accounts : Person(j.accounts[p], j)
    <3>1. j.accounts = g.accounts
      BY <2>6, <2>10
    <3>2. /\ \A p1, p2 \in DOMAIN g.accounts : g.accounts[p1].tempId = g.accounts[p2].tempId => p1 = p2
          /\ \A p \in DOMAIN g.accounts : Person(g.accounts[p], g)
      BY <2>11, FormedParts
    <3> QED
      BY <2>13, <3>1, <3>2
  <2>15. Formed(j)
    BY <2>12, <2>14 DEF Formed
  <2>16. Ids(j) = Ids(f)
    <3>1. j.accounts = g.accounts
      BY <2>6, <2>10
    <3>2. Ids(j) = Ids(g)
      BY <3>1 DEF Ids
    <3> QED
      BY <2>11, <3>2
  <2>17. Grows(f, j)
    <3>1. j.accounts = g.accounts /\ j.roles = g.roles
      BY <2>6, <2>10
    <3> QED
      BY <2>11, <3>1 DEF Grows
  <2>18. Grows(i, j)
    BY <2>3, <2>17, GrowsOn
  <2>19. Listed(j)
    <3>1. j.payer = i.payer /\ j.authorizations = i.authorizations /\ j.proposer = i.proposer
      BY <2>6
    <3> QED
      BY <2>15, <2>18, <3>1, Relisted
  <2>20. Unsigned(j)
    BY <2>6, <2>8, <2>9 DEF Unsigned
  <2> QED
    BY <2>1, <2>3, <2>15, <2>16, <2>18, <2>19, <2>20
<1> QED
  BY <1>2, <1>3

-----------------------------------------------------------------------------
(* They take the place of the account that was a function.                 *)

LEMMA InSeq ==
  ASSUME NEW s, IsSeq(s), NEW B, ToSet(s) \subseteq B PROVE s \in Seq(B)
<1> DEFINE T == ToSet(s)
<1>1. s \in Seq(T) /\ T \subseteq B
  BY DEF IsSeq
<1> HIDE DEF T
<1> QED
  BY <1>1

HoldersOf(i, role) == {t \in Ids(i) : role \in Role(i, t)}

LEMMA HaveRoleIn ==
  ASSUME NEW i, NEW new \in Seq(Ids(i)), NEW role PROVE HaveRole(i, new, role) \in Seq(HoldersOf(i, role))
<1> DEFINE S == {t \in ToSet(new) : role \in Role(i, t)}
           h == HaveRole(i, new, role)
           I == Ids(i)
<1>1. h = Among(new, S)
  BY DEF HaveRole
<1>2. new \in Seq(I)
  OBVIOUS
<1> HIDE DEF S, h, I
<1>3. h \in Seq(I) /\ ToSet(h) = ToSet(new) \cap S
  BY <1>1, <1>2, AmongIs
<1>4. IsSeq(h) /\ ToSet(h) \subseteq I
  BY <1>3, OwnItems
<1>5. ToSet(h) \subseteq HoldersOf(i, role)
  BY <1>3, <1>4 DEF HoldersOf, S, I
<1>6. h \in Seq(HoldersOf(i, role))
  BY <1>4, <1>5, InSeq
<1> QED
  BY <1>6 DEF h

\* Other lists of the same accounts.
LEMMA Relists ==
  ASSUME NEW i, Formed(i), Unsigned(i), NEW j,
         DOMAIN j = DOMAIN i, j.accounts = i.accounts, j.roles = i.roles,
         IsSeq(j.payer), ToSet(j.payer) \subseteq HoldersOf(i, "payer"),
         IsSeq(j.authorizations), ToSet(j.authorizations) \subseteq Ids(i),
         j.proposer # Null => j.proposer \in Ids(i)
  PROVE  Formed(j) /\ Listed(j) /\ Unsigned(j) /\ Ids(j) = Ids(i)
<1>1. \A x : Person(x, i) => Person(x, j)
  BY DEF Person
<1>2. Formed(j)
  <2>1. IsSeq(j.accounts) /\ IsSeq(j.roles) /\ DOMAIN j = DOMAIN initInteraction
    BY FormedParts, IxShape
  <2>2. \A p, q \in DOMAIN j.accounts : j.accounts[p].tempId = j.accounts[q].tempId => p = q
    BY FormedParts
  <2>3. \A p \in DOMAIN j.accounts : Person(j.accounts[p], j)
    BY <1>1, FormedParts
  <2> QED
    BY <2>1, <2>2, <2>3 DEF Formed
<1>3. Ids(j) = Ids(i) /\ \A t : Role(j, t) = Role(i, t)
  BY DEF Ids, Role, Acct, Place
<1>4. Listed(j)
  <2>1. ToSet(j.payer) \subseteq Ids(j) /\ \A t \in ToSet(j.payer) : "payer" \in Role(j, t)
    BY <1>3 DEF HoldersOf
  <2>2. ToSet(j.authorizations) \subseteq Ids(j) /\ (j.proposer # Null => j.proposer \in Ids(j))
    BY <1>3
  <2> QED
    BY <2>1, <2>2 DEF Listed
<1>5. Unsigned(j)
  BY DEF Unsigned
<1> QED
  BY <1>2, <1>3, <1>4, <1>5

\* What replaceRoles makes of the lists.
LEMMA Replaced ==
  ASSUME NEW i, Formed(i), Listed(i), Unsigned(i), NEW old, NEW new \in Seq(Ids(i))
  PROVE  LET j == replaceRoles(i, old, new) IN
         Formed(j) /\ Listed(j) /\ Unsigned(j) /\ Ids(j) = Ids(i)
<1> DEFINE A == InPlaceOf(old, i.payer, HaveRole(i, new, "payer"))
           heads == HaveRole(i, new, "proposer")
           Z == InPlaceOf(old, i.authorizations, HaveRole(i, new, "authorizer"))
           paid == [i EXCEPT !.payer = A]
           proposed == IF heads = << >> THEN paid ELSE [paid EXCEPT !.proposer = Head(heads)]
           all == [proposed EXCEPT !.authorizations = Z]
           j == replaceRoles(i, old, new)
<1>1. DOMAIN i = IxFields /\ IsSeq(i.payer) /\ IsSeq(i.authorizations)
  BY FormedParts
<1>2. IsSeq(A) /\ ToSet(A) \subseteq HoldersOf(i, "payer")
  <2> DEFINE W == HoldersOf(i, "payer")
             H == HaveRole(i, new, "payer")
  <2>1. ToSet(i.payer) \subseteq W
    BY DEF Listed, HoldersOf
  <2>2. H \in Seq(W)
    BY HaveRoleIn
  <2> HIDE DEF W, H
  <2>3. i.payer \in Seq(W)
    BY <1>1, <2>1, InSeq
  <2>4. A \in Seq((W \ {old}) \cup W)
    BY <2>2, <2>3, PlaceIn DEF H
  <2> HIDE DEF A
  <2>5. (W \ {old}) \cup W = W
    OBVIOUS
  <2>6. A \in Seq(W)
    BY <2>4, <2>5
  <2>7. IsSeq(A) /\ ToSet(A) \subseteq W
    BY <2>6, OwnItems
  <2> QED
    BY <2>7 DEF W
<1>3. IsSeq(Z) /\ ToSet(Z) \subseteq Ids(i)
  <2> DEFINE W == Ids(i)
             H == HaveRole(i, new, "authorizer")
  <2>1. ToSet(i.authorizations) \subseteq W
    BY DEF Listed
  <2>2. H \in Seq(HoldersOf(i, "authorizer")) /\ HoldersOf(i, "authorizer") \subseteq W
    BY HaveRoleIn DEF HoldersOf
  <2> HIDE DEF W, H
  <2>3. i.authorizations \in Seq(W)
    BY <1>1, <2>1, InSeq
  <2>4. H \in Seq(W)
    BY <2>2
  <2>5. Z \in Seq((W \ {old}) \cup W)
    BY <2>3, <2>4, PlaceIn DEF H
  <2> HIDE DEF Z
  <2>6. (W \ {old}) \cup W = W
    OBVIOUS
  <2>7. Z \in Seq(W)
    BY <2>5, <2>6
  <2>8. IsSeq(Z) /\ ToSet(Z) \subseteq W
    BY <2>7, OwnItems
  <2> QED
    BY <2>8 DEF W
<1>4. heads # << >> => Head(heads) \in Ids(i)
  <2> DEFINE W == HoldersOf(i, "proposer")
  <2>1. heads \in Seq(W)
    BY HaveRoleIn
  <2> HIDE DEF W, heads
  <2>2. heads # << >> => Head(heads) \in W
    BY <2>1
  <2> QED
    BY <2>2 DEF W, HoldersOf
<1>5. j = paid \/ j = all
  BY DEF replaceRoles
<1> HIDE DEF A, Z, heads, j
<1>6. /\ DOMAIN paid = DOMAIN i /\ paid.accounts = i.accounts /\ paid.roles = i.roles
      /\ paid.payer = A /\ paid.authorizations = i.authorizations /\ paid.proposer = i.proposer
  BY <1>1 DEF IxFields
<1> HIDE DEF paid
<1>7. /\ DOMAIN proposed = DOMAIN i /\ proposed.accounts = i.accounts /\ proposed.roles = i.roles
      /\ proposed.payer = A /\ proposed.authorizations = i.authorizations
      /\ proposed.proposer = i.proposer \/ proposed.proposer \in Ids(i)
  BY <1>1, <1>4, <1>6 DEF IxFields
<1> HIDE DEF proposed
<1>8. /\ DOMAIN all = DOMAIN i /\ all.accounts = i.accounts /\ all.roles = i.roles
      /\ all.payer = A /\ all.authorizations = Z
      /\ all.proposer = i.proposer \/ all.proposer \in Ids(i)
  BY <1>1, <1>7 DEF IxFields
<1> HIDE DEF all
<1>9. /\ DOMAIN j = DOMAIN i /\ j.accounts = i.accounts /\ j.roles = i.roles
      /\ j.payer = A /\ j.authorizations \in {Z, i.authorizations}
      /\ j.proposer = i.proposer \/ j.proposer \in Ids(i)
  BY <1>5, <1>6, <1>8
<1>10. j.proposer # Null => j.proposer \in Ids(i)
  BY <1>9 DEF Listed
<1>11. IsSeq(j.authorizations) /\ ToSet(j.authorizations) \subseteq Ids(i)
  BY <1>1, <1>3, <1>9 DEF Listed
<1>12. IsSeq(j.payer) /\ ToSet(j.payer) \subseteq HoldersOf(i, "payer")
  BY <1>2, <1>9
<1>13. Formed(j) /\ Listed(j) /\ Unsigned(j) /\ Ids(j) = Ids(i)
  BY <1>9, <1>10, <1>11, <1>12, Relists
<1> QED
  BY <1>13 DEF j

\* One account of a level.
LEMMA ResolvedOne ==
  ASSUME NEW i, Formed(i), Listed(i), Unsigned(i), NEW t \in Ids(i)
  PROVE  LET res == ResolveOne(i, t) IN
         /\ Formed(res.ix) /\ Listed(res.ix) /\ Unsigned(res.ix)
         /\ Ids(i) \subseteq Ids(res.ix) /\ res.new \in Seq(Ids(res.ix))
<1> DEFINE found == resolveSingleAccount(i, t)
           new == Unique(found.ids)
           res == ResolveOne(i, t)
<1>1. /\ Formed(found.ix) /\ Unsigned(found.ix) /\ Listed(found.ix) /\ Grows(i, found.ix)
      /\ found.ids \in Seq(Ids(found.ix))
  BY ResolvedSingle
<1>2. Ids(i) \subseteq Ids(found.ix)
  BY <1>1, RolesGrow
<1>3. new \in Seq(Ids(found.ix))
  BY <1>1, UniqueIn
<1>4. res = [ix |-> IF isFn(Acct(i, t).resolve) THEN replaceRoles(found.ix, t, new) ELSE i, new |-> new]
  BY DEF ResolveOne
<1>5. CASE isFn(Acct(i, t).resolve)
  <2> DEFINE j == replaceRoles(found.ix, t, new)
  <2>1. res.ix = j /\ res.new = new
    BY <1>4, <1>5
  <2> HIDE DEF found, new, res
  <2>2. Formed(j) /\ Listed(j) /\ Unsigned(j) /\ Ids(j) = Ids(found.ix)
    BY <1>1, <1>3, Replaced
  <2> HIDE DEF j
  <2>3. /\ Formed(res.ix) /\ Listed(res.ix) /\ Unsigned(res.ix)
        /\ Ids(i) \subseteq Ids(res.ix) /\ res.new \in Seq(Ids(res.ix))
    BY <1>2, <1>3, <2>1, <2>2
  <2> QED
    BY <2>3 DEF res
<1>6. CASE ~ isFn(Acct(i, t).resolve)
  <2>1. res.ix = i /\ res.new = new
    BY <1>4, <1>6
  <2>2. found.ix = i
    BY <1>6 DEF resolveSingleAccount
  <2> HIDE DEF found, new, res
  <2>3. /\ Formed(res.ix) /\ Listed(res.ix) /\ Unsigned(res.ix)
        /\ Ids(i) \subseteq Ids(res.ix) /\ res.new \in Seq(Ids(res.ix))
    BY <1>1, <1>3, <2>1, <2>2
  <2> QED
    BY <2>3 DEF res
<1> QED
  BY <1>5, <1>6

-----------------------------------------------------------------------------
(* The end of a level.                                                     *)

LEMMA BothItems ==
  ASSUME NEW a, IsSeq(a), NEW b, IsSeq(b)
  PROVE  IsSeq(a \o b) /\ ToSet(a \o b) = ToSet(a) \cup ToSet(b)
<1> DEFINE A == ToSet(a)
           B == ToSet(b)
           c == a \o b
<1>1. a \in Seq(A) /\ b \in Seq(B)
  BY DEF IsSeq
<1>2. A = {a[p] : p \in DOMAIN a} /\ B = {b[p] : p \in DOMAIN b}
  BY DEF ToSet
<1> HIDE DEF A, B
<1>3. a \in Seq(A \cup B) /\ b \in Seq(A \cup B)
  BY <1>1
<1>4. /\ c \in Seq(A \cup B) /\ DOMAIN a = 1 .. Len(a) /\ DOMAIN b = 1 .. Len(b)
      /\ Len(a) \in Nat /\ Len(b) \in Nat /\ Len(c) = Len(a) + Len(b)
  BY <1>3
<1>5. DOMAIN c = 1 .. Len(a) + Len(b)
  BY <1>4
<1>6. \A p \in DOMAIN a : p \in DOMAIN c /\ c[p] = a[p]
  BY <1>3, <1>4, <1>5
<1>7. \A p \in DOMAIN b : Len(a) + p \in DOMAIN c /\ c[Len(a) + p] = b[p]
  BY <1>3, <1>4, <1>5
<1> HIDE DEF c
<1>8. IsSeq(c) /\ ToSet(c) \subseteq A \cup B
  BY <1>4, OwnItems
<1>9. A \subseteq ToSet(c)
  BY <1>2, <1>6 DEF ToSet
<1>10. B \subseteq ToSet(c)
  BY <1>2, <1>7 DEF ToSet
<1>11. IsSeq(c) /\ ToSet(c) = A \cup B
  BY <1>8, <1>9, <1>10
<1> QED
  BY <1>11 DEF A, B, c

Named(i) == i.payer \o Proposers(i) \o i.authorizations

LEMMA NamedItems ==
  ASSUME NEW i, Formed(i), Listed(i)
  PROVE  /\ IsSeq(Named(i)) /\ ToSet(Named(i)) \subseteq Ids(i)
         /\ ToSet(i.payer) \subseteq ToSet(Named(i)) /\ ToSet(i.authorizations) \subseteq ToSet(Named(i))
         /\ i.proposer # Null => i.proposer \in ToSet(Named(i))
<1> DEFINE one == Proposers(i)
<1>1. IsSeq(i.payer) /\ IsSeq(i.authorizations)
  BY FormedParts
<1>2. IsSeq(one) /\ ToSet(one) = {i.proposer} \ {Null}
  <2>1. CASE i.proposer = Null
    <3>1. one = << >>
      BY <2>1 DEF Proposers
    <3>2. one \in Seq({})
      BY <3>1
    <3>3. IsSeq(one) /\ ToSet(one) = {}
      BY <3>1, <3>2, OwnItems
    <3> QED
      BY <2>1, <3>3
  <2>2. CASE i.proposer # Null
    <3>1. one = <<i.proposer>>
      BY <2>2 DEF Proposers
    <3>2. one \in Seq({i.proposer}) /\ DOMAIN one = {1} /\ one[1] = i.proposer
      BY <3>1
    <3>3. IsSeq(one)
      BY <3>2, OwnItems
    <3>4. ToSet(one) = {i.proposer}
      BY <3>2 DEF ToSet
    <3> QED
      BY <2>2, <3>3, <3>4
  <2> QED
    BY <2>1, <2>2
<1> HIDE DEF one
<1>3. IsSeq(i.payer \o one) /\ ToSet(i.payer \o one) = ToSet(i.payer) \cup ToSet(one)
  BY <1>1, <1>2, BothItems
<1>4. /\ IsSeq((i.payer \o one) \o i.authorizations)
      /\ ToSet((i.payer \o one) \o i.authorizations)
           = (ToSet(i.payer) \cup ToSet(one)) \cup ToSet(i.authorizations)
  BY <1>1, <1>3, BothItems
<1>5. Named(i) = (i.payer \o one) \o i.authorizations
  BY DEF Named, one
<1> QED
  BY <1>2, <1>4, <1>5 DEF Listed

LEMMA FrontierIn ==
  ASSUME NEW i, Formed(i), Listed(i) PROVE Frontier(i) \in Seq(Ids(i))
<1>1. Named(i) \in Seq(Ids(i))
  BY NamedItems, InSeq
<1>2. Frontier(i) = Unique(Named(i))
  BY DEF Frontier, Named
<1> QED
  BY <1>1, <1>2, UniqueIn

\* Only the accounts that a role names are left.
LEMMA Cleared ==
  ASSUME NEW i, Formed(i), Listed(i), Unsigned(i)
  PROVE  LET j == removeUnusedIxAccounts(i) IN Formed(j) /\ Listed(j) /\ Unsigned(j)
<1> DEFINE used == ToSet(Named(i))
           s == i.accounts
           S == {a \in ToSet(s) : a.tempId \in used}
           b == Among(s, S)
           j == removeUnusedIxAccounts(i)
<1>1. IsSeq(s) /\ \A p \in DOMAIN s : Person(s[p], i) /\ s[p].signature = Null
  BY FormedParts DEF Unsigned
<1>2. \A p, q \in DOMAIN s : s[p].tempId = s[q].tempId => p = q
  BY FormedParts
<1>3. j = [i EXCEPT !.accounts = b]
  BY DEF removeUnusedIxAccounts, Named
<1>4. /\ b \in Seq(ToSet(s)) /\ ToSet(b) = ToSet(s) \cap S
      /\ \A p, q \in DOMAIN b : b[p] = b[q] => p = q
  <2> DEFINE R == ToSet(s)
  <2>1. s \in Seq(R)
    BY <1>1 DEF IsSeq
  <2>2. \A p, q \in DOMAIN s : s[p] = s[q] => p = q
    BY <1>2
  <2> HIDE DEF S, s, R
  <2>3. /\ b \in Seq(R) /\ ToSet(b) = ToSet(s) \cap S
        /\ \A p, q \in DOMAIN b : b[p] = b[q] => p = q
    BY <2>1, <2>2, AmongIs
  <2> QED
    BY <2>3 DEF R
<1>5. /\ DOMAIN j = DOMAIN i /\ j.accounts = b /\ j.roles = i.roles
      /\ j.payer = i.payer /\ j.authorizations = i.authorizations /\ j.proposer = i.proposer
  BY <1>3, FormedParts DEF IxFields
<1> HIDE DEF b, j
<1>6. IsSeq(b)
  BY <1>4, OwnItems
<1>7. \A q \in DOMAIN b : \E p \in DOMAIN s : b[q] = s[p]
  <2>1. \A q \in DOMAIN b : b[q] \in ToSet(s)
    BY <1>4 DEF ToSet
  <2> QED
    BY <2>1 DEF ToSet
<1>8. \A p \in DOMAIN s : s[p].tempId \in used => \E q \in DOMAIN b : b[q] = s[p]
  <2>1. \A p \in DOMAIN s : s[p].tempId \in used => s[p] \in ToSet(b)
    BY <1>4 DEF ToSet
  <2> QED
    BY <2>1 DEF ToSet
<1> HIDE DEF s, S, used
<1>9. \A p, q \in DOMAIN b : b[p].tempId = b[q].tempId => p = q
  BY <1>2, <1>4, <1>7
<1>10. Formed(j)
  <2>1. \A x : Person(x, i) => Person(x, j)
    BY <1>5 DEF Person
  <2>2. \A p \in DOMAIN j.accounts : Person(j.accounts[p], j)
    BY <1>1, <1>5, <1>7, <2>1
  <2>3. IsSeq(j.accounts) /\ IsSeq(j.roles) /\ DOMAIN j = DOMAIN initInteraction
    BY <1>5, <1>6, FormedParts, IxShape
  <2>4. \A p, q \in DOMAIN j.accounts : j.accounts[p].tempId = j.accounts[q].tempId => p = q
    BY <1>5, <1>9
  <2>5. IsSeq(j.payer) /\ IsSeq(j.authorizations)
    BY <1>5, FormedParts
  <2> QED
    BY <2>2, <2>3, <2>4, <2>5 DEF Formed
<1>11. ASSUME NEW t \in Ids(i), t \in used PROVE t \in Ids(j) /\ Role(j, t) = Role(i, t)
  <2> DEFINE p == Place(i, t)
  <2>1. p \in DOMAIN s /\ s[p].tempId = t
    BY FormedParts DEF s
  <2> HIDE DEF p
  <2>2. PICK q \in DOMAIN b : b[q] = s[p]
    BY <1>8, <1>11, <2>1
  <2>3. q \in DOMAIN j.accounts /\ j.accounts[q] = s[p]
    BY <1>5, <2>2
  <2>4. t \in Ids(j) /\ Place(j, t) = q
    BY <1>10, <2>1, <2>3, FormedParts
  <2> QED
    BY <1>5, <2>3, <2>4 DEF Role, Acct, p, s
<1>12. Listed(j)
  <2>1. /\ ToSet(i.payer) \subseteq used /\ ToSet(i.authorizations) \subseteq used
        /\ i.proposer # Null => i.proposer \in used
    BY NamedItems DEF used
  <2> QED
    BY <1>5, <1>11, <2>1 DEF Listed
<1>13. Unsigned(j)
  BY <1>1, <1>5, <1>7 DEF Unsigned
<1> QED
  BY <1>10, <1>12, <1>13 DEF j

-----------------------------------------------------------------------------
(* The accounts a program gives.                                           *)

\* The ids given so far: those after uuids are not in use.
Numbered(i) ==
  /\ i.uuids \in Nat
  /\ \A p \in DOMAIN i.accounts : \E k \in 1 .. i.uuids : i.accounts[p].tempId = Fresh(k)
Cast(i) == Formed(i) /\ Listed(i) /\ Unsigned(i) /\ Numbered(i)

LEMMA FreshDiffer == ASSUME NEW k, NEW m, Fresh(k) = Fresh(m) PROVE k = m
<1>1. Fresh(k)[2] = k /\ Fresh(m)[2] = m
  BY DEF Fresh
<1> QED
  BY <1>1

\* A list that is given one id more.
LEMMA ListedMore ==
  ASSUME NEW s, IsSeq(s), NEW W, ToSet(s) \subseteq W, NEW t \in W
  PROVE  IsSeq(Append(s, t)) /\ ToSet(Append(s, t)) \subseteq W
<1>1. IsSeq(Append(s, t)) /\ ToSet(Append(s, t)) = ToSet(s) \cup {t}
  BY Longer
<1> QED
  BY <1>1

LEMMA Prepared ==
  ASSUME NEW i, Cast(i), NEW acct \in Accounts, NEW role \in {"authorizer", "payer", "proposer"}
  PROVE  Cast(prepAccount(acct, role, i))
<1> DEFINE n == i.uuids + 1
           cell == acct.role \cup {role}
           rs == Append(i.roles, cell)
           c == Len(i.roles) + 1
           a == [tempId |-> Fresh(n), addr |-> acct.addr,
                 keyId |-> acct.keyId, sequenceNum |-> acct.sequenceNum,
                 signature |-> Null, resolve |-> acct.resolve, role |-> c]
           as == Append(i.accounts, a)
           m == [i EXCEPT !.roles = rs]
           added == [i EXCEPT !.uuids = n, !.roles = rs, !.accounts = as]
           j == prepAccount(acct, role, i)
<1>1. Formed(i) /\ Listed(i) /\ Unsigned(i) /\ Numbered(i) /\ DOMAIN i = IxFields
  BY FormedParts DEF Cast
<1>2. /\ role = "authorizer" => j = [added EXCEPT !.authorizations = Append(@, Fresh(n))]
      /\ role = "payer" => j = [added EXCEPT !.payer = Append(@, Fresh(n))]
      /\ role = "proposer" => j = [added EXCEPT !.proposer = Fresh(n)]
  BY DEF prepAccount
<1>3. IsSeq(i.roles) /\ IsSeq(i.payer) /\ IsSeq(i.authorizations)
  BY <1>1, FormedParts
<1>4. /\ IsSeq(rs) /\ DOMAIN i.roles = 1 .. Len(i.roles) /\ Len(i.roles) \in Nat /\ DOMAIN rs = 1 .. Len(i.roles) + 1
      /\ \A d \in DOMAIN i.roles : d \in DOMAIN rs /\ rs[d] = i.roles[d]
      /\ rs[Len(i.roles) + 1] = cell
  BY <1>3, Longer
<1>5. c \in DOMAIN rs /\ rs[c] = cell /\ role \in cell
  BY <1>4
<1>6. DOMAIN a = Fields /\ a.tempId = Fresh(n) /\ a.addr = acct.addr /\ a.resolve = acct.resolve
      /\ a.role = c /\ a.signature = Null
  BY DEF Fields
<1>7. /\ DOMAIN added = DOMAIN i /\ added.accounts = as /\ added.roles = rs /\ added.uuids = n
      /\ added.payer = i.payer /\ added.authorizations = i.authorizations /\ added.proposer = i.proposer
  BY <1>1 DEF IxFields
<1>8. DOMAIN m = DOMAIN i /\ m.accounts = i.accounts /\ m.roles = rs
      /\ m.payer = i.payer /\ m.authorizations = i.authorizations
  BY <1>1 DEF IxFields
<1>9. Formed(m) /\ Unsigned(m) /\ Grows(i, m) /\ Ids(m) = Ids(i)
  <2> HIDE DEF rs
  <2> QED
    BY <1>1, <1>4, MoreRoles
<1> HIDE DEF m, added, j, a, rs, c, cell
<1>10. n \in Nat /\ n > 0 /\ \A k \in 1 .. i.uuids : k # n /\ k \in 1 .. n
  BY <1>1 DEF Numbered
<1>11. Fresh(n) \notin Ids(i)
  <2>1. \A k : Fresh(k) = Fresh(n) => k = n
    BY FreshDiffer
  <2> QED
    BY <1>1, <1>10, <2>1 DEF Ids, Numbered
<1>12. Person(a, m)
  <2>1. (isFn(acct.resolve) => acct.resolve.returns \in Seq(Accounts)) /\ (acct.addr # Null => IsAddr(acct.addr))
    BY AccountsAssumption DEF AccountsAssumption
  <2> QED
    BY <1>5, <1>6, <1>8, <2>1 DEF Person
<1>13. Formed(added) /\ Unsigned(added) /\ Grows(m, added) /\ Ids(added) = Ids(m) \cup {Fresh(n)}
  <2>1. a.tempId \notin Ids(m) /\ a.signature = Null
    BY <1>6, <1>9, <1>11
  <2>2. DOMAIN added = DOMAIN m /\ added.accounts = Append(m.accounts, a) /\ added.roles = m.roles
        /\ added.payer = m.payer /\ added.authorizations = m.authorizations
    BY <1>7, <1>8
  <2>3. Formed(added) /\ Unsigned(added) /\ Grows(m, added) /\ Ids(added) = Ids(m) \cup {a.tempId}
    BY <1>9, <1>12, <2>1, <2>2, OneMore
  <2> QED
    BY <1>6, <2>3
<1>14. Listed(added)
  <2>1. Grows(i, added)
    BY <1>9, <1>13, GrowsOn
  <2> QED
    BY <1>1, <1>7, <1>13, <2>1, Relisted
<1>15. Fresh(n) \in Ids(added) /\ role \in Role(added, Fresh(n))
  <2> DEFINE p == Len(i.accounts) + 1
  <2>1. IsSeq(i.accounts)
    BY <1>1, FormedParts
  <2>2. DOMAIN as = 1 .. Len(i.accounts) + 1 /\ Len(i.accounts) \in Nat /\ as[Len(i.accounts) + 1] = a
    BY <2>1, Longer
  <2>3. p \in DOMAIN as /\ as[p] = a
    BY <2>2
  <2> HIDE DEF p
  <2>4. p \in DOMAIN added.accounts /\ added.accounts[p] = a
    BY <1>7, <2>3
  <2>5. Fresh(n) \in Ids(added) /\ Place(added, Fresh(n)) = p
    BY <1>6, <1>13, <2>4, FormedParts
  <2>6. Role(added, Fresh(n)) = added.roles[a.role]
    BY <2>4, <2>5 DEF Role, Acct
  <2> QED
    BY <1>5, <1>6, <1>7, <2>5, <2>6
<1>16. /\ IsSeq(added.payer) /\ ToSet(added.payer) \subseteq HoldersOf(added, "payer")
       /\ IsSeq(added.authorizations) /\ ToSet(added.authorizations) \subseteq Ids(added)
       /\ added.proposer # Null => added.proposer \in Ids(added)
  BY <1>3, <1>7, <1>14 DEF Listed, HoldersOf
<1> DEFINE f == Fresh(n)
<1>17. f \in Ids(added) /\ role \in Role(added, f)
  BY <1>15
<1> HIDE DEF f, as, n
<1>18. /\ DOMAIN j = DOMAIN added /\ j.accounts = added.accounts /\ j.roles = added.roles /\ j.uuids = added.uuids
       /\ IsSeq(j.payer) /\ ToSet(j.payer) \subseteq HoldersOf(added, "payer")
       /\ IsSeq(j.authorizations) /\ ToSet(j.authorizations) \subseteq Ids(added)
       /\ j.proposer # Null => j.proposer \in Ids(added)
  <2>1. CASE role = "authorizer"
    <3> DEFINE z == Append(added.authorizations, f)
    <3>1. IsSeq(z) /\ ToSet(z) \subseteq Ids(added)
      BY <1>16, <1>17, ListedMore
    <3>2. j = [added EXCEPT !.authorizations = z]
      BY <1>2, <2>1 DEF f
    <3> HIDE DEF z
    <3>3. DOMAIN j = DOMAIN added /\ j.accounts = added.accounts /\ j.roles = added.roles
          /\ j.uuids = added.uuids /\ j.payer = added.payer /\ j.authorizations = z /\ j.proposer = added.proposer
      BY <1>1, <1>7, <3>2 DEF IxFields
    <3> QED
      BY <1>16, <3>1, <3>3
  <2>2. CASE role = "payer"
    <3> DEFINE z == Append(added.payer, f)
               W == HoldersOf(added, "payer")
    <3>1. f \in W /\ ToSet(added.payer) \subseteq W
      BY <1>16, <1>17, <2>2 DEF HoldersOf
    <3> HIDE DEF W
    <3>2. IsSeq(z) /\ ToSet(z) \subseteq W
      BY <1>16, <3>1, ListedMore
    <3>3. j = [added EXCEPT !.payer = z]
      BY <1>2, <2>2 DEF f
    <3> HIDE DEF z
    <3>4. DOMAIN j = DOMAIN added /\ j.accounts = added.accounts /\ j.roles = added.roles
          /\ j.uuids = added.uuids /\ j.payer = z /\ j.authorizations = added.authorizations /\ j.proposer = added.proposer
      BY <1>1, <1>7, <3>3 DEF IxFields
    <3> QED
      BY <1>16, <3>2, <3>4 DEF W
  <2>3. CASE role = "proposer"
    <3>1. j = [added EXCEPT !.proposer = f]
      BY <1>2, <2>3 DEF f
    <3>2. DOMAIN j = DOMAIN added /\ j.accounts = added.accounts /\ j.roles = added.roles
          /\ j.uuids = added.uuids /\ j.payer = added.payer /\ j.authorizations = added.authorizations /\ j.proposer = f
      BY <1>1, <1>7, <3>1 DEF IxFields
    <3> QED
      BY <1>16, <1>17, <3>2
  <2> QED
    BY <2>1, <2>2, <2>3
<1>19. Formed(j) /\ Listed(j) /\ Unsigned(j)
  BY <1>13, <1>18, Relists
<1>20. Numbered(j)
  <2> DEFINE s == i.accounts
  <2>1. IsSeq(s)
    BY <1>1, FormedParts
  <2>2. /\ \A p \in DOMAIN s : as[p] = s[p]
        /\ as[Len(s) + 1] = a /\ \A p \in DOMAIN as : p \in DOMAIN s \/ p = Len(s) + 1
    BY <2>1, Longer DEF as
  <2>3. \A p \in DOMAIN s : \E k \in 1 .. n : s[p].tempId = Fresh(k)
    BY <1>1, <1>10 DEF Numbered
  <2>4. n \in 1 .. n
    BY <1>10
  <2>5. \A p \in DOMAIN as : \E k \in 1 .. n : as[p].tempId = Fresh(k)
    BY <1>6, <2>2, <2>3, <2>4
  <2>6. j.accounts = as /\ j.uuids = n
    BY <1>7, <1>18
  <2> QED
    BY <1>10, <2>5, <2>6 DEF Numbered
<1> QED
  BY <1>19, <1>20 DEF Cast, j

\* The accounts and the lists are left as they are.
SameCast(i, j) ==
  /\ DOMAIN j = DOMAIN i
  /\ j.accounts = i.accounts /\ j.roles = i.roles /\ j.uuids = i.uuids
  /\ j.payer = i.payer /\ j.proposer = i.proposer /\ j.authorizations = i.authorizations

LEMMA CastKept ==
  ASSUME NEW i, Formed(i), Listed(i), Unsigned(i), NEW j, SameCast(i, j)
  PROVE  Formed(j) /\ Listed(j) /\ Unsigned(j) /\ Ids(j) = Ids(i) /\ (Numbered(i) => Numbered(j))
<1>1. /\ IsSeq(j.payer) /\ ToSet(j.payer) \subseteq HoldersOf(i, "payer")
      /\ IsSeq(j.authorizations) /\ ToSet(j.authorizations) \subseteq Ids(i)
      /\ j.proposer # Null => j.proposer \in Ids(i)
  BY FormedParts DEF SameCast, Listed, HoldersOf
<1>2. Formed(j) /\ Listed(j) /\ Unsigned(j) /\ Ids(j) = Ids(i)
  BY <1>1, Relists DEF SameCast
<1>3. Numbered(i) => Numbered(j)
  BY DEF Numbered, SameCast
<1> QED
  BY <1>2, <1>3

LEMMA BuildersKeep ==
  ASSUME NEW i, DOMAIN i = IxFields, NEW step, step.op \in Makers \cup Fillers,
         step.op \notin {"proposer", "payer", "authorizer"}
  PROVE  SameCast(i, Build(step, i))
<1>0. ASSUME NEW tag
      PROVE  DOMAIN makeIx(tag, i) = IxFields /\ SameCast(i, makeIx(tag, i))
  BY DEF makeIx, Ok, SameCast, IxFields
<1>a. ASSUME NEW k, DOMAIN k = IxFields, NEW cb
      PROVE  SameCast(k, validator(cb, k))
  BY DEF validator, Ok, SameCast, IxFields
<1>1. CASE step.op = "transaction"
  BY <1>0, <1>1 DEF Build, transaction, SameCast, IxFields
<1>2. CASE step.op = "script"
  BY <1>0, <1>2 DEF Build, script, SameCast, IxFields
<1>3. CASE step.op = "getEvents"
  BY <1>0, <1>3 DEF Build, getEvents, withEvents, SameCast, IxFields
<1>4. CASE step.op = "getEventsAtBlockIds"
  BY <1>0, <1>4 DEF Build, getEventsAtBlockIds, withEvents, SameCast, IxFields
<1>5. CASE step.op = "getBlock"
  BY <1>0, <1>5 DEF Build, getBlock, SameCast, IxFields
<1>6. CASE step.op = "getBlockHeader"
  BY <1>0, <1>6 DEF Build, getBlockHeader, SameCast, IxFields
<1>7. CASE step.op = "getAccount"
  BY <1>0, <1>7 DEF Build, getAccount, SameCast, IxFields
<1>8. CASE step.op = "getCollection"
  BY <1>0, <1>8 DEF Build, getCollection, SameCast, IxFields
<1>9. CASE step.op = "getTransaction"
  BY <1>0, <1>9 DEF Build, getTransaction, SameCast, IxFields
<1>10. CASE step.op = "getTransactionStatus"
  BY <1>0, <1>10 DEF Build, getTransactionStatus, SameCast, IxFields
<1>11. CASE step.op = "ping"
  BY <1>0, <1>11 DEF Build, ping, SameCast, IxFields
<1>12. CASE step.op = "getNetworkParameters"
  BY <1>0, <1>12 DEF Build, getNetworkParameters, SameCast, IxFields
<1>13. CASE step.op = "getNodeVersionInfo"
  BY <1>0, <1>13 DEF Build, getNodeVersionInfo, SameCast, IxFields
<1>14. CASE step.op = "arg"
  BY <1>14 DEF Build, makeArgument, Ok, SameCast, IxFields
<1>15. CASE step.op = "limit"
  BY <1>15 DEF Build, limit, SameCast, IxFields
<1>16. CASE step.op = "ref"
  BY <1>16 DEF Build, ref, Ok, SameCast, IxFields
<1>17. CASE step.op = "validator"
  BY <1>17 DEF Build, validator, Ok, SameCast, IxFields
<1>18. CASE step.op = "voucherIntercept"
  BY <1>18 DEF Build, voucherIntercept, Ok, SameCast, IxFields
<1>19. CASE step.op = "invariant"
  BY <1>19 DEF Build, invariant, Ok, Bad, SameCast, IxFields
<1>20. CASE step.op = "atBlockHeight"
  <2> DEFINE k == [i EXCEPT !.block.height = step.arg]
  <2>1. DOMAIN k = IxFields /\ SameCast(i, k)
    BY DEF SameCast, IxFields, Ok
  <2>2. Build(step, i) = validator("atBlockHeight", k)
    BY <1>20 DEF Build, atBlockHeight
  <2> HIDE DEF k
  <2>3. SameCast(k, validator("atBlockHeight", k))
    BY <1>a, <2>1
  <2> QED
    BY <2>1, <2>2, <2>3 DEF SameCast
<1>21. CASE step.op = "atBlockId"
  <2> DEFINE k == Ok([i EXCEPT !.block.id = step.arg])
  <2>1. DOMAIN k = IxFields /\ SameCast(i, k)
    BY DEF SameCast, IxFields, Ok
  <2>2. Build(step, i) = validator("atBlockId", k)
    BY <1>21 DEF Build, atBlockId
  <2> HIDE DEF k
  <2>3. SameCast(k, validator("atBlockId", k))
    BY <1>a, <2>1
  <2> QED
    BY <2>1, <2>2, <2>3 DEF SameCast
<1> QED
  BY <1>1, <1>2, <1>3, <1>4, <1>5, <1>6, <1>7, <1>8, <1>9, <1>10, <1>11, <1>12, <1>13, <1>14, <1>15, <1>16, <1>17, <1>18, <1>19, <1>20, <1>21 DEF Makers, Fillers

LEMMA CastBuilt ==
  ASSUME NEW i, Cast(i), NEW step, step.op \in Makers \cup Fillers,
         step.op \in {"proposer", "payer", "authorizer"} => step.arg \in Accounts
  PROVE  Cast(Build(step, i))
<1>1. CASE step.op = "proposer"
  <2>1. Build(step, i) = prepAccount(step.arg, "proposer", i)
    BY <1>1 DEF Build, proposer
  <2> QED
    BY <1>1, <2>1, Prepared
<1>2. CASE step.op = "payer"
  <2>1. Build(step, i) = prepAccount(step.arg, "payer", i)
    BY <1>2 DEF Build, payer
  <2> QED
    BY <1>2, <2>1, Prepared
<1>3. CASE step.op = "authorizer"
  <2>1. Build(step, i) = prepAccount(step.arg, "authorizer", i)
    BY <1>3 DEF Build, authorization
  <2> QED
    BY <1>3, <2>1, Prepared
<1>4. CASE step.op \notin {"proposer", "payer", "authorizer"}
  <2>1. Formed(i) /\ Listed(i) /\ Unsigned(i) /\ Numbered(i) /\ DOMAIN i = IxFields
    BY FormedParts DEF Cast
  <2>2. SameCast(i, Build(step, i))
    BY <1>4, <2>1, BuildersKeep
  <2> QED
    BY <2>1, <2>2, CastKept DEF Cast
<1> QED
  BY <1>1, <1>2, <1>3, <1>4

LEMMA CastOpens == Cast(initInteraction)
<1>1. /\ initInteraction.accounts = << >> /\ initInteraction.roles = << >>
      /\ initInteraction.payer = << >> /\ initInteraction.authorizations = << >>
      /\ initInteraction.uuids = 0 /\ initInteraction.proposer = Null
  BY DEF initInteraction
<1>2. IsSeq(<< >>) /\ ToSet(<< >>) = {} /\ DOMAIN << >> = {}
  <2>1. DOMAIN << >> = {}
    OBVIOUS
  <2>2. ToSet(<< >>) = {}
    BY <2>1 DEF ToSet
  <2> DEFINE T == ToSet(<< >>)
  <2> HIDE DEF T
  <2>3. << >> \in Seq(T)
    OBVIOUS
  <2> QED
    BY <2>1, <2>2, <2>3 DEF IsSeq, T
<1>3. Formed(initInteraction)
  BY <1>1, <1>2 DEF Formed
<1>4. Listed(initInteraction)
  BY <1>1, <1>2 DEF Listed
<1>5. Unsigned(initInteraction) /\ Numbered(initInteraction)
  BY <1>1, <1>2 DEF Unsigned, Numbered
<1> QED
  BY <1>3, <1>4, <1>5 DEF Cast

\* What pipe makes of the builders of a call.
LEMMA PipeCast ==
  ASSUME NEW c \in Calls PROVE Cast(pipe(Steps(c)))
<1> DEFINE steps == Steps(c)
           R == ToSet(steps)
           kind == Kind("pipe", Null, Null)
           N == Len(steps)
<1>1. /\ steps \in Seq(R)
      /\ \A k \in DOMAIN steps :
           /\ steps[k].op \in Makers \cup Fillers
           /\ steps[k].op \in {"proposer", "payer", "authorizer"} => steps[k].arg \in Accounts
  BY CallsAssumption DEF CallsAssumption
<1>2. \A a, x : Op(kind, a, x) = Apply(a, x)
  BY DEF Op, Kind
<1>3. pipe(steps) = Folded(kind, initInteraction, steps)
  BY PipeFolds
<1> HIDE DEF steps, R, kind
<1>4. N \in Nat /\ DOMAIN steps = 1 .. N
  BY <1>1
<1>5. PICK h : /\ h[0] = initInteraction /\ h[N] = pipe(steps)
               /\ \A k \in 0 .. N - 1 : h[k + 1] = Op(kind, h[k], steps[k + 1])
  BY <1>1, <1>3, FoldOf
<1> DEFINE B == {k \in 0 .. N : Cast(h[k])}
<1>6. 0 \in B
  BY <1>4, <1>5, CastOpens
<1>7. ASSUME NEW k \in 0 .. N - 1, k \in B PROVE k + 1 \in B
  <2> DEFINE a == h[k]
             b == h[k + 1]
             x == steps[k + 1]
  <2>1. k + 1 \in 0 .. N /\ k + 1 \in DOMAIN steps
    BY <1>4
  <2>2. /\ x.op \in Makers \cup Fillers
        /\ x.op \in {"proposer", "payer", "authorizer"} => x.arg \in Accounts
    BY <1>1, <2>1
  <2>3. Cast(a) /\ b = Apply(a, x)
    BY <1>2, <1>5, <1>7
  <2> HIDE DEF a, b, x
  <2>4. Cast(Build(x, a))
    BY <2>2, <2>3, CastBuilt
  <2>5. Cast(b)
    BY <2>3, <2>4 DEF Apply
  <2> QED
    BY <2>1, <2>5 DEF b
<1>8. N \in B
  <2>1. N \in 0 .. N
    BY <1>4
  <2> HIDE DEF B, N
  <2> QED
    BY <1>4, <1>6, <1>7, <2>1, Climbs
<1> QED
  BY <1>5, <1>8 DEF steps

-----------------------------------------------------------------------------
(* The payload.                                                            *)

LEMMA SanTwice ==
  ASSUME NEW addr
  PROVE  /\ San(San(addr)) = San(addr)
         /\ addr # Null /\ IsAddr(addr) => San(addr) # Null /\ San(addr).a = addr.a /\ IsAddr(San(addr))
<1>1. CASE addr = Null
  BY <1>1 DEF San
<1>2. CASE addr # Null
  <2> DEFINE b == [addr EXCEPT !.pre = FALSE]
  <2>1. San(addr) = b
    BY <1>2 DEF San
  <2>2. DOMAIN b = DOMAIN addr /\ ("pre" \in DOMAIN b => ~ b.pre)
        /\ \A x \in DOMAIN addr : x # "pre" => b[x] = addr[x]
    OBVIOUS
  <2>3. [b EXCEPT !.pre = FALSE] = b
    OBVIOUS
  <2> HIDE DEF b
  <2>4. San(b) = b
    BY <2>3 DEF San
  <2>5. "a" \in DOMAIN addr => b.a = addr.a
    BY <2>2
  <2> QED
    BY <1>2, <2>1, <2>2, <2>4, <2>5 DEF IsAddr
<1> QED
  BY <1>1, <1>2

\* The payload of a transaction with a sequence number, as it is encoded.
Addresses(i) == [k \in DOMAIN i.authorizations |-> San(Acct(i, i.authorizations[k]).addr)]
Written(i, number) ==
  [cadence |-> i.cadence, refBlock |-> i.refBlock, computeLimit |-> i.computeLimit,
   arguments |-> [k \in DOMAIN i.arguments |-> i.arguments[k].asArgument],
   proposalKey |-> [address |-> San(San(Acct(i, i.proposer).addr)),
                    keyId |-> Acct(i, i.proposer).keyId, sequenceNum |-> number],
   payer |-> San(San(Acct(i, i.payer[1]).addr)),
   authorizers |-> [k \in DOMAIN Unique(Addresses(i)) |-> San(Unique(Addresses(i))[k])]]
Encoding(i, number) == [payload |-> Written(i, number)]
NumberOf(i) == Acct(i, i.proposer).sequenceNum

\* A transaction with the fields of i, apart from its signatures.
Holds(t, i, number) ==
  /\ DOMAIN t = {"cadence", "refBlock", "computeLimit", "arguments", "proposalKey", "payer",
                 "authorizers", "payloadSigs", "envelopeSigs"}
  /\ t.cadence = i.cadence /\ t.refBlock = i.refBlock /\ t.computeLimit = i.computeLimit
  /\ t.arguments = [q \in DOMAIN i.arguments |-> i.arguments[q].asArgument]
  /\ t.proposalKey = [address |-> San(Acct(i, i.proposer).addr),
                      keyId |-> Acct(i, i.proposer).keyId, sequenceNum |-> number]
  /\ t.payer = San(Acct(i, i.payer[1]).addr)
  /\ t.authorizers = Unique(Addresses(i))

LEMMA HeldOf ==
  ASSUME NEW i, NEW u, NEW v
  PROVE  Holds(TransactionOf(i, FALSE, u, v), i, NumberOf(i))
<1> DEFINE a == San(Acct(i, i.proposer).addr)
           k == Acct(i, i.proposer).keyId
           p == San(Acct(i, i.payer[1]).addr)
           g == [q \in DOMAIN i.arguments |-> i.arguments[q].asArgument]
           z == Unique(Addresses(i))
           x == SigsOf(i, FALSE, u)
           y == SigsOf(i, FALSE, v)
           n == NumberOf(i)
           t == [cadence |-> i.cadence, refBlock |-> i.refBlock, computeLimit |-> i.computeLimit, arguments |-> g,
                 proposalKey |-> [address |-> a, keyId |-> k, sequenceNum |-> n],
                 payer |-> p, authorizers |-> z, payloadSigs |-> x, envelopeSigs |-> y]
<1>1. TransactionOf(i, FALSE, u, v) = t
  BY DEF TransactionOf, AddrOf, NumberOf, Addresses
<1> HIDE DEF a, k, p, g, z, x, y, n
<1>2. DOMAIN t = {"cadence", "refBlock", "computeLimit", "arguments", "proposalKey", "payer",
                 "authorizers", "payloadSigs", "envelopeSigs"}
      /\ t.cadence = i.cadence /\ t.refBlock = i.refBlock /\ t.computeLimit = i.computeLimit
      /\ t.arguments = g
  OBVIOUS
<1>3. t.proposalKey = [address |-> a, keyId |-> k, sequenceNum |-> n] /\ t.payer = p /\ t.authorizers = z
  OBVIOUS
<1> HIDE DEF t
<1> QED
  BY <1>1, <1>2, <1>3 DEF Holds, a, k, p, g, z, n

LEMMA HeldNumber ==
  ASSUME NEW t, NEW i, NEW n, NEW m, Holds(t, i, n), NEW t1, t1 = [t EXCEPT !.proposalKey.sequenceNum = m]
  PROVE  Holds(t1, i, m)
<1> DEFINE key == [address |-> San(Acct(i, i.proposer).addr), keyId |-> Acct(i, i.proposer).keyId, sequenceNum |-> n]
           key1 == [address |-> San(Acct(i, i.proposer).addr), keyId |-> Acct(i, i.proposer).keyId, sequenceNum |-> m]
           D == {"cadence", "refBlock", "computeLimit", "arguments", "proposalKey", "payer",
                 "authorizers", "payloadSigs", "envelopeSigs"}
<1>1. DOMAIN t = D /\ t.proposalKey = key
  BY DEF Holds
<1>2. [key EXCEPT !.sequenceNum = m] = key1
  OBVIOUS
<1>3. /\ DOMAIN t1 = D /\ t1.proposalKey = [t.proposalKey EXCEPT !.sequenceNum = m]
      /\ t1.cadence = t.cadence /\ t1.refBlock = t.refBlock /\ t1.computeLimit = t.computeLimit
      /\ t1.arguments = t.arguments /\ t1.payer = t.payer /\ t1.authorizers = t.authorizers
  BY <1>1
<1> HIDE DEF key, key1
<1> QED
  BY <1>1, <1>2, <1>3 DEF Holds, key1

LEMMA Prepares ==
  ASSUME NEW t, NEW i, NEW n, Holds(t, i, n)
  PROVE  preparePayload(t) = Written(i, n)
<1> DEFINE a == San(Acct(i, i.proposer).addr)
           k == Acct(i, i.proposer).keyId
           key == [address |-> a, keyId |-> k, sequenceNum |-> n]
<1>1. [key EXCEPT !.address = San(@)] = [address |-> San(a), keyId |-> k, sequenceNum |-> n]
  OBVIOUS
<1>2. t.proposalKey = key
  BY DEF Holds
<1> HIDE DEF key
<1>3. [t.proposalKey EXCEPT !.address = San(@)] = [address |-> San(a), keyId |-> k, sequenceNum |-> n]
  BY <1>1, <1>2
<1> QED
  BY <1>3 DEF Holds, preparePayload, Written

LEMMA PayloadIs ==
  ASSUME NEW i
  PROVE  PayloadOf(i) = Encoding(i, IF NumberOf(i) = Null THEN 0 ELSE NumberOf(i))
<1> DEFINE t == TransactionOf(i, FALSE, findInsideSigners(i), << >>)
           n == NumberOf(i)
           m == IF n = Null THEN 0 ELSE n
<1>1. Holds(t, i, n)
  BY HeldOf
<1>2. prepForEncoding(i) = [t EXCEPT !.proposalKey.sequenceNum = IF @ = Null THEN 0 ELSE @]
  BY DEF prepForEncoding
<1> HIDE DEF t, n
<1>3. t.proposalKey.sequenceNum = n
  BY <1>1 DEF Holds
<1>4. prepForEncoding(i) = [t EXCEPT !.proposalKey.sequenceNum = m]
  BY <1>2, <1>3
<1> HIDE DEF m
<1>5. Holds(prepForEncoding(i), i, m)
  BY <1>1, <1>4, HeldNumber
<1>6. preparePayload(prepForEncoding(i)) = Written(i, m)
  BY <1>5, Prepares
<1> QED
  BY <1>6 DEF PayloadOf, Encoding, encodeTransactionPayload, m, n

\* What is sent: the payload of i, under these signatures.
Carries(tx, i, sigs) ==
  /\ encodeTransactionPayload(tx) = Encoding(i, NumberOf(i))
  /\ tx.payloadSigs = sigs /\ tx.proposalKey.sequenceNum = NumberOf(i)

LEMMA SentIs ==
  ASSUME NEW i, NEW x, NEW y, NEW tx, tx = TransactionSent(i, x, y)
  PROVE  Carries(tx, i, x)
<1> DEFINE t == TransactionOf(i, FALSE, << >>, << >>)
<1>1. Holds(t, i, NumberOf(i))
  BY HeldOf
<1>2. tx = [t EXCEPT !.payloadSigs = x, !.envelopeSigs = y]
  BY DEF TransactionSent
<1> HIDE DEF t
<1>3. Holds(tx, i, NumberOf(i)) /\ tx.payloadSigs = x
  <2> DEFINE D == {"cadence", "refBlock", "computeLimit", "arguments", "proposalKey", "payer",
                   "authorizers", "payloadSigs", "envelopeSigs"}
  <2>1. DOMAIN t = D
    BY <1>1 DEF Holds
  <2>2. /\ DOMAIN tx = D /\ tx.proposalKey = t.proposalKey /\ tx.payloadSigs = x
        /\ tx.cadence = t.cadence /\ tx.refBlock = t.refBlock /\ tx.computeLimit = t.computeLimit
        /\ tx.arguments = t.arguments /\ tx.payer = t.payer /\ tx.authorizers = t.authorizers
    BY <1>2, <2>1
  <2> QED
    BY <1>1, <2>2 DEF Holds
<1>4. tx.proposalKey.sequenceNum = NumberOf(i)
  BY <1>3 DEF Holds
<1>5. preparePayload(tx) = Written(i, NumberOf(i))
  BY <1>3, Prepares
<1> QED
  BY <1>3, <1>4, <1>5 DEF encodeTransactionPayload, Encoding, Carries

\* What the payload of a transaction is made of, apart from its accounts.
SameText(i, j) ==
  /\ j.cadence = i.cadence /\ j.refBlock = i.refBlock /\ j.computeLimit = i.computeLimit
  /\ j.arguments = i.arguments
  /\ j.payer = i.payer /\ j.proposer = i.proposer /\ j.authorizations = i.authorizations

\* An account as the payload names it.
SameKey(a, b) ==
  /\ b.tempId = a.tempId /\ b.keyId = a.keyId /\ b.sequenceNum = a.sequenceNum
  /\ San(b.addr) = San(a.addr)

LEMMA SameWritten ==
  ASSUME NEW i, Formed(i), Listed(i), RolesTaken(i), NEW j, SameText(i, j),
         DOMAIN j.accounts = DOMAIN i.accounts,
         \A p \in DOMAIN i.accounts : SameKey(i.accounts[p], j.accounts[p])
  PROVE  PayloadOf(j) = PayloadOf(i)
<1>1. /\ \A p, q \in DOMAIN i.accounts : i.accounts[p].tempId = i.accounts[q].tempId => p = q
      /\ \A t \in Ids(i) : Place(i, t) \in DOMAIN i.accounts /\ i.accounts[Place(i, t)].tempId = t
  BY FormedParts
<1>2. \A p \in DOMAIN i.accounts : j.accounts[p].tempId = i.accounts[p].tempId
  BY DEF SameKey
<1>3. \A p, q \in DOMAIN j.accounts : j.accounts[p].tempId = j.accounts[q].tempId => p = q
  BY <1>1, <1>2
<1>4. \A p \in DOMAIN j.accounts : Place(j, j.accounts[p].tempId) = p
  BY <1>3, Placed
<1>5. ASSUME NEW t \in Ids(i)
      PROVE  /\ Acct(j, t).keyId = Acct(i, t).keyId /\ Acct(j, t).sequenceNum = Acct(i, t).sequenceNum
             /\ San(Acct(j, t).addr) = San(Acct(i, t).addr)
  <2> DEFINE p == Place(i, t)
  <2>1. p \in DOMAIN i.accounts /\ i.accounts[p].tempId = t
    BY <1>1
  <2>2. p \in DOMAIN j.accounts /\ j.accounts[p].tempId = t
    BY <1>2, <2>1
  <2>3. Place(j, t) = p
    BY <1>4, <2>2
  <2> HIDE DEF p
  <2> QED
    BY <2>1, <2>3 DEF Acct, SameKey, p
<1>6. i.proposer \in Ids(i) /\ i.payer[1] \in Ids(i) /\ \A k \in DOMAIN i.authorizations : i.authorizations[k] \in Ids(i)
  <2>1. i.proposer \in Ids(i)
    BY DEF Listed, RolesTaken
  <2>2. i.payer \in Seq(Ids(i)) /\ i.authorizations \in Seq(Ids(i))
    BY FormedParts, InSeq DEF Listed
  <2>3. i.payer # << >>
    BY DEF RolesTaken
  <2> DEFINE I == Ids(i)
  <2> HIDE DEF I
  <2>4. i.payer[1] \in I
    BY <2>2, <2>3 DEF I
  <2>5. \A k \in DOMAIN i.authorizations : i.authorizations[k] \in I
    BY <2>2 DEF I
  <2> QED
    BY <2>1, <2>4, <2>5 DEF I
<1>7. NumberOf(j) = NumberOf(i)
  BY <1>5, <1>6 DEF NumberOf, SameText
<1>8. Addresses(j) = Addresses(i)
  <2>1. \A k \in DOMAIN i.authorizations :
          San(Acct(j, i.authorizations[k]).addr) = San(Acct(i, i.authorizations[k]).addr)
    BY <1>5, <1>6
  <2> QED
    BY <2>1 DEF Addresses, SameText
<1>9. \A n : Written(j, n) = Written(i, n)
  <2>1. San(Acct(j, j.proposer).addr) = San(Acct(i, i.proposer).addr) /\ Acct(j, j.proposer).keyId = Acct(i, i.proposer).keyId
    BY <1>5, <1>6 DEF SameText
  <2>2. San(Acct(j, j.payer[1]).addr) = San(Acct(i, i.payer[1]).addr)
    BY <1>5, <1>6 DEF SameText
  <2> QED
    BY <1>8, <2>1, <2>2 DEF Written, SameText
<1> QED
  BY <1>7, <1>9, PayloadIs DEF Encoding

\* An account that is given another signature, or its address written otherwise.
Resigns(i, a, b) ==
  /\ SameKey(a, b) /\ Person(b, i) /\ b.role = a.role
  /\ a.addr # Null => b.addr # Null
  /\ b.signature # Null /\ b.tempId \notin ToSet(i.payer)
       => b.addr # Null /\ b.signature = [by |-> KeyOf(b), message |-> PayloadOf(i)]

LEMMA Resigned ==
  ASSUME NEW i, Formed(i), Listed(i), RolesTaken(i), NEW j, SameText(i, j),
         DOMAIN j = DOMAIN i, j.roles = i.roles,
         IsSeq(j.accounts), DOMAIN j.accounts = DOMAIN i.accounts,
         \A p \in DOMAIN i.accounts : Resigns(i, i.accounts[p], j.accounts[p])
  PROVE  /\ Formed(j) /\ Listed(j) /\ RolesTaken(j) /\ Signed(j)
         /\ \A s : Shown(i, s) => Shown(j, s)
<1>1. PayloadOf(j) = PayloadOf(i)
  BY SameWritten DEF Resigns
<1>2. Formed(j) /\ Grows(i, j) /\ Ids(j) = Ids(i)
  BY Touched DEF SameText, SameKey, Resigns
<1>3. \A t \in Ids(i) : Role(i, t) \subseteq Role(j, t)
  BY <1>2, RolesGrow
<1>4. Listed(j) /\ RolesTaken(j)
  BY <1>2, <1>3 DEF Listed, RolesTaken, SameText
<1>5. Signed(j)
  BY <1>1 DEF Signed, SameText, Resigns
<1>6. ASSUME NEW t \in Ids(i), Acct(i, t).addr # Null PROVE Acct(j, t).addr # Null
  <2> DEFINE p == Place(i, t)
  <2>1. p \in DOMAIN i.accounts /\ i.accounts[p].tempId = t
    BY FormedParts
  <2>2. p \in DOMAIN j.accounts /\ j.accounts[p].tempId = t
    BY <2>1 DEF SameKey, Resigns
  <2>3. Place(j, t) = p
    BY <1>2, <2>2, FormedParts
  <2> HIDE DEF p
  <2> QED
    BY <1>6, <2>1, <2>3 DEF Acct, p, Resigns
<1>7. \A s : Shown(i, s) => Shown(j, s)
  BY <1>1, <1>2, <1>6 DEF Shown, SameText
<1> QED
  BY <1>2, <1>4, <1>5, <1>7

-----------------------------------------------------------------------------
(* The steps up to the signatures.                                         *)

\* An interaction nobody has been asked to sign.
Plain(i) == Formed(i) /\ Listed(i) /\ Unsigned(i)
\* The accounts that resolveAccounts has still to see.
Waiting(i, w) ==
  /\ DOMAIN w = {"left", "next", "depth"}
  /\ w.left \in Seq(Ids(i)) /\ w.next \in Seq(Ids(i))
\* An interaction that is being signed, or that has been.
InHand(i, shown) ==
  Formed(i) /\ Listed(i) /\ RolesTaken(i) /\ Signed(i) /\ \A s \in shown : Shown(i, s)

SentInv ==
  /\ at \in Before => asked = {} /\ Plain(ix)
  /\ at = "accounts" => Waiting(ix, work)
  /\ at \in {"ref", "sequence", "inside"} => RolesTaken(ix)
  /\ at \in After /\ isTransaction(ix) => InHand(ix, asked)

LEMMA ToSettled == ASSUME at' \notin Before \cup After PROVE SentInv'
BY DEF SentInv, Before

LEMMA ToBefore ==
  ASSUME at' \in Before, asked' = {}, Plain(ix'), at' = "accounts" => Waiting(ix', work'),
         at' \in {"ref", "sequence", "inside"} => RolesTaken(ix')
  PROVE  SentInv'
BY DEF SentInv, Before, After

LEMMA ToAfter ==
  ASSUME at' \in After, isTransaction(ix') => InHand(ix', asked')
  PROVE  SentInv'
BY DEF SentInv, Before, After

LEMMA StayedIn ==
  ASSUME SentInv, ix' = ix, asked' = asked, at' = at, at = "accounts" => work' = work
  PROVE  SentInv'
<1>1. at' \in Before => asked' = {} /\ Plain(ix')
  BY DEF SentInv
<1>2. at' = "accounts" => Waiting(ix', work')
  BY DEF SentInv
<1>3. at' \in {"ref", "sequence", "inside"} => RolesTaken(ix')
  BY DEF SentInv
<1>4. at' \in After /\ isTransaction(ix') => InHand(ix', asked')
  BY DEF SentInv
<1> QED
  BY <1>1, <1>2, <1>3, <1>4 DEF SentInv

LEMMA Rejects == ASSUME Throws PROVE SentInv'
<1>1. at' = "rejected"
  BY DEF Throws
<1> QED
  BY <1>1, ToSettled DEF Before, After

LEMMA PlainKept ==
  ASSUME NEW i, Plain(i), NEW j, SameCast(i, j)
  PROVE  Plain(j) /\ Ids(j) = Ids(i) /\ (RolesTaken(i) => RolesTaken(j))
<1>1. Formed(j) /\ Listed(j) /\ Unsigned(j) /\ Ids(j) = Ids(i)
  BY CastKept DEF Plain
<1>2. RolesTaken(i) => RolesTaken(j)
  BY DEF RolesTaken, SameCast
<1> QED
  BY <1>1, <1>2 DEF Plain

LEMMA SameSelf == ASSUME NEW i PROVE SameCast(i, i)
BY DEF SameCast

LEMMA FieldsOf == ASSUME NEW i, Plain(i) PROVE DOMAIN i = IxFields
BY FormedParts DEF Plain

LEMMA SeqInto ==
  ASSUME NEW A, NEW B, A \subseteq B, NEW s \in Seq(A) PROVE s \in Seq(B)
OBVIOUS

LEMMA SentBuilds == ASSUME SentInv, Builds PROVE SentInv'
<1>1. CASE Throws
  BY <1>1, Rejects
<1>2. CASE Goes("cadence", ix)
  <2>1. asked = {} /\ Plain(ix)
    BY DEF SentInv, Builds, Before
  <2> QED
    BY <1>2, <2>1, ToBefore DEF Builds, Goes, Only, Before
<1> QED
  BY <1>1, <1>2 DEF Builds

LEMMA SentCadence == ASSUME SentInv, resolveCadence PROVE SentInv'
<1>1. asked = {} /\ Plain(ix) /\ asked' = asked
  BY DEF SentInv, resolveCadence, Before, Only
<1>2. CASE Throws
  BY <1>2, Rejects
<1>3. CASE at' = "limit" /\ SameCast(ix, ix')
  <2>1. Plain(ix')
    BY <1>1, <1>3, PlainKept
  <2> QED
    BY <1>1, <1>3, <2>1, ToBefore DEF Before
<1>4. ASSUME NEW v, Goes("limit", [ix EXCEPT !.cadence = v]) PROVE at' = "limit" /\ SameCast(ix, ix')
  BY <1>1, <1>4, FieldsOf DEF Goes, SameCast, IxFields
<1>5. Goes("limit", ix) => at' = "limit" /\ SameCast(ix, ix')
  BY SameSelf DEF Goes
<1> QED
  BY <1>2, <1>3, <1>4, <1>5 DEF resolveCadence

LEMMA SentLimit == ASSUME SentInv, resolveComputeLimit PROVE SentInv'
<1>1. asked = {} /\ Plain(ix) /\ asked' = asked /\ at' = "arguments"
  BY DEF SentInv, resolveComputeLimit, Before, Only, Goes
<1>2. \A v : SameCast(ix, [ix EXCEPT !.computeLimit = v])
  BY <1>1, FieldsOf DEF SameCast, IxFields
<1>3. SameCast(ix, ix')
  BY <1>2, SameSelf DEF resolveComputeLimit, Goes
<1>4. Plain(ix')
  BY <1>1, <1>3, PlainKept
<1> QED
  BY <1>1, <1>4, ToBefore DEF Before

LEMMA SentArguments == ASSUME SentInv, resolveArguments PROVE SentInv'
<1>1. asked = {} /\ Plain(ix) /\ asked' = asked
  BY DEF SentInv, resolveArguments, Before, Only
<1>2. CASE Throws
  BY <1>2, Rejects
<1>3. CASE at' = "accounts" /\ SameCast(ix, ix')
  <2>1. Plain(ix') /\ Ids(ix') = Ids(ix)
    BY <1>1, <1>3, PlainKept
  <2>2. Frontier(ix) \in Seq(Ids(ix))
    BY <1>1, FrontierIn DEF Plain
  <2>3. work' = [left |-> Frontier(ix), next |-> << >>, depth |-> MaxDepth]
    BY DEF resolveArguments
  <2>4. Waiting(ix', work')
    BY <2>1, <2>2, <2>3 DEF Waiting
  <2> QED
    BY <1>1, <1>3, <2>1, <2>4, ToBefore DEF Before
<1>4. \A v : SameCast(ix, [ix EXCEPT !.arguments = v])
  BY <1>1, FieldsOf DEF SameCast, IxFields
<1>5. Throws \/ (at' = "accounts" /\ SameCast(ix, ix'))
  BY <1>4, SameSelf DEF resolveArguments, Goes
<1> QED
  BY <1>2, <1>3, <1>5

LEMMA SentAccounts == ASSUME SentInv, resolveAccountsByIds PROVE SentInv'
<1>1. at = "accounts" /\ asked = {} /\ Plain(ix) /\ asked' = asked /\ Waiting(ix, work) /\ work.left # << >>
  BY DEF SentInv, resolveAccountsByIds, Before, Only, Resolving
<1> DEFINE t == Head(work.left)
           found == ResolveOne(ix, t)
<1>2. CASE Throws
  BY <1>2, Rejects
<1>3. CASE ix' = found.ix /\ at' = at /\ work' = [work EXCEPT !.left = Tail(@), !.next = Unique(@ \o found.new)]
  <2> DEFINE I == Ids(ix)
             K == Ids(found.ix)
             b == work.next \o found.new
  <2>1. t \in I /\ Tail(work.left) \in Seq(I)
    <3>1. work.left \in Seq(I) /\ work.left # << >>
      BY <1>1 DEF Waiting
    <3> HIDE DEF I
    <3> QED
      BY <3>1
  <2> HIDE DEF t
  <2>2. Plain(found.ix) /\ I \subseteq K /\ found.new \in Seq(K)
    BY <1>1, <2>1, ResolvedOne DEF Plain
  <2>3. work.next \in Seq(I)
    BY <1>1 DEF Waiting
  <2> HIDE DEF I, K, found
  <2>4. b \in Seq(K) /\ Tail(work.left) \in Seq(K)
    BY <2>1, <2>2, <2>3, SeqInto
  <2>5. Unique(b) \in Seq(K)
    BY <2>4, UniqueIn
  <2>6. /\ DOMAIN work' = {"left", "next", "depth"}
        /\ work'.left = Tail(work.left) /\ work'.next = Unique(b)
    BY <1>1, <1>3 DEF Waiting
  <2>7. Waiting(ix', work')
    BY <1>3, <2>4, <2>5, <2>6 DEF Waiting, K
  <2> QED
    BY <1>1, <1>3, <2>2, <2>7, ToBefore DEF Before
<1> QED
  BY <1>2, <1>3 DEF resolveAccountsByIds

LEMMA SentEndsLevel == ASSUME SentInv, EndsLevel PROVE SentInv'
<1>1. at = "accounts" /\ asked = {} /\ Plain(ix) /\ asked' = asked /\ Waiting(ix, work)
  BY DEF SentInv, EndsLevel, Before, Only, Resolving
<1>2. CASE Throws
  BY <1>2, Rejects
<1>3. CASE at' = at /\ ix' = ix /\ work' = [left |-> work.next, next |-> << >>, depth |-> work.depth - 1]
  <2>1. Waiting(ix', work')
    BY <1>1, <1>3 DEF Waiting
  <2> QED
    BY <1>1, <1>3, <2>1, ToBefore DEF Before
<1> DEFINE used == removeUnusedIxAccounts(ix)
<1>4. CASE RolesTaken(used) /\ Goes("ref", used)
  <2>1. Plain(used)
    BY <1>1, Cleared DEF Plain
  <2> HIDE DEF used
  <2>2. ix' = used /\ at' = "ref"
    BY <1>4 DEF Goes
  <2> QED
    BY <1>1, <1>4, <2>1, <2>2, ToBefore DEF Before
<1> QED
  BY <1>2, <1>3, <1>4 DEF EndsLevel

LEMMA SentNoTransaction == ASSUME SentInv, NoTransaction PROVE SentInv'
<1>1. at' = "normalize" /\ ~ isTransaction(ix')
  BY DEF NoTransaction, Goes
<1> QED
  BY <1>1, ToAfter DEF After

LEMMA SentFetchRef == ASSUME SentInv, execFetchRef PROVE SentInv'
<1>1. asked = {} /\ Plain(ix) /\ RolesTaken(ix) /\ asked' = asked /\ ix' = ix /\ at' \in {"ref", "sequence"}
  BY DEF SentInv, execFetchRef, Before, Only, Goes
<1> QED
  BY <1>1, ToBefore DEF Before

LEMMA SentFetchSequence == ASSUME SentInv, execFetchSequenceNumber PROVE SentInv'
<1>1. asked = {} /\ Plain(ix) /\ RolesTaken(ix) /\ asked' = asked
  BY DEF SentInv, execFetchSequenceNumber, Before, Only
<1>2. CASE Throws
  BY <1>2, Rejects
<1>3. CASE ix' = ix /\ at' \in {"sequence", "inside"}
  BY <1>1, <1>3, ToBefore DEF Before
<1>4. Throws \/ (ix' = ix /\ at' \in {"sequence", "inside"})
  BY DEF execFetchSequenceNumber, Goes
<1> QED
  BY <1>2, <1>3, <1>4

\* One account is given a sequence number.
LEMMA Counted ==
  ASSUME NEW i, Plain(i), RolesTaken(i), NEW c, NEW v,
         NEW j, j = [i EXCEPT !.accounts[c].sequenceNum = v]
  PROVE  Plain(j) /\ RolesTaken(j)
<1> DEFINE s == i.accounts
           a == [s[c] EXCEPT !.sequenceNum = v]
           b == [s EXCEPT ![c] = a]
<1>1. DOMAIN i = IxFields
  BY FieldsOf
<1>2. /\ DOMAIN j = DOMAIN i /\ j.accounts = b /\ j.roles = i.roles
      /\ j.payer = i.payer /\ j.proposer = i.proposer /\ j.authorizations = i.authorizations
  BY <1>1 DEF IxFields
<1>3. IsSeq(b) /\ DOMAIN b = DOMAIN s /\ (c \in DOMAIN s => b[c] = a) /\ \A p \in DOMAIN s : p # c => b[p] = s[p]
  <2>1. IsSeq(s)
    BY FormedParts DEF Plain
  <2> HIDE DEF a, s
  <2> QED
    BY <2>1, Changed
<1>4. \A p \in DOMAIN s : Person(s[p], i) /\ s[p].signature = Null
  BY FormedParts DEF Plain, Unsigned
<1>5. ASSUME NEW p \in DOMAIN s
      PROVE  /\ Person(b[p], i) /\ b[p].tempId = s[p].tempId /\ b[p].role = s[p].role
             /\ b[p].signature = Null
  <2>1. CASE p = c
    <3>1. DOMAIN s[p] = Fields
      BY <1>4 DEF Person
    <3>2. /\ DOMAIN a = Fields /\ a.tempId = s[p].tempId /\ a.role = s[p].role /\ a.signature = s[p].signature
          /\ a.resolve = s[p].resolve /\ a.addr = s[p].addr
      BY <2>1, <3>1 DEF Fields
    <3>3. b[p] = a
      BY <1>3, <2>1
    <3> HIDE DEF a, b
    <3> QED
      BY <1>4, <3>2, <3>3 DEF Person
  <2>2. CASE p # c
    BY <1>3, <1>4, <2>2
  <2> QED
    BY <2>1, <2>2
<1> HIDE DEF b, a
<1>6. Formed(j) /\ Grows(i, j) /\ Ids(j) = Ids(i)
  BY <1>2, <1>3, <1>5, Touched DEF Plain
<1>7. \A t \in Ids(i) : Role(i, t) \subseteq Role(j, t)
  BY <1>6, RolesGrow DEF Plain
<1>8. Listed(j) /\ RolesTaken(j)
  BY <1>2, <1>6, <1>7 DEF Plain, Listed, RolesTaken
<1>9. Unsigned(j)
  BY <1>2, <1>3, <1>5 DEF Unsigned
<1> QED
  BY <1>6, <1>8, <1>9 DEF Plain

LEMMA SentAnswers ==
  ASSUME SentInv, NodeAnswers, at \in {"ref", "sequence", "send"} PROVE SentInv'
<1>1. CASE at = "send"
  <2>1. at' = "decode"
    BY <1>1 DEF NodeAnswers, Goes
  <2> QED
    BY <2>1, ToSettled DEF Before, After
<1>2. CASE at # "send"
  <2>1. asked = {} /\ Plain(ix) /\ RolesTaken(ix) /\ asked' = asked
    BY <1>2 DEF SentInv, NodeAnswers, Before, Only
  <2>2. CASE at = "ref"
    <3>1. at' = "sequence" /\ ix' = [ix EXCEPT !.refBlock = req.answer.id]
      BY <2>2 DEF NodeAnswers, Goes
    <3>2. SameCast(ix, ix')
      BY <2>1, <3>1, FieldsOf DEF SameCast, IxFields
    <3>3. Plain(ix') /\ RolesTaken(ix')
      BY <2>1, <3>2, PlainKept
    <3> QED
      BY <2>1, <3>1, <3>3, ToBefore DEF Before
  <2>3. CASE at = "sequence"
    <3>1. CASE Throws
      BY <3>1, Rejects
    <3> DEFINE c == Place(ix, ProposerAcct.tempId)
               v == req.answer.keys[KeyOf(ProposerAcct)]
    <3>2. CASE Goes("inside", [ix EXCEPT !.accounts[c].sequenceNum = v])
      <4>1. at' = "inside" /\ ix' = [ix EXCEPT !.accounts[c].sequenceNum = v]
        BY <3>2 DEF Goes
      <4> HIDE DEF c, v
      <4>2. Plain(ix') /\ RolesTaken(ix')
        BY <2>1, <4>1, Counted
      <4> QED
        BY <2>1, <4>1, <4>2, ToBefore DEF Before
    <3> QED
      BY <2>3, <3>1, <3>2 DEF NodeAnswers
  <2> QED
    BY <1>2, <2>2, <2>3
<1> QED
  BY <1>1, <1>2

\* What asks for nothing changes nothing of it.
LEMMA SentTakes == ASSUME SentInv, NodeTakes \/ OthersUse \/ UNCHANGED ixvars PROVE SentInv'
<1>1. ix' = ix /\ asked' = asked /\ at' = at /\ work' = work
  BY DEF NodeTakes, OthersUse, ixvars
<1> QED
  BY <1>1, StayedIn

LEMMA SentWaits == ASSUME SentInv, Unavailable \/ Retries \/ RequestFails \/ send PROVE SentInv'
<1>1. CASE Throws
  BY <1>1, Rejects
<1>2. ~ Throws => ix' = ix /\ asked' = asked /\ at' = at /\ work' = work
  BY DEF Unavailable, Retries, RequestFails, send, Only
<1> QED
  BY <1>1, <1>2, StayedIn

LEMMA SentDecode == ASSUME decode PROVE SentInv'
<1>1. at' \in {"resolved", "forgotten", "rejected"}
  BY DEF decode, Goes, Throws
<1> QED
  BY <1>1, ToSettled DEF Before, After

LEMMA SentDeclines == ASSUME Declines PROVE SentInv'
BY Rejects DEF Declines

-----------------------------------------------------------------------------
(* The signatures.                                                         *)

LEMMA SignersNamed ==
  ASSUME NEW i, Listed(i)
  PROVE  /\ InsideSigners(i) \subseteq Ids(i) /\ OutsideSigners(i) \subseteq Ids(i)
         /\ OutsideSigners(i) = ToSet(i.payer)
BY DEF InsideSigners, OutsideSigners, Listed

LEMMA SentAsksInside == ASSUME SentInv, AsksInside PROVE SentInv'
<1>1. asked = {} /\ Plain(ix) /\ RolesTaken(ix)
  BY DEF SentInv, AsksInside, Before
<1>2. CASE Throws
  BY <1>2, Rejects
<1>3. CASE Goes("insideSigning", ix)
  <2>1. at' = "insideSigning" /\ ix' = ix
    BY <1>3 DEF Goes
  <2>2. asked' = {Signer(t, InsideMessage) : t \in {u \in InsideSigners(ix) : CanSign(u)}}
    BY <1>1 DEF AsksInside, AsksSigners
  <2>3. ASSUME NEW s \in asked' PROVE Shown(ix, s)
    <3>1. PICK t \in InsideSigners(ix) : CanSign(t) /\ s = Signer(t, InsideMessage)
      BY <2>2
    <3>2. s.id = t /\ s.signable.message = InsideMessage
      BY <3>1 DEF Signer, buildSignable
    <3>3. InsideMessage = PayloadOf(ix)
      BY DEF InsideMessage, PayloadOf
    <3>4. t \in Ids(ix)
      BY <1>1, <3>1, SignersNamed DEF Plain
    <3> QED
      BY <3>1, <3>2, <3>3, <3>4 DEF Shown, CanSign
  <2>4. Signed(ix)
    BY <1>1 DEF Plain, Unsigned, Signed
  <2>5. InHand(ix', asked')
    BY <1>1, <2>1, <2>3, <2>4 DEF InHand, Plain
  <2> QED
    BY <2>1, <2>5, ToAfter DEF After
<1> QED
  BY <1>2, <1>3 DEF AsksInside, AsksSigners

LEMMA SentAsksOutside == ASSUME SentInv, AsksOutside PROVE SentInv'
<1>1. isTransaction(ix) => InHand(ix, asked)
  BY DEF SentInv, AsksOutside, After
<1>2. CASE Throws
  BY <1>2, Rejects
<1>3. CASE Goes("outsideSigning", ix)
  <2>1. at' = "outsideSigning" /\ ix' = ix
    BY <1>3 DEF Goes
  <2>2. asked' = asked \cup {Signer(t, OutsideMessage) : t \in {u \in OutsideSigners(ix) : CanSign(u)}}
    BY DEF AsksOutside, AsksSigners
  <2>3. ASSUME InHand(ix, asked), NEW s \in asked' PROVE Shown(ix, s)
    <3>1. CASE s \in asked
      BY <2>3, <3>1 DEF InHand
    <3>2. CASE s \notin asked
      <4>1. PICK t \in OutsideSigners(ix) : CanSign(t) /\ s = Signer(t, OutsideMessage)
        BY <2>2, <3>2
      <4>2. s.id = t
        BY <4>1 DEF Signer
      <4>3. t \in Ids(ix) /\ t \in ToSet(ix.payer)
        BY <2>3, <4>1, SignersNamed DEF InHand
      <4> QED
        BY <4>1, <4>2, <4>3 DEF Shown, CanSign
    <3> QED
      BY <3>1, <3>2
  <2>4. isTransaction(ix') => InHand(ix', asked')
    BY <1>1, <2>1, <2>3 DEF InHand
  <2> QED
    BY <2>1, <2>4, ToAfter DEF After
<1> QED
  BY <1>2, <1>3 DEF AsksOutside, AsksSigners

\* A step after which the interaction is what it was.
LEMMA SentGoes ==
  ASSUME SentInv, at \in After, at' \in After, ix' = ix, asked' = asked PROVE SentInv'
<1>1. isTransaction(ix') => InHand(ix', asked')
  BY DEF SentInv
<1> QED
  BY <1>1, ToAfter

LEMMA SentAllSigned == ASSUME SentInv, AllSigned PROVE SentInv'
<1>1. at \in After /\ at' \in After /\ ix' = ix /\ asked' = asked
  BY DEF AllSigned, Goes, Only, After
<1> QED
  BY <1>1, SentGoes

LEMMA SentIntercept == ASSUME SentInv, resolveVoucherIntercept PROVE SentInv'
<1>1. CASE Throws
  BY <1>1, Rejects
<1>2. ~ Throws => at \in After /\ at' \in After /\ ix' = ix /\ asked' = asked
  BY DEF resolveVoucherIntercept, Goes, Only, After
<1> QED
  BY <1>1, <1>2, SentGoes

\* The parts of an interaction that is being signed.
LEMMA InHandParts ==
  ASSUME NEW i, NEW shown, InHand(i, shown)
  PROVE  /\ DOMAIN i = IxFields /\ IsSeq(i.accounts) /\ Formed(i) /\ Listed(i) /\ RolesTaken(i)
         /\ \A p \in DOMAIN i.accounts :
              Person(i.accounts[p], i) /\ Resigns(i, i.accounts[p], i.accounts[p])
BY FormedParts DEF InHand, Signed, Resigns, SameKey

LEMMA SignedOne ==
  ASSUME NEW i, NEW shown, InHand(i, shown), NEW s \in shown,
         NEW j, j = [i EXCEPT !.accounts[Place(i, s.id)].signature =
                       [by |-> KeyOf(Acct(i, s.id)), message |-> s.signable.message]]
  PROVE  InHand(j, shown)
<1> DEFINE people == i.accounts
           c == Place(i, s.id)
           v == [by |-> KeyOf(Acct(i, s.id)), message |-> s.signable.message]
           a == [people[c] EXCEPT !.signature = v]
           b == [people EXCEPT ![c] = a]
<1>1. /\ DOMAIN i = IxFields /\ IsSeq(people) /\ Formed(i) /\ Listed(i) /\ RolesTaken(i)
      /\ \A p \in DOMAIN people : Person(people[p], i) /\ Resigns(i, people[p], people[p])
  BY InHandParts
<1>2. /\ s.id \in Ids(i) /\ Acct(i, s.id).addr # Null
      /\ s.id \notin ToSet(i.payer) => s.signable.message = PayloadOf(i)
  BY DEF InHand, Shown
<1>3. c \in DOMAIN people /\ people[c].tempId = s.id /\ Acct(i, s.id) = people[c]
  BY <1>1, <1>2, FormedParts DEF Acct
<1>4. /\ DOMAIN j = DOMAIN i /\ j.accounts = b /\ j.roles = i.roles /\ SameText(i, j)
  BY <1>1 DEF IxFields, SameText
<1>5. IsSeq(b) /\ DOMAIN b = DOMAIN people /\ b[c] = a /\ \A p \in DOMAIN people : p # c => b[p] = people[p]
  <2> HIDE DEF a, people, c
  <2> QED
    BY <1>1, <1>3, Changed
<1>6. DOMAIN people[c] = Fields
  BY <1>1, <1>3 DEF Person
<1> HIDE DEF v, c, people
<1>7. /\ DOMAIN a = Fields /\ a.signature = v /\ a.tempId = people[c].tempId /\ a.role = people[c].role
      /\ a.resolve = people[c].resolve /\ a.addr = people[c].addr /\ a.keyId = people[c].keyId
      /\ a.sequenceNum = people[c].sequenceNum
  BY <1>6 DEF Fields
<1> HIDE DEF a, b
<1>8. ASSUME NEW p \in DOMAIN people
      PROVE  Resigns(i, people[p], b[p])
  <2>1. CASE p = c
    <3>1. b[p] = a
      BY <1>5, <2>1
    <3>2. KeyOf(a) = KeyOf(people[c])
      BY <1>7 DEF KeyOf
    <3>3. SameKey(people[p], a)
      BY <1>7, <2>1 DEF SameKey
    <3>4. Person(a, i)
      BY <1>1, <1>3, <1>7 DEF Person
    <3>5. a.addr # Null
      BY <1>2, <1>3, <1>7
    <3>6. a.tempId \notin ToSet(i.payer) => a.signature = [by |-> KeyOf(a), message |-> PayloadOf(i)]
      BY <1>2, <1>3, <1>7, <3>2 DEF v
    <3> QED
      BY <1>7, <2>1, <3>1, <3>3, <3>4, <3>5, <3>6 DEF Resigns
  <2>2. CASE p # c
    <3>1. b[p] = people[p]
      BY <1>5, <2>2
    <3> QED
      BY <1>1, <3>1
  <2> QED
    BY <2>1, <2>2
<1>9. /\ Formed(j) /\ Listed(j) /\ RolesTaken(j) /\ Signed(j)
      /\ \A x : Shown(i, x) => Shown(j, x)
  <2>1. \A p \in DOMAIN i.accounts : Resigns(i, i.accounts[p], j.accounts[p])
    BY <1>4, <1>8 DEF people
  <2>2. IsSeq(j.accounts) /\ DOMAIN j.accounts = DOMAIN i.accounts
    BY <1>4, <1>5 DEF people
  <2> QED
    BY <1>1, <1>4, <2>1, <2>2, Resigned
<1> QED
  BY <1>9 DEF InHand

LEMMA SentSigns == ASSUME SentInv, Signs PROVE SentInv'
<1>1. at \in After /\ at' = at /\ asked' = asked
  BY DEF Signs, Goes, Only, After
<1>2. PICK s \in Pending : ix' = [ix EXCEPT !.accounts[Place(ix, s.id)].signature =
                   [by |-> KeyOf(Acct(ix, s.id)), message |-> s.signable.message]]
  BY DEF Signs, Goes
<1>3. s \in asked
  BY DEF Pending
<1>4. isTransaction(ix') => isTransaction(ix)
  BY <1>2 DEF isTransaction
<1>5. isTransaction(ix) => InHand(ix, asked)
  BY <1>1 DEF SentInv
<1>6. isTransaction(ix') => InHand(ix', asked')
  BY <1>1, <1>2, <1>3, <1>4, <1>5, SignedOne
<1> QED
  BY <1>1, <1>6, ToAfter

LEMMA SansSeq == ASSUME NEW people, IsSeq(people) PROVE IsSeq(Sans(people)) /\ DOMAIN Sans(people) = DOMAIN people
<1> DEFINE b == Sans(people)
           R == {b[p] : p \in DOMAIN b}
           T == ToSet(people)
<1>1. people \in Seq(T)
  BY DEF IsSeq
<1> HIDE DEF T
<1>2. DOMAIN people = 1 .. Len(people) /\ Len(people) \in Nat
  BY <1>1, OwnItems
<1>3. DOMAIN b = DOMAIN people /\ b = [p \in DOMAIN b |-> b[p]]
  BY DEF Sans
<1> HIDE DEF b
<1>4. \A p \in 1 .. Len(people) : b[p] \in R
  BY <1>2, <1>3
<1> HIDE DEF R
<1> DEFINE n == Len(people)
<1>5. n \in Nat /\ b = [p \in 1 .. n |-> b[p]] /\ \A p \in 1 .. n : b[p] \in R
  BY <1>2, <1>3, <1>4
<1> HIDE DEF n
<1>6. b \in Seq(R)
  BY <1>5
<1> QED
  BY <1>3, <1>6, OwnItems DEF b

LEMMA SansResigns ==
  ASSUME NEW i, NEW x, Person(x, i), Resigns(i, x, x), NEW addr, addr = x.addr,
         NEW a, a = [x EXCEPT !.addr = San(addr)]
  PROVE  Resigns(i, x, a)
<1>1. DOMAIN x = Fields /\ (addr # Null => IsAddr(addr))
  BY DEF Person
<1>2. /\ DOMAIN a = Fields /\ a.addr = San(addr) /\ a.tempId = x.tempId /\ a.role = x.role
      /\ a.resolve = x.resolve /\ a.keyId = x.keyId /\ a.signature = x.signature
      /\ a.sequenceNum = x.sequenceNum
  BY <1>1 DEF Fields
<1>3. San(San(addr)) = San(addr)
      /\ (addr # Null => San(addr) # Null /\ San(addr).a = addr.a /\ IsAddr(San(addr)))
  BY <1>1, SanTwice
<1>4. ASSUME addr = Null PROVE San(addr) = Null
  BY <1>4 DEF San
<1>5. KeyOf(a) = KeyOf(x)
  BY <1>2, <1>3, <1>4 DEF KeyOf
<1>6. SameKey(x, a) /\ Person(a, i)
  BY <1>2, <1>3, <1>4 DEF SameKey, Person
<1> QED
  BY <1>2, <1>3, <1>5, <1>6 DEF Resigns

LEMMA Sanitized ==
  ASSUME NEW i, NEW shown, InHand(i, shown), NEW j, j = [i EXCEPT !.accounts = Sans(@)]
  PROVE  InHand(j, shown)
<1> DEFINE people == i.accounts
           b == Sans(people)
<1>1. /\ DOMAIN i = IxFields /\ IsSeq(people) /\ Formed(i) /\ Listed(i) /\ RolesTaken(i)
      /\ \A p \in DOMAIN people : Person(people[p], i) /\ Resigns(i, people[p], people[p])
  BY InHandParts
<1>2. /\ DOMAIN j = DOMAIN i /\ j.accounts = b /\ j.roles = i.roles /\ SameText(i, j)
  BY <1>1 DEF IxFields, SameText
<1> HIDE DEF people
<1>3. IsSeq(b) /\ DOMAIN b = DOMAIN people
  BY <1>1, SansSeq
<1>4. ASSUME NEW p \in DOMAIN people PROVE Resigns(i, people[p], b[p])
  <2>1. b[p] = [people[p] EXCEPT !.addr = San(people[p].addr)]
    BY DEF Sans
  <2> HIDE DEF b
  <2> QED
    BY <1>1, <2>1, SansResigns
<1> HIDE DEF b
<1>5. /\ Formed(j) /\ Listed(j) /\ RolesTaken(j) /\ Signed(j)
      /\ \A s : Shown(i, s) => Shown(j, s)
  <2>1. \A p \in DOMAIN i.accounts : Resigns(i, i.accounts[p], j.accounts[p])
    BY <1>2, <1>4 DEF people
  <2>2. IsSeq(j.accounts) /\ DOMAIN j.accounts = DOMAIN i.accounts
    BY <1>2, <1>3 DEF people
  <2> QED
    BY <1>1, <1>2, <2>1, <2>2, Resigned
<1> QED
  BY <1>5 DEF InHand

LEMMA SentNormalizes == ASSUME SentInv, resolveFinalNormalization PROVE SentInv'
<1>1. at \in After /\ at' \in After /\ asked' = asked
  BY DEF resolveFinalNormalization, Goes, Only, After
<1>2. ix' = [ix EXCEPT !.accounts = Sans(@)]
  BY DEF resolveFinalNormalization, Goes
<1>3. isTransaction(ix') => isTransaction(ix)
  BY <1>2 DEF isTransaction
<1>4. isTransaction(ix) => InHand(ix, asked)
  BY <1>1 DEF SentInv
<1>5. isTransaction(ix') => InHand(ix', asked')
  BY <1>1, <1>2, <1>3, <1>4, Sanitized
<1> QED
  BY <1>1, <1>5, ToAfter

LEMMA SentValidates == ASSUME SentInv, resolveValidators PROVE SentInv'
<1>1. CASE Throws
  BY <1>1, Rejects
<1>2. CASE ix' = ix /\ ~ Throws
  <2>1. at \in After /\ at' \in After /\ asked' = asked
    BY <1>2 DEF resolveValidators, Goes, Only, After
  <2> QED
    BY <1>2, <2>1, SentGoes
<1>3. CASE ix' = Ok(ix) /\ ~ Throws
  <2>1. at \in After /\ at' \in After /\ asked' = asked
    BY <1>3 DEF resolveValidators, Goes, Only, After
  <2>2. isTransaction(ix') => isTransaction(ix)
    BY <1>3 DEF isTransaction, Ok
  <2>3. isTransaction(ix) => InHand(ix, asked)
    BY <2>1 DEF SentInv
  <2>4. ASSUME InHand(ix, asked) PROVE InHand(ix', asked)
    <3>1. DOMAIN ix = IxFields
      BY <2>4, InHandParts
    <3>2. /\ DOMAIN ix' = DOMAIN ix /\ ix'.accounts = ix.accounts /\ ix'.roles = ix.roles
          /\ SameText(ix, ix')
      BY <1>3, <3>1 DEF IxFields, SameText, Ok
    <3>3. \A p \in DOMAIN ix.accounts : Resigns(ix, ix.accounts[p], ix'.accounts[p])
      BY <2>4, <3>2, InHandParts
    <3>4. /\ Formed(ix') /\ Listed(ix') /\ RolesTaken(ix') /\ Signed(ix')
          /\ \A s : Shown(ix, s) => Shown(ix', s)
      BY <2>4, <3>2, <3>3, InHandParts, Resigned
    <3> QED
      BY <2>4, <3>4 DEF InHand
  <2>5. isTransaction(ix') => InHand(ix', asked')
    BY <2>1, <2>2, <2>3, <2>4
  <2> QED
    BY <2>1, <2>5, ToAfter
<1> QED
  BY <1>1, <1>2, <1>3 DEF resolveValidators, Goes

-----------------------------------------------------------------------------
(* What is sent.                                                           *)

\* What is no transaction does not ask the node to take one.
LEMMA NotSubmitted ==
  ASSUME NEW i, Tagged(i), ~ isTransaction(i), NEW over PROVE Request(over, i).op # "submit"
<1>1. i.tag \in Tags \ {"TRANSACTION"}
  BY DEF Tagged, isTransaction
<1>2. \A op, of, where, body : Asked(op, of, where, body).op = op
  BY DEF Asked
<1>3. HttpAsks(httpSend(i)).op # "submit"
  <2> DEFINE r == httpSend(i)
  <2>1. CASE i.tag = "GET_TRANSACTION_STATUS"
    <3>1. r = Http(<<"transaction_results", i.id>>, Nowhere, Null)
      BY <2>1 DEF httpSend, httpTransactionStatus
    <3> HIDE DEF r
    <3> QED
      BY <1>2, <3>1, HttpTakes DEF r
  <2>2. CASE i.tag = "GET_TRANSACTION"
    <3>1. r = Http(<<"transactions", i.id>>, Nowhere, Null)
      BY <2>2 DEF httpSend, httpGetTransaction
    <3> HIDE DEF r
    <3> QED
      BY <1>2, <3>1, HttpTakes DEF r
  <2>3. CASE i.tag = "SCRIPT"
    <3>1. PICK where, body : r = Http(<<"scripts">>, where, body)
      BY <2>3 DEF httpSend, httpScript
    <3> HIDE DEF r
    <3> QED
      BY <1>2, <3>1, HttpTakes DEF r
  <2>4. CASE i.tag = "GET_ACCOUNT"
    <3>1. PICK where, body : r = Http(<<"accounts", i.id>>, where, body)
      BY <2>4 DEF httpSend, httpAccount
    <3> HIDE DEF r
    <3> QED
      BY <1>2, <3>1, HttpTakes DEF r
  <2>5. CASE i.tag = "GET_EVENTS"
    <3>1. PICK where, body : r = Http(<<"events", i.events.type>>, where, body)
      BY <2>5 DEF httpSend, httpEvents
    <3> HIDE DEF r
    <3> QED
      BY <1>2, <3>1, HttpTakes DEF r
  <2>6. CASE i.tag = "GET_BLOCK"
    <3>1. PICK where : r = Http(<<"blocks", "payload">>, where, Null)
      BY <2>6 DEF httpSend, httpBlock, httpBlockAt
    <3> HIDE DEF r
    <3> QED
      BY <1>2, <3>1, HttpTakes DEF r
  <2>7. CASE i.tag = "GET_BLOCK_HEADER"
    <3>1. PICK where : r = Http(<<"blocks">>, where, Null)
      BY <2>7 DEF httpSend, httpBlockHeader, httpBlockAt
    <3> HIDE DEF r
    <3> QED
      BY <1>2, <3>1, HttpTakes DEF r
  <2>8. CASE i.tag = "GET_COLLECTION"
    <3>1. r = Http(<<"collections", i.id>>, Nowhere, Null)
      BY <2>8 DEF httpSend, httpCollection
    <3> HIDE DEF r
    <3> QED
      BY <1>2, <3>1, HttpTakes DEF r
  <2>9. CASE i.tag = "PING"
    <3>1. PICK where : r = Http(<<"blocks">>, where, Null)
      BY <2>9 DEF httpSend, httpPing
    <3> HIDE DEF r
    <3> QED
      BY <1>2, <3>1, HttpTakes DEF r
  <2>10. CASE i.tag = "GET_NETWORK_PARAMETERS"
    <3>1. r = Http(<<"network", "parameters">>, Nowhere, Null)
      BY <2>10 DEF httpSend, httpNetworkParameters
    <3> HIDE DEF r
    <3> QED
      BY <1>2, <3>1, HttpTakes DEF r
  <2>11. CASE i.tag = "GET_NODE_VERSION_INFO"
    <3>1. r = Http(<<"node_version_info">>, Nowhere, Null)
      BY <2>11 DEF httpSend, httpNodeVersionInfo
    <3> HIDE DEF r
    <3> QED
      BY <1>2, <3>1, HttpTakes DEF r
  <2> QED
    BY <1>1, <2>1, <2>2, <2>3, <2>4, <2>5, <2>6, <2>7, <2>8, <2>9, <2>10, <2>11 DEF Tags
<1>4. GrpcAsks(grpcSend(i)).op # "submit"
  <2>1. CASE i.tag = "PING"
    <3>1. grpcSend(i).method = "Ping"
      BY <2>1 DEF grpcSend, grpcPing, Grpc
    <3>2. GrpcOp("Ping") = "ping"
      BY DEF GrpcOp
    <3> QED
      BY <3>1, <3>2 DEF GrpcAsks
  <2>2. CASE i.tag # "PING"
    <3>1. Agrees(i)
      BY <1>1, <2>2, Agree
    <3> QED
      BY <1>3, <3>1 DEF Agrees
  <2> QED
    BY <2>1, <2>2
<1> QED
  BY <1>3, <1>4 DEF Request

\* The transaction that is submitted over either transport.
LEMMA Submits ==
  ASSUME NEW i, isTransaction(i), NEW over
  PROVE  Request(over, i).body = TransactionSent(i, Unique(Signatures(i, FALSE)), Signatures(i, TRUE))
<1> DEFINE tx == TransactionSent(i, Unique(Signatures(i, FALSE)), Signatures(i, TRUE))
<1>1. httpSend(i) = Http(<<"transactions">>, Nowhere, tx)
  BY DEF httpSend, httpTransaction, isTransaction
<1> HIDE DEF tx
<1>2. HttpAsks(httpSend(i)) = Asked("submit", Null, Nowhere, tx)
  BY <1>1, HttpTakes
<1>3. HttpAsks(httpSend(i)) = GrpcAsks(grpcSend(i))
  BY TransactionAgrees DEF Agrees, isTransaction
<1>4. Asked("submit", Null, Nowhere, tx).body = tx
  BY DEF Asked
<1> QED
  BY <1>2, <1>3, <1>4 DEF Request, tx

\* The payload signatures that are sent are of accounts that do not pay.
LEMMA SignaturesFrom ==
  ASSUME NEW i, IsSeq(i.accounts), NEW s \in ToSet(Unique(Signatures(i, FALSE)))
  PROVE  \E p \in DOMAIN i.accounts :
           /\ s = SigSent(i.accounts[p]) /\ i.accounts[p].signature # Null
           /\ "payer" \notin i.roles[i.accounts[p].role]
<1> DEFINE people == i.accounts
           S == {a \in ToSet(people) : /\ a.signature # Null
                                       /\ ("payer" \in i.roles[a.role]) = FALSE}
           signers == Among(people, S)
           R == {SigSent(a) : a \in S}
           sigs == Signatures(i, FALSE)
<1>1. signers \in Seq(S)
  <2> DEFINE A == ToSet(people)
  <2>1. people \in Seq(A)
    BY DEF IsSeq
  <2> HIDE DEF A, S, people
  <2>2. signers \in Seq(A) /\ ToSet(signers) \subseteq S
    BY <2>1, AmongIs
  <2> HIDE DEF signers
  <2>3. IsSeq(signers)
    BY <2>2, OwnItems
  <2> QED
    BY <2>2, <2>3, InSeq
<1>2. sigs = [k \in DOMAIN signers |-> SigSent(signers[k])]
  BY DEF Signatures
<1>3. \A a \in S : SigSent(a) \in R
  OBVIOUS
<1>4. \A x \in R : \E p \in DOMAIN people :
                     /\ x = SigSent(people[p]) /\ people[p].signature # Null
                     /\ "payer" \notin i.roles[people[p].role]
  BY DEF ToSet
<1> HIDE DEF R, S, signers, sigs
<1> DEFINE n == Len(signers)
<1>5. n \in Nat /\ DOMAIN signers = 1 .. n /\ \A k \in 1 .. n : signers[k] \in S
  BY <1>1
<1> HIDE DEF n
<1>6. sigs \in Seq(R)
  <2>1. sigs = [k \in 1 .. n |-> SigSent(signers[k])] /\ \A k \in 1 .. n : SigSent(signers[k]) \in R
    BY <1>2, <1>3, <1>5
  <2> QED
    BY <1>5, <2>1
<1>7. ToSet(Unique(sigs)) \subseteq R
  BY <1>6, UniqueIn, OwnItems
<1> QED
  BY <1>4, <1>7 DEF sigs

LEMMA PayloadsOver ==
  ASSUME NEW i, NEW shown, InHand(i, shown),
         NEW tx, tx = TransactionSent(i, Unique(Signatures(i, FALSE)), Signatures(i, TRUE)),
         tx.proposalKey.sequenceNum # Null, NEW s \in ToSet(tx.payloadSigs)
  PROVE  Over(s, encodeTransactionPayload(tx))
<1>1. /\ encodeTransactionPayload(tx) = Encoding(i, NumberOf(i))
      /\ tx.payloadSigs = Unique(Signatures(i, FALSE)) /\ NumberOf(i) # Null
  <2> DEFINE x == Unique(Signatures(i, FALSE))
             y == Signatures(i, TRUE)
  <2>1. tx = TransactionSent(i, x, y)
    OBVIOUS
  <2> HIDE DEF x, y
  <2>2. Carries(tx, i, x)
    BY <2>1, SentIs
  <2> QED
    BY <2>2 DEF x, Carries
<1>2. encodeTransactionPayload(tx) = PayloadOf(i)
  BY <1>1, PayloadIs
<1>3. PICK p \in DOMAIN i.accounts :
           /\ s = SigSent(i.accounts[p]) /\ i.accounts[p].signature # Null
           /\ "payer" \notin i.roles[i.accounts[p].role]
  <2>1. IsSeq(i.accounts)
    BY InHandParts
  <2>2. s \in ToSet(Unique(Signatures(i, FALSE)))
    BY <1>1
  <2> QED
    BY <2>1, <2>2, SignaturesFrom
<1> DEFINE a == i.accounts[p]
<1>4. a.tempId \notin ToSet(i.payer)
  <2>1. a.tempId \in Ids(i) /\ Place(i, a.tempId) = p
    BY FormedParts DEF InHand
  <2>2. Role(i, a.tempId) = i.roles[a.role]
    BY <2>1 DEF Role, Acct
  <2>3. \A t \in ToSet(i.payer) : "payer" \in Role(i, t)
    BY DEF InHand, Listed
  <2> QED
    BY <1>3, <2>2, <2>3
<1>5. a.addr # Null /\ a.signature = [by |-> KeyOf(a), message |-> PayloadOf(i)] /\ Person(a, i)
  BY <1>3, <1>4, InHandParts DEF Resigns
<1>6. s = SigSent(a)
  BY <1>3
<1> HIDE DEF a
<1>7. San(a.addr).a = a.addr.a
  BY <1>5, SanTwice DEF Person
<1>8. s.address = San(a.addr) /\ s.keyId = a.keyId /\ s.sig = a.signature
  BY <1>6 DEF SigSent
<1> QED
  BY <1>2, <1>5, <1>7, <1>8 DEF Over, KeyOf

LEMMA SentStarts == ASSUME IxInit PROVE SentInv
<1>1. /\ at = "build" /\ asked = {} /\ call \in Calls /\ ix = pipe(Steps(call))
  BY DEF IxInit
<1>2. Plain(ix)
  BY <1>1, PipeCast DEF Cast, Plain
<1> QED
  BY <1>1, <1>2 DEF SentInv, After

LEMMA SentKept ==
  ASSUME Flow, SentInv, [IxNext]_ixvars PROVE SentInv'
<1>1. CASE NodeAnswers
  <2>1. at \in {"ref", "sequence", "send"}
    BY <1>1 DEF NodeAnswers, Flow, Waits, Fetching
  <2> QED
    BY <1>1, <2>1, SentAnswers
<1> QED
  BY <1>1, SentBuilds, SentCadence, SentLimit, SentArguments, SentAccounts, SentEndsLevel,
     SentNoTransaction, SentFetchRef, SentFetchSequence, SentTakes, SentWaits, SentDecode,
     SentDeclines, SentAsksInside, SentAsksOutside, SentAllSigned, SentIntercept, SentSigns,
     SentNormalizes, SentValidates DEF IxNext, Library, Program, Node

LEMMA PayloadsStart == ASSUME IxInit PROVE PayloadsSigned
BY DEF IxInit, PayloadsSigned, Submitted

\* Only a step of the node adds to what it has taken.
LEMMA OnlyTakes ==
  ASSUME [IxNext]_ixvars, ~ NodeTakes PROVE taken' = taken
<1> USE DEF Only
<1>1. CASE Library
  BY <1>1 DEF Library, Builds, resolveCadence, resolveComputeLimit, resolveArguments, EndsLevel,
     NoTransaction, execFetchRef, execFetchSequenceNumber, AsksInside, AsksOutside, AsksSigners,
     AllSigned, resolveFinalNormalization, resolveValidators, send, Retries, decode
<1>2. CASE Program
  BY <1>2 DEF Program, resolveAccountsByIds, Signs, Declines, resolveVoucherIntercept
<1>3. CASE Unavailable \/ NodeAnswers \/ RequestFails \/ OthersUse \/ UNCHANGED ixvars
  BY <1>3 DEF Unavailable, NodeAnswers, RequestFails, OthersUse, ixvars
<1> QED
  BY <1>1, <1>2, <1>3 DEF IxNext, Node

LEMMA PayloadsKept ==
  ASSUME Flow, TagInv, SentInv, PayloadsSigned, [IxNext]_ixvars PROVE PayloadsSigned'
<1>1. CASE ~ NodeTakes
  <2>1. Submitted' = Submitted
    BY <1>1, OnlyTakes, SameTaken
  <2> QED
    BY <2>1 DEF PayloadsSigned
<1>2. CASE NodeTakes
  <2>1. taken' = taken \cup {Requested} /\ at \in {"ref", "sequence", "send"}
    BY <1>2 DEF NodeTakes, Flow, Waits, Fetching
  <2> SUFFICES ASSUME NEW tx \in Submitted', tx.proposalKey.sequenceNum # Null,
                      NEW s \in ToSet(tx.payloadSigs)
               PROVE  Over(s, encodeTransactionPayload(tx))
    BY DEF PayloadsSigned
  <2>2. CASE tx \in Submitted
    BY <2>2 DEF PayloadsSigned
  <2>3. CASE tx \notin Submitted
    <3>1. Requested.op = "submit" /\ tx = Requested.body
      BY <2>1, <2>3 DEF Submitted
    <3>2. at = "send" /\ Requested = Request(transport, ix)
      BY <2>1, <3>1, Earlier, Sending
    <3>3. isTransaction(ix)
      BY <3>1, <3>2, NotSubmitted DEF TagInv
    <3>4. InHand(ix, asked)
      BY <3>2, <3>3 DEF SentInv, After
    <3>5. tx = TransactionSent(ix, Unique(Signatures(ix, FALSE)), Signatures(ix, TRUE))
      BY <3>1, <3>2, <3>3, Submits
    <3> QED
      BY <3>4, <3>5, PayloadsOver
  <2> QED
    BY <2>2, <2>3
<1> QED
  BY <1>1, <1>2

\* Every payload signature of a transaction the node receives, if it has a sequence
\* number, is the signature of the key it is sent for over the payload of that
\* transaction: the wallets were shown what is sent, whatever accounts the functions
\* of the program returned, in whatever order the wallets answered, and although the
\* addresses are written otherwise in between and requests are repeated.
THEOREM SignedIsSent == IxSpec => []PayloadsSigned
<1>1. IxInit => OneInv /\ TagInv /\ SentInv /\ PayloadsSigned
  BY OneStarts, TagStarts, SentStarts, PayloadsStart
<1>2. OneInv /\ TagInv /\ SentInv /\ PayloadsSigned /\ [IxNext]_ixvars
        => (OneInv /\ TagInv /\ SentInv /\ PayloadsSigned)'
  BY OneKept, TagKept, SentKept, PayloadsKept DEF OneInv
<1> QED
  BY <1>1, <1>2, PTL DEF IxSpec
=============================================================================
