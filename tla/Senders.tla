------------------------------ MODULE Senders ------------------------------
(***************************************************************************)
(* The two transports: the request that packages/transport-http makes of   *)
(* an interaction, a path with a query and a body, and the one             *)
(* packages/transport-grpc makes, a method with a message.  The access     *)
(* node is external: HttpAsks and GrpcAsks are what it takes a request of  *)
(* its two interfaces to ask for.                                          *)
(***************************************************************************)
EXTENDS Signing

Access == INSTANCE AccessMessages

Arguments(ix) == [i \in DOMAIN ix.arguments |-> ix.arguments[i].asArgument]

(* The signatures of a transaction: those of accounts that do not pay, two *)
(* equal ones sent once, and those of accounts that pay, one of each       *)
(* account: http keys them by its id.                                      *)
SigSent(a) == [address |-> San(a.addr), keyId |-> a.keyId, sig |-> a.signature]
(* Mutant: it is not looked at who pays. *)
SignaturesOfAll(ix, pays) ==
  LET as == Among(ix.accounts, {a \in ToSet(ix.accounts) : a.signature # Null})
  IN [i \in DOMAIN as |-> SigSent(as[i])]
Signatures(ix, pays) ==
  LET as == Among(ix.accounts, {a \in ToSet(ix.accounts) :
                                  /\ a.signature # Null
                                  /\ ("payer" \in ix.roles[a.role]) = pays})
  IN [i \in DOMAIN as |-> SigSent(as[i])]

TransactionSent(ix, payload, envelope) ==
  [TransactionOf(ix, FALSE, << >>, << >>) EXCEPT !.payloadSigs = payload, !.envelopeSigs = envelope]

(* Events of no blocks at all: both senders refuse to ask. *)
Undetermined(ix) == ix.tag = "GET_EVENTS" /\ ix.events.start = Null /\ ix.events.ids = << >>

-----------------------------------------------------------------------------
(* transport-http: a path, the block named in the query, a body. *)
Http(path, at, body) == [path |-> path, at |-> at, body |-> body]
AtId(id)       == <<"id", id>>
AtHeight(h)    == <<"height", h>>
Latest(finality) == <<"latest", finality>>
Nowhere        == <<"nowhere">>

httpTransaction(ix) ==
  Http(<<"transactions">>, Nowhere,
       TransactionSent(ix, Unique(Signatures(ix, FALSE)), Signatures(ix, TRUE)))
(* Mutant: the block id is not looked at. *)
httpScriptByHeight(ix) ==
  Http(<<"scripts">>,
       IF Truthy(ix.block.height) THEN AtHeight(ix.block.height) ELSE Latest("sealed"),
       [script |-> ix.cadence, arguments |-> Arguments(ix)])
httpScript(ix) ==
  Http(<<"scripts">>,
       IF Truthy(ix.block.id) THEN AtId(ix.block.id)
       ELSE IF Truthy(ix.block.height) THEN AtHeight(ix.block.height) ELSE Latest("sealed"),
       [script |-> ix.cadence, arguments |-> Arguments(ix)])
httpAccount(ix) ==
  Http(<<"accounts", ix.id>>,
       IF ix.block.height # Null THEN AtHeight(ix.block.height) ELSE Latest("sealed"), Null)
httpEvents(ix) ==
  Http(<<"events", ix.events.type>>,
       IF ix.events.start # Null THEN <<"range", ix.events.start, ix.events.end>>
       ELSE <<"ids", ix.events.ids>>, Null)
httpBlockAt(ix, path) ==
  IF ix.block.id # Null THEN Http(path, AtId(ix.block.id), Null)
  ELSE IF ix.block.height # Null THEN Http(path, AtHeight(ix.block.height), Null)
  ELSE Http(path, Latest(IF ix.block.isSealed = TRUE THEN "sealed" ELSE "final"), Null)

httpBlock(ix)             == httpBlockAt(ix, <<"blocks", "payload">>)
httpBlockHeader(ix)       == httpBlockAt(ix, <<"blocks">>)
httpTransactionStatus(ix) == Http(<<"transaction_results", ix.id>>, Nowhere, Null)
httpGetTransaction(ix)    == Http(<<"transactions", ix.id>>, Nowhere, Null)
httpCollection(ix)        == Http(<<"collections", ix.id>>, Nowhere, Null)
httpPing                  == Http(<<"blocks">>, Latest("sealed"), Null)
httpNetworkParameters     == Http(<<"network", "parameters">>, Nowhere, Null)
httpNodeVersionInfo       == Http(<<"node_version_info">>, Nowhere, Null)

httpSend(ix) ==
  CASE ix.tag = "TRANSACTION"             -> httpTransaction(ix)
    [] ix.tag = "GET_TRANSACTION_STATUS"  -> httpTransactionStatus(ix)
    [] ix.tag = "GET_TRANSACTION"         -> httpGetTransaction(ix)
    [] ix.tag = "SCRIPT"                  -> httpScript(ix)
    [] ix.tag = "GET_ACCOUNT"             -> httpAccount(ix)
    [] ix.tag = "GET_EVENTS"              -> httpEvents(ix)
    [] ix.tag = "GET_BLOCK"               -> httpBlock(ix)
    [] ix.tag = "GET_BLOCK_HEADER"        -> httpBlockHeader(ix)
    [] ix.tag = "GET_COLLECTION"          -> httpCollection(ix)
    [] ix.tag = "PING"                    -> httpPing
    [] ix.tag = "GET_NETWORK_PARAMETERS"  -> httpNetworkParameters
    [] ix.tag = "GET_NODE_VERSION_INFO"   -> httpNodeVersionInfo

(* What the REST interface of the node takes a request to ask for. *)
HttpAsks(r) ==
  [op |-> CASE r.path[1] = "transactions" /\ Len(r.path) = 1 -> "submit"
            [] r.path[1] = "transactions" /\ Len(r.path) = 2 -> "transaction"
            [] r.path = <<"blocks">>            -> "header"
            [] r.path = <<"blocks", "payload">> -> "block"
            [] r.path[1] \notin {"transactions", "blocks"} -> r.path[1],
   of |-> IF Len(r.path) = 2 /\ r.path[1] \notin {"blocks", "network"} THEN r.path[2] ELSE Null,
   at |-> r.at, body |-> r.body]

-----------------------------------------------------------------------------
(* transport-grpc: a method and the fields of its message that are set. *)
Grpc(method, message) == [method |-> method, message |-> message]
NoField               == [f \in {} |-> Null]

grpcTransaction(ix) ==
  Grpc("SendTransaction",
       [transaction |-> TransactionSent(ix, Unique(Signatures(ix, FALSE)), Signatures(ix, TRUE))])
grpcScript(ix) ==
  IF Truthy(ix.block.id)
  THEN Grpc("ExecuteScriptAtBlockID",
            [blockId |-> ix.block.id, script |-> ix.cadence, arguments |-> Arguments(ix)])
  ELSE IF Truthy(ix.block.height)
  THEN Grpc("ExecuteScriptAtBlockHeight",
            [blockHeight |-> ix.block.height, script |-> ix.cadence, arguments |-> Arguments(ix)])
  ELSE Grpc("ExecuteScriptAtLatestBlock", [script |-> ix.cadence, arguments |-> Arguments(ix)])
grpcAccount(ix) ==
  IF ix.block.height # Null
  THEN Grpc("GetAccountAtBlockHeight", [address |-> ix.id, blockHeight |-> ix.block.height])
  ELSE Grpc("GetAccountAtLatestBlock", [address |-> ix.id])
grpcEvents(ix) ==
  IF ix.events.start # Null
  THEN Grpc("GetEventsForHeightRange",
            [type |-> ix.events.type, startHeight |-> ix.events.start, endHeight |-> ix.events.end])
  ELSE Grpc("GetEventsForBlockIDs", [type |-> ix.events.type, blockIds |-> ix.events.ids])
grpcBlockAt(ix, byId, byHeight, latest) ==
  IF ix.block.id # Null THEN Grpc(byId, [id |-> ix.block.id])
  ELSE IF ix.block.height # Null THEN Grpc(byHeight, [height |-> ix.block.height])
  ELSE Grpc(latest, IF ix.block.isSealed = TRUE THEN [isSealed |-> TRUE] ELSE NoField)

grpcBlock(ix) == grpcBlockAt(ix, "GetBlockByID", "GetBlockByHeight", "GetLatestBlock")
grpcBlockHeader(ix) ==
  grpcBlockAt(ix, "GetBlockHeaderByID", "GetBlockHeaderByHeight", "GetLatestBlockHeader")
grpcTransactionStatus(ix) == Grpc("GetTransactionResult", [id |-> ix.id])
grpcGetTransaction(ix)    == Grpc("GetTransaction", [id |-> ix.id])
grpcCollection(ix)        == Grpc("GetCollectionByID", [id |-> ix.id])
grpcPing                  == Grpc("Ping", NoField)
grpcNetworkParameters     == Grpc("GetNetworkParameters", NoField)
grpcNodeVersionInfo       == Grpc("GetNodeVersionInfo", NoField)

grpcSend(ix) ==
  CASE ix.tag = "TRANSACTION"             -> grpcTransaction(ix)
    [] ix.tag = "GET_TRANSACTION_STATUS"  -> grpcTransactionStatus(ix)
    [] ix.tag = "GET_TRANSACTION"         -> grpcGetTransaction(ix)
    [] ix.tag = "SCRIPT"                  -> grpcScript(ix)
    [] ix.tag = "GET_ACCOUNT"             -> grpcAccount(ix)
    [] ix.tag = "GET_EVENTS"              -> grpcEvents(ix)
    [] ix.tag = "GET_BLOCK"               -> grpcBlock(ix)
    [] ix.tag = "GET_BLOCK_HEADER"        -> grpcBlockHeader(ix)
    [] ix.tag = "GET_COLLECTION"          -> grpcCollection(ix)
    [] ix.tag = "PING"                    -> grpcPing
    [] ix.tag = "GET_NETWORK_PARAMETERS"  -> grpcNetworkParameters
    [] ix.tag = "GET_NODE_VERSION_INFO"   -> grpcNodeVersionInfo

(* What the gRPC interface of the node reads of a request, which is what   *)
(* the class of the method's request has fields for, those not set having  *)
(* the default of their type (see Protobuf), and takes it to ask for.      *)
Received(r) ==
  LET table == Access!AccessAPI[r.method].request
      Unset(f) == CASE f.rule = "list" -> << >> [] f.type = "bool" -> FALSE
                    [] f.type = "uint64" -> 0 [] f.type \notin {"bool", "uint64"} -> Null
      FieldOf(name) == CHOOSE f \in ToSet(table) : f.name = name
  IN [name \in {f.name : f \in ToSet(table)} |->
        IF name \in DOMAIN r.message THEN r.message[name] ELSE Unset(FieldOf(name))]

GrpcOp(method) ==
  CASE method = "SendTransaction"      -> "submit"
    [] method = "GetTransactionResult" -> "transaction_results"
    [] method = "GetTransaction"       -> "transaction"
    [] method \in {"ExecuteScriptAtBlockID", "ExecuteScriptAtBlockHeight",
                   "ExecuteScriptAtLatestBlock"} -> "scripts"
    [] method \in {"GetAccountAtBlockHeight", "GetAccountAtLatestBlock"} -> "accounts"
    [] method \in {"GetEventsForHeightRange", "GetEventsForBlockIDs"}    -> "events"
    [] method \in {"GetBlockByID", "GetBlockByHeight", "GetLatestBlock"} -> "block"
    [] method \in {"GetBlockHeaderByID", "GetBlockHeaderByHeight", "GetLatestBlockHeader"} -> "header"
    [] method = "GetCollectionByID"    -> "collections"
    [] method = "GetNetworkParameters" -> "network"
    [] method = "GetNodeVersionInfo"   -> "node_version_info"
    [] method = "Ping"                 -> "ping"

GrpcAt(method, m) ==
  CASE method = "GetEventsForHeightRange"                    -> <<"range", m.startHeight, m.endHeight>>
    [] method = "GetEventsForBlockIDs"                       -> <<"ids", m.blockIds>>
    [] method = "ExecuteScriptAtBlockID"                     -> AtId(m.blockId)
    [] method \in {"GetBlockByID", "GetBlockHeaderByID"}     -> AtId(m.id)
    [] method \in {"ExecuteScriptAtBlockHeight", "GetAccountAtBlockHeight"} -> AtHeight(m.blockHeight)
    [] method \in {"GetBlockByHeight", "GetBlockHeaderByHeight"}  -> AtHeight(m.height)
    [] method \in {"ExecuteScriptAtLatestBlock", "GetAccountAtLatestBlock"} -> Latest("sealed")
    [] method \in {"GetLatestBlock", "GetLatestBlockHeader"} ->
         Latest(IF m.isSealed THEN "sealed" ELSE "final")
    [] GrpcOp(method) \notin {"events", "scripts", "accounts", "block", "header"} -> Nowhere

GrpcAsks(r) ==
  LET op == GrpcOp(r.method)
      m  == Received(r)
  IN [op |-> op, at |-> GrpcAt(r.method, m),
      of |-> CASE op = "accounts" -> m.address
               [] op = "events"   -> m.type
               [] op \in {"transaction", "transaction_results", "collections"} -> m.id
               [] op \notin {"accounts", "events", "transaction", "transaction_results",
                             "collections"} -> Null,
      body |-> CASE op = "submit"  -> m.transaction
                 [] op = "scripts" -> [script |-> m.script, arguments |-> m.arguments]
                 [] op \notin {"submit", "scripts"} -> Null]
=============================================================================
