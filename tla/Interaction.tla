---------------------------- MODULE Interaction ----------------------------
(***************************************************************************)
(* The interaction object of the SDK (packages/sdk/src/interaction) and    *)
(* the builders that fill it (packages/sdk/src/build).  A builder is an    *)
(* operator from an interaction to an interaction; a program is a sequence *)
(* of builders that pipe applies until one of them leaves the interaction  *)
(* BAD.  Accounts keep the insertion order of the object they are in, and  *)
(* a role object that several accounts share is one cell of `roles`.       *)
(***************************************************************************)
EXTENDS Integers, Sequences, FiniteSets, SequencesExt

CONSTANT Null

Truthy(v) == v # Null /\ v # 0
Fresh(n)  == <<"uuid", n, 0>>

(* A list without its repetitions: what the code gets of a Set, or of a    *)
(* reduce that looks for each item in what it has.                         *)
Unique(s) == FoldLeft(LAMBDA seen, x : IF Contains(seen, x) THEN seen ELSE Append(seen, x), << >>, s)

(* The items of a list that are in S. *)
Among(s, S) ==
  LET kept[i \in 0 .. Len(s)] ==
        IF i = 0 THEN << >> ELSE IF s[i] \in S THEN Append(kept[i - 1], s[i]) ELSE kept[i - 1]
  IN kept[Len(s)]

(* An address as it is written: with or without the prefix 0x. *)
San(addr)  == IF addr = Null THEN Null ELSE [addr EXCEPT !.pre = FALSE]
With(addr) == IF addr = Null THEN Null ELSE [addr EXCEPT !.pre = TRUE]

initInteraction ==
  [tag |-> "UNKNOWN", status |-> "OK",
   accounts |-> << >>, roles |-> << >>, uuids |-> 0,
   proposer |-> Null, payer |-> << >>, authorizations |-> << >>,
   template |-> Null, cadence |-> Null, refBlock |-> Null, computeLimit |-> Null,
   arguments |-> << >>,
   events |-> [type |-> Null, start |-> Null, end |-> Null, ids |-> << >>],
   block |-> [id |-> Null, height |-> Null, isSealed |-> Null],
   id |-> Null,               \* of the account, collection or transaction asked for
   validators |-> Null,       \* assigns["ix.validators"]
   intercept |-> FALSE]       \* whether assigns["ix.voucher-intercept"] is a function

Ok(ix)  == [ix EXCEPT !.status = "OK"]
Bad(ix) == [ix EXCEPT !.status = "BAD"]
isBad(ix) == ix.status = "BAD"
makeIx(tag, ix) == Ok([ix EXCEPT !.tag = tag])

isTransaction(ix) == ix.tag = "TRANSACTION"
isScript(ix)      == ix.tag = "SCRIPT"

(* The account with an id, and the set of ids. *)
Ids(ix)      == {ix.accounts[i].tempId : i \in DOMAIN ix.accounts}
Place(ix, t) == CHOOSE i \in DOMAIN ix.accounts : ix.accounts[i].tempId = t
Acct(ix, t)  == ix.accounts[Place(ix, t)]
Role(ix, t)  == ix.roles[Acct(ix, t).role]

(* prepAccount: a new account under a fresh id, with a role object of its  *)
(* own: the roles the account came with and the one it is used in.  The id *)
(* an account would bring itself and override this one with is left out:   *)
(* CallsAssumption (Interact) says that none does.                         *)
prepAccount(acct, role, ix) ==
  LET n == ix.uuids + 1
      added == [ix EXCEPT
        !.uuids = n,
        !.roles = Append(@, acct.role \cup {role}),
        !.accounts = Append(@, [tempId |-> Fresh(n), addr |-> acct.addr,
            keyId |-> acct.keyId, sequenceNum |-> acct.sequenceNum,
            signature |-> Null, resolve |-> acct.resolve,
            role |-> Len(ix.roles) + 1])]
  IN CASE role = "authorizer" -> [added EXCEPT !.authorizations = Append(@, Fresh(n))]
       [] role = "payer"      -> [added EXCEPT !.payer = Append(@, Fresh(n))]
       [] role = "proposer"   -> [added EXCEPT !.proposer = Fresh(n)]

makeArgument(arg, ix) ==
  Ok([ix EXCEPT !.arguments = Append(@, arg @@ [asArgument |-> Null])])

(* validator(cb): the second one finds an array and stores what push       *)
(* returns, the length of that array; the third finds a number.            *)
validator(cb, ix) ==
  Ok([ix EXCEPT !.validators =
        IF ix.validators # Null /\ ix.validators.array
        THEN [array |-> FALSE, cbs |-> << >>]
        ELSE [array |-> TRUE, cbs |-> <<cb>>]])

(* The validators themselves: what one makes of the interaction. *)
Validates(cb, ix) ==
  CASE cb = "atBlockId" ->
         /\ ix.tag # "GET_ACCOUNT"
         /\ ix.block.isSealed = Null
         /\ ~ Truthy(ix.block.height)
    [] cb = "atBlockHeight" ->
         /\ ix.block.isSealed = Null
         /\ ~ Truthy(ix.block.id)
    [] cb = "accepts" -> TRUE
    [] cb = "rejects" -> FALSE

atBlockHeight(h, ix) == validator("atBlockHeight", [ix EXCEPT !.block.height = h])
atBlockId(id, ix)    == validator("atBlockId", Ok([ix EXCEPT !.block.id = id]))

transaction(c, ix) ==
  [makeIx("TRANSACTION", ix) EXCEPT !.template = c,
     !.refBlock = IF Truthy(ix.refBlock) THEN ix.refBlock ELSE Null]
script(c, ix) == [makeIx("SCRIPT", ix) EXCEPT !.template = c]
limit(n, ix)     == [ix EXCEPT !.computeLimit = n]
ref(id, ix)      == Ok([ix EXCEPT !.refBlock = id])
voucherIntercept(ix) == Ok([ix EXCEPT !.intercept = TRUE])
invariant(holds, ix) == IF holds THEN Ok(ix) ELSE Bad(ix)
proposer(acct, ix)      == prepAccount(acct, "proposer", ix)
payer(acct, ix)         == prepAccount(acct, "payer", ix)
authorization(acct, ix) == prepAccount(acct, "authorizer", ix)

withEvents(type, from, to, ids, ix) ==
  [makeIx("GET_EVENTS", ix) EXCEPT
     !.events = [type |-> type, start |-> from, end |-> to, ids |-> ids]]
getEvents(type, from, to, ix) == withEvents(type, from, to, << >>, ix)
getEventsAtBlockIds(type, ids, ix) ==
  withEvents(type, ix.events.start, ix.events.end, ids, ix)

getBlock(sealed, ix)       == [makeIx("GET_BLOCK", ix) EXCEPT !.block.isSealed = sealed]
getBlockHeader(sealed, ix) == [makeIx("GET_BLOCK_HEADER", ix) EXCEPT !.block.isSealed = sealed]
getAccount(addr, ix)         == [makeIx("GET_ACCOUNT", ix) EXCEPT !.id = San(addr)]
getCollection(id, ix)        == [makeIx("GET_COLLECTION", ix) EXCEPT !.id = id]
getTransaction(id, ix)       == [makeIx("GET_TRANSACTION", ix) EXCEPT !.id = id]
getTransactionStatus(id, ix) == [makeIx("GET_TRANSACTION_STATUS", ix) EXCEPT !.id = id]
ping(ix)                 == makeIx("PING", ix)
getNetworkParameters(ix) == makeIx("GET_NETWORK_PARAMETERS", ix)
getNodeVersionInfo(ix)   == makeIx("GET_NODE_VERSION_INFO", ix)

(* One builder: the step names it and holds its arguments. *)
Build(step, ix) ==
  CASE step.op = "transaction"      -> transaction(step.arg, ix)
    [] step.op = "script"           -> script(step.arg, ix)
    [] step.op = "arg"              -> makeArgument(step.arg, ix)
    [] step.op = "limit"            -> limit(step.arg, ix)
    [] step.op = "ref"              -> ref(step.arg, ix)
    [] step.op = "proposer"         -> proposer(step.arg, ix)
    [] step.op = "payer"            -> payer(step.arg, ix)
    [] step.op = "authorizer"       -> authorization(step.arg, ix)
    [] step.op = "validator"        -> validator(step.arg, ix)
    [] step.op = "voucherIntercept" -> voucherIntercept(ix)
    [] step.op = "invariant"        -> invariant(step.arg, ix)
    [] step.op = "atBlockHeight"    -> atBlockHeight(step.arg, ix)
    [] step.op = "atBlockId"        -> atBlockId(step.arg, ix)
    [] step.op = "getBlock"         -> getBlock(step.arg, ix)
    [] step.op = "getBlockHeader"   -> getBlockHeader(step.arg, ix)
    [] step.op = "getEvents"        -> getEvents(step.arg, step.from, step.to, ix)
    [] step.op = "getEventsAtBlockIds" -> getEventsAtBlockIds(step.arg, step.ids, ix)
    [] step.op = "getAccount"       -> getAccount(step.arg, ix)
    [] step.op = "getCollection"    -> getCollection(step.arg, ix)
    [] step.op = "getTransaction"   -> getTransaction(step.arg, ix)
    [] step.op = "getTransactionStatus" -> getTransactionStatus(step.arg, ix)
    [] step.op = "ping"             -> ping(ix)
    [] step.op = "getNetworkParameters" -> getNetworkParameters(ix)
    [] step.op = "getNodeVersionInfo"   -> getNodeVersionInfo(ix)

(* The builders, and the tags of those that say what is asked for. *)
Tags ==
  {"TRANSACTION", "SCRIPT", "GET_EVENTS", "GET_BLOCK", "GET_BLOCK_HEADER", "GET_ACCOUNT",
   "GET_COLLECTION", "GET_TRANSACTION", "GET_TRANSACTION_STATUS", "PING", "GET_NETWORK_PARAMETERS",
   "GET_NODE_VERSION_INFO"}
Makers ==
  {"transaction", "script", "getEvents", "getEventsAtBlockIds", "getBlock", "getBlockHeader",
   "getAccount", "getCollection", "getTransaction", "getTransactionStatus", "ping",
   "getNetworkParameters", "getNodeVersionInfo"}
Fillers ==
  {"arg", "limit", "ref", "proposer", "payer", "authorizer", "validator", "voucherIntercept",
   "invariant", "atBlockHeight", "atBlockId"}

(* pipe: builder after builder; a BAD interaction goes no further. *)
pipe(steps) ==
  FoldLeft(LAMBDA ix, step : IF isBad(ix) \/ ~ step.given THEN ix ELSE Build(step, ix),
           initInteraction, steps)
=============================================================================
