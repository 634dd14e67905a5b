------------------------------ MODULE Interact ------------------------------
(***************************************************************************)
(* One call of the SDK or of FCL that goes to an access node: mutate,      *)
(* query, block, account, getNodeVersionInfo or a program of builders      *)
(* given to send.  The interaction is built, resolved step by step         *)
(* (packages/sdk/src/resolve/resolve.js), sent over a transport and its    *)
(* response is decoded.  In between other code runs: authorization         *)
(* functions answer or refuse, wallets sign in any order or decline, the   *)
(* access node takes requests whose answers may be lost, and other         *)
(* programs use the same keys.                                             *)
(***************************************************************************)
EXTENDS ResolveAccounts, Senders

CONSTANTS
  Calls,          \* the calls the program may make
  Transports,     \* a subset of {"http", "grpc"}
  Placeholders,   \* 0x placeholders and contract names the configuration knows
  ConfigLimit,    \* fcl.limit, Null when it is not set
  KnownTypes,     \* the types that have a decoder
  Values,         \* what a script may return: its leaves in preorder
  RetryLimit,     \* of httpRequest
  DefaultLimit,   \* DEFAULT_COMPUTE_LIMIT
  RefBlock,       \* the id of the latest block
  Keys,           \* the keys at the node, <<address, key id>>
  SharedKeys,     \* those other programs use too
  MaxSequence     \* bound: the sequence number other programs bring a key to

VARIABLES
  call,           \* the call that is made
  transport,      \* sdk.transport
  at,             \* the step it has come to
  ix,             \* the interaction
  work,           \* resolveAccounts: the rest of this level, the next one, the levels left
  req,            \* the request under way
  asked,          \* the signables wallets were given, with the id of the account
  voucher,        \* what the voucher intercept was given
  sequence,       \* at the node: the sequence number of each key
  taken           \* at the node: the requests it has taken

ixvars == <<call, transport, at, ix, work, req, asked, voucher, sequence, taken>>
Settled == {"resolved", "rejected"}
NoRequest == [phase |-> "none", attempt |-> 0, answer |-> Null]
NoWork    == [left |-> << >>, next |-> << >>, depth |-> 0]

-----------------------------------------------------------------------------
(* The calls, as the programs of builders they send. *)
Step(op, arg) == [op |-> op, arg |-> arg, given |-> TRUE]
If(cond, step) == [step EXCEPT !.given = cond]
Each(op, args) == [i \in DOMAIN args |-> Step(op, args[i])]
First(a, b)    == IF a # Null THEN a ELSE b

(* opts.proposer > opts.authz > authz, and so on for the other roles. *)
mutate(opts) ==
  LET authz == First(opts.authz, opts.user) IN
  <<Step("transaction", opts.cadence)>> \o Each("arg", opts.args)
    \o <<If(Truthy(opts.limit), Step("limit", opts.limit)),
         Step("proposer", First(opts.proposer, authz)), Step("payer", First(opts.payer, authz))>>
    \o Each("authorizer", First(opts.authorizations, <<authz>>))

query(opts) ==
  <<Step("script", opts.cadence)>> \o Each("arg", opts.args)
    \o <<If(Truthy(opts.limit), Step("limit", opts.limit))>>

AtBlock(opts) ==
  IF Truthy(opts.id) THEN <<Step("atBlockId", opts.id)>>
  ELSE IF Truthy(opts.height) THEN <<Step("atBlockHeight", opts.height)>> ELSE << >>

block(opts) ==
  IF AtBlock(opts) = << >> THEN <<Step("getBlock", opts.sealed)>>
  ELSE <<Step("getBlock", Null)>> \o AtBlock(opts)
account(opts) == <<Step("getAccount", opts.addr)>> \o AtBlock(opts)

Steps(c) ==
  CASE c.api = "mutate"  -> mutate(c)
    [] c.api = "query"   -> query(c)
    [] c.api = "block"   -> block(c)
    [] c.api = "account" -> account(c)
    [] c.api = "nodeVersionInfo" -> <<Step("getNodeVersionInfo", Null)>>
    [] c.api = "send"    -> c.steps

(* Every program is made of builders, and one of them says what is asked   *)
(* for: without it send has nothing to send, and gives the interaction     *)
(* back as it is.  An account it is given brings no id of its own, and a   *)
(* function comes without an address or without a key.                     *)
CallsAssumption ==
  \A c \in Calls :
    LET steps == Steps(c) IN
    /\ steps \in Seq(ToSet(steps))
    /\ \A i \in DOMAIN steps : steps[i].op \in Makers \cup Fillers
    /\ \E i \in DOMAIN steps : steps[i].given /\ steps[i].op \in Makers
    /\ \A i \in DOMAIN steps : steps[i].op \in {"proposer", "payer", "authorizer"} =>
         /\ steps[i].arg \in Accounts /\ steps[i].arg.tempId = Null
         /\ isFn(steps[i].arg.resolve) => steps[i].arg.addr = Null \/ steps[i].arg.keyId = Null
ASSUME CallsAssumption

(* What block and account refuse at once. *)
Contradicts(c) ==
  /\ c.api \in {"block", "account"}
  /\ \/ Truthy(c.id) /\ Truthy(c.height)
     \/ c.api = "block" /\ c.sealed = TRUE /\ (Truthy(c.id) \/ Truthy(c.height))

-----------------------------------------------------------------------------
(* The steps of resolve. *)
Goes(to, new) == at' = to /\ ix' = new
Throws        == at' = "rejected" /\ ix' = ix
TxOrScript    == isTransaction(ix) \/ isScript(ix)
Only(v)       == UNCHANGED <<call, transport, sequence, taken>> /\ UNCHANGED v

Builds ==
  /\ at = "build"
  /\ IF Contradicts(call) \/ isBad(ix) THEN Throws ELSE Goes("cadence", ix)
  /\ Only(<<work, req, asked, voucher>>)

(* resolveCadence: either kind of import, not both; what is known is       *)
(* filled in.                                                              *)
resolveCadence ==
  /\ at = "cadence"
  /\ LET t == ix.template IN
     IF ~ TxOrScript THEN Goes("limit", ix)
     ELSE IF t.old # {} /\ t.new # {} THEN Throws
     ELSE Goes("limit", [ix EXCEPT !.cadence =
                           [text |-> t.text, unknown |-> (t.old \cup t.new) \ Placeholders]])
  /\ Only(<<work, req, asked, voucher>>)

resolveComputeLimit ==
  /\ at = "limit"
  /\ Goes("arguments",
       IF ~ isTransaction(ix) \/ Truthy(ix.computeLimit) THEN ix
       ELSE [ix EXCEPT !.computeLimit = IF Truthy(ConfigLimit) THEN ConfigLimit ELSE DefaultLimit])
  /\ Only(<<work, req, asked, voucher>>)

(* An argument may be a function, `nested` deep, that resolves to one. *)
resolveArguments ==
  /\ at = "arguments"
  /\ IF ~ TxOrScript THEN Goes("accounts", ix)
     ELSE IF \E i \in DOMAIN ix.arguments : ix.arguments[i].nested > 2 \/ ~ ix.arguments[i].typed
     THEN Throws
     ELSE Goes("accounts", [ix EXCEPT !.arguments =
                 [i \in DOMAIN @ |-> [@[i] EXCEPT !.asArgument = ix.arguments[i].value]]])
  /\ work' = [left |-> Frontier(ix), next |-> << >>, depth |-> MaxDepth]
  /\ Only(<<req, asked, voucher>>)

Resolving == at = "accounts" /\ isTransaction(ix)

(* The next account of the level: buildPreSignable needs a payer, and the  *)
(* authorization function of the program may reject.                       *)
resolveAccountsByIds ==
  /\ Resolving /\ work.left # << >>
  /\ LET t     == Head(work.left)
         found == ResolveOne(ix, t)
         calls == isFn(Acct(ix, t).resolve)
     IN \/ /\ calls => ix.payer # << >>
           /\ ix' = found.ix /\ at' = at
           /\ work' = [work EXCEPT !.left = Tail(@), !.next = Unique(@ \o found.new)]
        \/ /\ calls
           /\ Throws /\ work' = work
  /\ Only(<<req, asked, voucher>>)

EndsLevel ==
  /\ Resolving /\ work.left = << >>
  /\ IF ~ PayersAgree(ix) \/ (work.next # << >> /\ work.depth = 1)
     THEN Throws /\ work' = NoWork
     ELSE IF work.next # << >>
     THEN /\ UNCHANGED <<at, ix>>
          /\ work' = [left |-> work.next, next |-> << >>, depth |-> work.depth - 1]
     ELSE LET used == removeUnusedIxAccounts(ix) IN
          /\ IF RolesTaken(used) THEN Goes("ref", used) ELSE Throws
          /\ work' = NoWork
  /\ Only(<<req, asked, voucher>>)

(* Nothing is resolved of an interaction that is no transaction. *)
NoTransaction ==
  /\ at = "accounts" /\ ~ isTransaction(ix)
  /\ Goes("normalize", ix)
  /\ Only(<<work, req, asked, voucher>>)

(* execFetchRef and execFetchSequenceNumber: a request is made when the    *)
(* value is missing.  The account is the first in the order of insertion   *)
(* that has the role of the proposer.                                      *)
(* Mutant: the sequence number of the payer is taken. *)
ProposerAcctPays == IF ix.payer = << >> THEN Null ELSE Acct(ix, ix.payer[1])
ProposerAcct ==
  LET of == {i \in DOMAIN ix.accounts : "proposer" \in ix.roles[ix.accounts[i].role]}
  IN IF of = {} THEN Null ELSE ix.accounts[CHOOSE i \in of : \A j \in of : i <= j]
KeyOf(a) == IF a.addr = Null THEN Null ELSE <<a.addr.a, a.keyId>>

execFetchRef ==
  /\ at = "ref" /\ req.phase = "none"
  /\ IF ix.refBlock # Null THEN Goes("sequence", ix) /\ req' = req
     ELSE req' = [NoRequest EXCEPT !.phase = "asks"] /\ UNCHANGED <<at, ix>>
  /\ Only(<<work, asked, voucher>>)

execFetchSequenceNumber ==
  /\ at = "sequence" /\ req.phase = "none"
  /\ IF ProposerAcct = Null THEN Throws /\ req' = req
     ELSE IF ProposerAcct.sequenceNum # Null THEN Goes("inside", ix) /\ req' = req
     ELSE req' = [NoRequest EXCEPT !.phase = "asks"] /\ UNCHANGED <<at, ix>>
  /\ Only(<<work, asked, voucher>>)

-----------------------------------------------------------------------------
(* resolveSignatures: the inside signers are asked together, and when they *)
(* all have signed the outside signers are.                                *)
InsideMessage  == encodeTransactionPayload(prepForEncoding(ix))
OutsideMessage ==
  encodeTransactionEnvelope(
    [prepForEncoding(ix) EXCEPT !.payloadSigs = SigsOf(ix, FALSE, findInsideSigners(ix))])

(* The code calls the signingFunction of the account.  Accounts are taken  *)
(* to come with one exactly when they come with an address and a key; an   *)
(* account without one makes the call throw.                               *)
CanSign(t) == Acct(ix, t).addr # Null /\ Acct(ix, t).keyId # Null
Signer(t, message) == [id |-> t, signable |-> buildSignable(ix, t, message)]

AsksSigners(ids, message, waits) ==
  /\ asked' = asked \cup {Signer(t, message) : t \in {u \in ids : CanSign(u)}}
  /\ IF \A t \in ids : CanSign(t) THEN Goes(waits, ix) ELSE Throws
  /\ Only(<<work, req, voucher>>)

AsksInside ==
  /\ at = "inside"
  /\ AsksSigners(InsideSigners(ix), InsideMessage, "insideSigning")
(* Mutant: the outside signers do not wait for the inside ones. *)
AsksOutsideAtOnce ==
  /\ at = "insideSigning"
  /\ AsksSigners(OutsideSigners(ix), OutsideMessage, "outsideSigning")
AsksOutside ==
  /\ at = "insideSigning"
  /\ \A t \in InsideSigners(ix) : Acct(ix, t).signature # Null
  /\ AsksSigners(OutsideSigners(ix), OutsideMessage, "outsideSigning")
AllSigned ==
  /\ at = "outsideSigning"
  /\ \A t \in OutsideSigners(ix) : Acct(ix, t).signature # Null
  /\ Goes("normalize", ix)
  /\ Only(<<work, req, asked, voucher>>)

(* A wallet signs the message it was given, or declines. *)
Pending == {s \in asked : Acct(ix, s.id).signature = Null}
Signs ==
  /\ at \in {"insideSigning", "outsideSigning"}
  /\ \E s \in Pending :
       Goes(at, [ix EXCEPT !.accounts[Place(ix, s.id)].signature =
                   [by |-> KeyOf(Acct(ix, s.id)), message |-> s.signable.message]])
  /\ Only(<<work, req, asked, voucher>>)
Declines ==
  /\ at \in {"insideSigning", "outsideSigning"} /\ Pending # {}
  /\ Throws
  /\ Only(<<work, req, asked, voucher>>)

-----------------------------------------------------------------------------
Sans(accounts) == [i \in DOMAIN accounts |-> [accounts[i] EXCEPT !.addr = San(@)]]
resolveFinalNormalization ==
  /\ at = "normalize"
  /\ Goes("validate", [ix EXCEPT !.accounts = Sans(@)])
  /\ Only(<<work, req, asked, voucher>>)

(* resolveValidators: what is no array has no map. *)
resolveValidators ==
  /\ at = "validate"
  /\ IF ix.validators = Null THEN Goes("intercept", ix)
     ELSE IF ix.validators.array /\ \A i \in DOMAIN ix.validators.cbs : Validates(ix.validators.cbs[i], ix)
     THEN Goes("intercept", Ok(ix)) ELSE Throws
  /\ Only(<<work, req, asked, voucher>>)

resolveVoucherIntercept ==
  /\ at = "intercept"
  /\ IF ix.intercept
     THEN /\ ix.payer # << >> /\ voucher' = createSignableVoucher(ix)
          /\ (Goes("send", ix) \/ Throws)
     ELSE Goes("send", ix) /\ voucher' = voucher
  /\ Only(<<work, req, asked>>)

send ==
  /\ at = "send" /\ req.phase = "none"
  /\ IF Undetermined(ix) THEN Throws /\ req' = req
     ELSE req' = [NoRequest EXCEPT !.phase = "asks"] /\ UNCHANGED <<at, ix>>
  /\ Only(<<work, asked, voucher>>)

-----------------------------------------------------------------------------
(* A request, of execFetchRef, of execFetchSequenceNumber or of send.      *)
(* httpRequest gives up on an answer after its timeout, and asks again     *)
(* after an interval where it was given up or the status says the node is  *)
(* busy; the unary calls of gRPC wait for the node, and ask once.          *)
Requested ==
  LET of(i) == IF transport = "http" THEN HttpAsks(httpSend(i)) ELSE GrpcAsks(grpcSend(i)) IN
  CASE at = "ref"      -> of(pipe(<<Step("getBlock", Null)>>))
    [] at = "sequence" -> of(pipe(<<Step("getAccount", ProposerAcct.addr)>>))
    [] at = "send"     -> of(ix)

(* The node reads the request, and knows what it will answer.  A           *)
(* transaction it has not seen before uses its proposal key up once.       *)
Bumped(r) ==
  LET key == <<r.body.proposalKey.address.a, r.body.proposalKey.keyId>> IN
  IF /\ r.op = "submit" /\ key \in Keys /\ r \notin taken
     /\ sequence[key] = r.body.proposalKey.sequenceNum /\ sequence[key] < MaxSequence
  THEN [sequence EXCEPT ![key] = @ + 1] ELSE sequence

NodeTakes ==
  /\ req.phase = "asks" /\ req.answer = Null
  /\ taken' = taken \cup {Requested}
  /\ sequence' = Bumped(Requested)
  /\ \E v \in CASE at = "sequence" -> {[keys |-> sequence]}
                [] at = "ref"      -> {[id |-> RefBlock]}
                [] at = "send" /\ isScript(ix) -> {[value |-> v] : v \in Values}
                [] at = "send" /\ isTransaction(ix) -> {[tx |-> Requested.body]}
                [] at = "send" /\ ~ TxOrScript -> {[value |-> << >>]} :
       req' = [req EXCEPT !.answer = v]
  /\ UNCHANGED <<call, transport, at, ix, work, asked, voucher>>

(* The answer arrives: the block's id, the sequence number of the key, or  *)
(* the response to decode.                                                 *)
NodeAnswers ==
  /\ req.phase = "asks" /\ req.answer # Null
  /\ CASE at = "ref" -> Goes("sequence", [ix EXCEPT !.refBlock = req.answer.id]) /\ req' = NoRequest
       [] at = "sequence" ->
            /\ IF KeyOf(ProposerAcct) \in Keys
               THEN Goes("inside", [ix EXCEPT !.accounts[Place(ix, ProposerAcct.tempId)].sequenceNum =
                                      req.answer.keys[KeyOf(ProposerAcct)]])
               ELSE Throws
            /\ req' = NoRequest
       [] at = "send" -> Goes("decode", ix) /\ req' = [req EXCEPT !.phase = "done"]
  /\ Only(<<work, asked, voucher>>)

(* The answer is lost or late, or the node is too busy to take or to       *)
(* answer the request.                                                     *)
(* Mutant: a repeated request starts over at the sequence number. *)
UnavailableStartsOver ==
  /\ req.phase = "asks" /\ transport = "http"
  /\ IF req.attempt < RetryLimit
     THEN /\ req' = [NoRequest EXCEPT !.attempt = req.attempt + 1]
          /\ IF at # "send" THEN UNCHANGED <<at, ix>>
             ELSE Goes("sequence", [ix EXCEPT !.accounts =
                    [i \in DOMAIN @ |-> [@[i] EXCEPT !.sequenceNum = Null, !.signature = Null]]])
     ELSE Throws /\ req' = NoRequest
  /\ Only(<<work, asked, voucher>>)
Unavailable ==
  /\ req.phase = "asks" /\ transport = "http"
  /\ IF req.attempt < RetryLimit
     THEN /\ req' = [req EXCEPT !.phase = "waits", !.answer = Null]
          /\ UNCHANGED <<at, ix>>
     ELSE Throws /\ req' = NoRequest
  /\ Only(<<work, asked, voucher>>)
(* Mutant: the attempts are not counted. *)
RetriesUncounted ==
  /\ req.phase = "waits"
  /\ req' = [req EXCEPT !.phase = "asks"]
  /\ UNCHANGED <<at, ix>>
  /\ Only(<<work, asked, voucher>>)
Retries ==
  /\ req.phase = "waits"
  /\ req' = [req EXCEPT !.phase = "asks", !.attempt = @ + 1]
  /\ UNCHANGED <<at, ix>>
  /\ Only(<<work, asked, voucher>>)

(* Any other error of the node or the network. *)
RequestFails ==
  /\ req.phase = "asks"
  /\ Throws /\ req' = NoRequest
  /\ Only(<<work, asked, voucher>>)

(* Another program uses a key. *)
OthersUse ==
  /\ \E k \in SharedKeys : /\ sequence[k] < MaxSequence
                           /\ sequence' = [sequence EXCEPT ![k] = @ + 1]
  /\ at \notin Settled
  /\ UNCHANGED <<call, transport, at, ix, work, req, asked, voucher, taken>>

-----------------------------------------------------------------------------
(* decode: leaf after leaf.  A value of a type without a decoder makes the *)
(* decoding throw; inside an array nobody hears of it, and the array is    *)
(* never decoded.                                                          *)
Undecodable(leaves) ==
  LET bad == {i \in DOMAIN leaves : leaves[i].type \notin KnownTypes}
  IN IF bad = {} THEN Null ELSE leaves[CHOOSE i \in bad : \A j \in bad : i <= j]

decode ==
  /\ at = "decode"
  /\ LET leaf == IF isScript(ix) THEN Undecodable(req.answer.value) ELSE Null IN
     IF leaf = Null THEN Goes("resolved", ix)
     ELSE IF leaf.inArray THEN Goes("forgotten", ix)
     ELSE Throws
  /\ Only(<<work, req, asked, voucher>>)

-----------------------------------------------------------------------------
IxInit ==
  /\ call \in Calls /\ transport \in Transports
  /\ at = "build" /\ ix = pipe(Steps(call))
  /\ work = NoWork /\ req = NoRequest
  /\ asked = {} /\ voucher = Null
  /\ sequence = [k \in Keys |-> 0] /\ taken = {}

(* What the library does, and what the functions and wallets the program   *)
(* brings do.                                                              *)
Library ==
  \/ Builds \/ resolveCadence \/ resolveComputeLimit \/ resolveArguments
  \/ EndsLevel \/ NoTransaction
  \/ execFetchRef \/ execFetchSequenceNumber
  \/ AsksInside \/ AsksOutside \/ AllSigned
  \/ resolveFinalNormalization \/ resolveValidators
  \/ send \/ Retries \/ decode
Program == resolveAccountsByIds \/ Signs \/ Declines \/ resolveVoucherIntercept
Node    == NodeTakes \/ NodeAnswers \/ RequestFails \/ OthersUse

IxNext == Library \/ Program \/ Unavailable \/ Node
IxSpec == IxInit /\ [][IxNext]_ixvars

(* The steps of the library are taken by the event loop and its timers,    *)
(* the timeout of httpRequest among them; the functions of the program and *)
(* the wallets are taken to answer.  Nothing is assumed of the node.  The  *)
(* third conjunct is weak fairness too, its ENABLED written out, which TLC *)
(* is slow to evaluate.                                                    *)
IxFairness ==
  /\ WF_ixvars(Library)
  /\ WF_ixvars(Signs \/ Declines) /\ WF_ixvars(resolveVoucherIntercept)
  /\ []<>~ (Resolving /\ work.left # << >>) \/ []<><<resolveAccountsByIds>>_ixvars
  /\ WF_ixvars(Unavailable)
IxFairSpec == IxSpec /\ IxFairness

-----------------------------------------------------------------------------
(* Properties. *)

Submitted == {r.body : r \in {q \in taken : q.op = "submit"}}

(* A signature is of the key it is sent for, over this message. *)
Over(s, message) == s.sig = [by |-> <<s.address.a, s.keyId>>, message |-> message]

(* Every payload signature that is sent with a transaction is over the     *)
(* payload of that transaction: what the wallets were shown, one at a time *)
(* and in any order, is what the node receives, although it is put         *)
(* together again from the accounts, whose addresses were rewritten in     *)
(* between (resolve-signatures.ts, send-transaction.js).  Without a        *)
(* sequence number the node takes no transaction.                          *)
PayloadsSigned ==
  \A tx \in Submitted : tx.proposalKey.sequenceNum # Null =>
    \A s \in ToSet(tx.payloadSigs) : Over(s, encodeTransactionPayload(tx))

(* What else the node verifies: the signatures of the payload are of the   *)
(* proposer and the authorizers, all of them, those of the envelope of the *)
(* payer and over what the node received; and the proposal key has signed. *)
Verifies(tx) ==
  LET payload  == ToSet(tx.payloadSigs)
      envelope == ToSet(tx.envelopeSigs)
  IN /\ \A s \in payload  : s.address # tx.payer
     /\ \A s \in envelope : Over(s, encodeTransactionEnvelope(tx)) /\ s.address = tx.payer
     /\ envelope # {}
     /\ ({tx.proposalKey.address} \cup ToSet(tx.authorizers)) \ {tx.payer}
          \subseteq {s.address : s \in payload}
     /\ \E s \in payload \cup envelope :
          s.address = tx.proposalKey.address /\ s.keyId = tx.proposalKey.keyId

(* Every transaction the node receives verifies: the messages given to the *)
(* signers, in whatever order they answered, are those of the transaction  *)
(* that is put together from the accounts afterwards                       *)
(* (resolve-signatures.ts against send-transaction.js).                    *)
SignaturesVerify == \A tx \in Submitted : Verifies(tx)

(* The sequence number sent is one the node reported for the proposer's    *)
(* key in this call, or the one the call gave; it is never ahead of the    *)
(* node's (execFetchSequenceNumber, resolve.js).                           *)
SequenceOfProposer ==
  \A tx \in Submitted :
    LET key == <<tx.proposalKey.address.a, tx.proposalKey.keyId>> IN
    /\ tx.proposalKey.sequenceNum # Null
    /\ tx.proposalKey.sequenceNum <= sequence[key]
    /\ \/ \E r \in taken : r.op = "accounts" /\ r.of = tx.proposalKey.address
       \/ \E i \in DOMAIN Steps(call) : /\ Steps(call)[i].op = "proposer"
                                       /\ Steps(call)[i].arg.sequenceNum = tx.proposalKey.sequenceNum

(* A wallet that encodes the voucher itself, as wallet-utils has it do,    *)
(* gets the message it was asked to sign, and one that validates the       *)
(* signable of a payload takes it (encode-signable.js, validate-tx.js and  *)
(* resolve-signatures.ts).                                                 *)
WalletsAgree ==
  \A s \in asked :
    /\ encodeMessageFromSignable(s.signable, s.signable.addr) = s.signable.message
    /\ "payer" \in s.signable.roles \/ validateSignableTransaction(s.signable)

(* However often a request is repeated, the node receives one transaction  *)
(* only, and a call resolves with the id of that one                       *)
(* (http-request.js, send-transaction.js).                                 *)
OneTransaction ==
  /\ Cardinality(Submitted) <= 1
  /\ at = "resolved" /\ isTransaction(ix) => req.answer.tx \in Submitted

(* Either transport asks the node for the same thing; ping alone is a      *)
(* different request over each (transport-http, transport-grpc).           *)
TransportsAgree ==
  at = "send" /\ ix.tag # "PING" => HttpAsks(httpSend(ix)) = GrpcAsks(grpcSend(ix))

(* Over HTTP a call settles, whatever the node and the network do: each    *)
(* request is given up after its timeout, and repeated so often only       *)
(* (http-request.js).                                                      *)
CallSettles == transport = "http" ~> at \in Settled

(* What the documentation says of a voucher: from it the id of the         *)
(* transaction is computed (voucherToTxId).  The node computes it of the   *)
(* transaction it received, whose addresses have no prefix.                *)
VoucherNamesTransaction ==
  at = "resolved" /\ voucher # Null => voucherToTxId(voucher) = encodeTxIdFromVoucher(req.answer.tx)
=============================================================================
