# A verification project for flow-js-sdk

TLA+ models of the parts of this repository whose correctness depends on the
order in which things happen: the actors behind `fcl.tx` and `fcl.currentUser`,
the reconnecting WebSocket and the event stream on it, `fcl.events` with its
polling and its decoded streams, the shared cache of chain ids, an interaction
from its builders over resolution and signing to the access node, the execution
of a wallet's services, and the protobuf messages the gRPC transport exchanges.
TLC checks the models on small instances; TLAPS proves what matters most about
some of them for every value of the constants. Source paths below are relative
to `src/packages/`.

How to run, in this directory: `tlasany M.tla` parses, `tlc -workers 2 -config
TxSafe.cfg MCTransaction` checks, `tlapm TransactionProofs.tla` proves.
`PROJECT.json` lists the runs with their modules, and says for each definition
which lines it stands for.

## 1. The system

flow-js-sdk is a library a web page (or a Node program, or a React Native app)
loads. Everything runs on one JavaScript event loop: no two lines run at once,
but every `await`, callback, message and timer is a point at which anything else
may run. State lives in module-level tables (the actor registry, the
configuration, caches), in closures (a socket, a poll, a stream) and in the
storage of the browser. Nothing else persists. The remote parts are access
nodes (HTTP, gRPC, WebSocket), wallets (a window, an extension, a WalletConnect
session, an HTTP endpoint that is polled) and the discovery page.

The components, what each keeps, what it does and what makes it correct:

| Component | State | Operations and partners | Hard behaviour | Correct when |
|---|---|---|---|---|
| Actors, `util-actor` | `FCL_REGISTRY` (address → mailbox, subs, kvs, error), counter `pid` | `spawn`, `send`, `kill`, `subscriber`, `snapshoter`; used by tx, user, config, events | anonymous addresses are reused; a crashed function stays registered; `finally { continue }` swallows EXIT | letters reach the actor they are meant for; nobody is left subscribed after it ended |
| Transaction polling, `fcl-core/src/transaction` | per transaction: status, poll timer, deadline, error, subscribers | `subscribe`, `onceFinalized/Executed/Sealed`, `snapshot`; POLL, TIMEOUT handlers; asks the access node | a poll awaits while letters pile up; deadline races the answer; callbacks throw | one polling loop; subscribers agree with the actor; promises settle, with their own status |
| Current user, `fcl-core/src/current-user` | session actor's user, its copy in storage | `authenticate`, `unauthenticate`, `snapshot`, `subscribe`; runs wallet services | wallet answers after minutes; reload at any moment; expiry; two logins at once | what is shown is what is kept; logout is final; a login gets its own session; calls settle |
| Service execution and plugins | registries of services and strategies | `execService` (redirects, abort), `addServices`, `add` | several services at once, each with windows and listeners | a service ends as its own wallet ends it and leaves nothing behind |
| HTTP/POST strategy | view, poll in flight, `shouldContinue` | `http-post`, `poll`, `fetchService` | the view is closed while a poll is under way | the wallet's answer wins over a close that came later |
| Window strategies, message handler | a window or frame, listeners | `iframe-rpc`, `pop-rpc`, `tab-rpc`, `ext-rpc`, `buildMessageHandler` | READY, RESPONSE, CLOSE and the closing of the window in any order; two services share a popup | settles; is answered by its own page; listeners and intervals are removed |
| Wallet side messages | listeners | `ready`, `approve`, `decline`, `close` | — | one answer per READY |
| Configuration, `config` | actor with the values | `put`, `get`, `all`, `overload`, `subscribe`, `load` | concurrent `overload`s; timeouts of `get` | an overload leaves no trace; reads see earlier writes |
| Events, `fcl-core/src/events` | the choice of transport, a stream | `events(filter).subscribe` | unsubscribed while the choice is awaited | no callback after unsubscribe |
| Legacy event polling | actor: high water mark, subscribers, timer | SUBSCRIBE, UNSUBSCRIBE, TICK | unsubscribe and subscribe around a pending TICK; failures | one loop; each height range asked for once |
| Reconnecting socket, `transport-http/src/connect-ws.ts` | socket, `retryCount`, timers, emitter | `connect`, `close`, handlers | close during a retry delay; listeners that are missing | one connection; retries bounded; close is final |
| Event stream, `connect-subscribe-events.ts` | last block height | emits data, heartbeats, errors | resuming behind a lost connection | no block with events is lost or repeated |
| Decode stream, `sdk/src/decode/decode-stream.ts` | task queue, `running` | data, error, close in order | a decoder that throws | what came in goes out in order, close last |
| JSON-Cadence decoding | — | `decode`, `decodeResponse` | recursion over payloads | decodes what `types` encodes |
| Interaction build and pipe | an interaction record | `pipe`, `build`, `make*`, status | BAD interactions must stop the pipe | what is resolved is what was built |
| Transaction resolution, `sdk/src/resolve` | accounts, roles, signatures of an interaction | `resolveAccounts`, `resolveSignatures`, `resolveArguments` ... | accounts that resolve to accounts; signers in parallel | every role filled once; envelope signed last |
| Encoding, `sdk/src/encode`, `rlp` | — | payload and envelope, signatures sorted by signer | the index of a signer is looked up by address | what is signed, what a wallet re-encodes and what the node verifies are one message |
| Send and transports | — | dispatch on the tag of an interaction, over HTTP or gRPC | truthiness of heights and ids | both transports ask the node for the same |
| HTTP requests | retry counter | `httpRequest` | timeouts, 408/429/5xx retried, answers lost | bounded retries; one transaction is submitted |
| Chain id cache, `fcl-core/src/utils/chain-id` | node → promise | `getChainId`, `clearChainIdCache`, a watcher of the configuration | calls share a promise that may fail; the node is read twice | one request per node; the answer belongs to the node |
| RPC client, `util-rpc` | pending requests by id, message channel | `connect`, `request`, `notify`, `onRequest` | answers late, twice or never | a request settles with its own answer |
| Wallet discovery, `fcl/src/discovery` | an RPC client in a frame or tab | `execDiscovery`, WalletConnect QR, hooks | discovery, a service and a QR proposal race for one result | one of them wins, the others are aborted |
| WalletConnect, `fcl-wc` | client promise, sessions | `init`, `connect`, `request`, disconnect | the session looked up before a pairing and used after it | one client; requests go to a live session |
| Protobuf, `protobuf` | a message's fields | generated accessors, writers, readers, services | fields in any order, lists in pieces, classes of other versions | what is read is what was set |
| Templates, signature verification, normalizers, types, utilities, documents | — | pure or one request | — | functional |
| Mutate, query, account, block | — | chains of the calls above | options that exclude each other | as the transaction or the read they stand for |
| React Native, bundler, typedefs, notifications | — | platform glue, build tooling, rendering | — | — |

`PROJECT.json` "components" repeats the list with every source file and says of
each what is modelled, and "hazards" lists at its line what is hard to test
in this code, with the properties that watch it or a note that none does yet.

How they interact: `fcl.mutate` resolves a transaction (resolution asks the
current user and wallets for accounts and signatures), encodes and sends it,
and the program follows it with `fcl.tx`, whose actor polls through the SDK.
`fcl.currentUser` runs services through `execService`, which picks a strategy
(window, HTTP poll, extension, WalletConnect, discovery). All of them read the
configuration, an actor itself; the chain id cache sits between the wallet side
and the access node. Actors interact by letters only; streams by emitters.

### The event loop, as modelled

A step of a model is the synchronous part of a function between two awaits.
Awaits that end in microtasks (mailboxes, the configuration, web storage) let
other continuations run in between in any order; what arrives in a macrotask (a
timer, a network answer, a wallet, a reload) may start only when no microtask is
left. `MicrotasksDrained` is that condition. It is what makes some races
impossible in the real program, and leaving it out would report them. The
program's own calls may come at any point in `Transaction`, because a callback
is the program; the same holds for `CurrentUser`. `ConnectWs` has only macrotasks.

## 2. The modules

| Module | Lines modelled | Role |
|---|---|---|
| `ActorSystem` | `util-actor/src/index.ts`, `mailbox/index.ts` | registry, addresses, mailboxes as operators |
| `Transaction` | `fcl-core/src/transaction/index.js` on `ActorSystem` | the actor of each transaction and its subscribers |
| `StatusFeed` | abstract | what `fcl.tx` promises; `Transaction` refines it |
| `CurrentUser` | `fcl-core/src/current-user/index.js`, `build-user.js`, `utils/storage.ts` | session actor, storage, calls, reloads, the clock |
| `ConnectWs` | `transport-http/src/connect-ws.ts` | sockets, retries, emitter |
| `SubscribeEvents` | `transport-http/src/connect-subscribe-events.ts` | composed with `ConnectWs` (EXTENDS): every step of the stream is a step of the socket |
| `ChainId` | `fcl-core/src/utils/chain-id/*.js` | cache, calls, requests, configuration changes |
| `LegacyEvents` | `fcl-core/src/events/legacy-events.js` | the polling actor of one event type, its timers and subscribers |
| `DecodeStream` | `sdk/src/decode/decode-stream.ts` | the task queue between a stream and its listeners |
| `Events` | `fcl-core/src/events/index.ts` | composes the two (EXTENDS both): the choice between them, and unsubscribing |
| `Interaction` | `sdk/src/interaction`, `sdk/src/build` | the interaction record, builders and `pipe` as operators |
| `ResolveAccounts` | `sdk/src/resolve/resolve-accounts.ts` | accounts that resolve to accounts, as operators on an interaction |
| `Signing` | `resolve-signatures.ts`, `voucher.ts`, `sdk/src/encode`, `sdk/src/wallet-utils` | who signs which message; the wallet's own view of a signable |
| `Senders` | `transport-http/src/send-*`, `transport-grpc/src/send-*` | the request either transport makes of an interaction |
| `Interact` | `resolve.js` with its steps, `send.js`, `http-request.js`, `unary.js`, `exec/mutate.js`, `exec/query.js`, `account.js`, `block.js`, `decode.js` | composes the four (EXTENDS): one call from its builders to its answer, among wallets, other programs and a node that may lose answers |
| `ServiceExecution` | `fcl-core/.../exec-service`, `fcl/src/utils/web`, `fcl/src/discovery/exec-hook.ts`, `send-msg-to-fcl.js` | services of wallets under way at once: strategies, windows, handlers, hook, poll |
| `MessageFields` | `protobuf/src/generated` | how a table of fields is written down |
| `EntityMessages`, `AccessMessages`, `ExecutionMessages`, `ExecutionDataMessages` | `protobuf/src/generated/flow/*` | the tables of all generated classes and services |
| `Protobuf` | the accessors, writers and readers all generated classes share | a message written by one version and read by another |
| `MC*` | — | instances for TLC |
| `TransactionProofs`, `ChainIdProofs`, `CurrentUserProofs`, `SubscribeEventsProofs`, `EventsProofs`, `ServiceExecutionProofs`, `InteractProofs`, `ProtobufProofs` | — | theorems about the module of that name |

### Transaction

State of the transaction actor: `kvs` (only the status is kept of it: the
properties compare statuses), `inbox`, `subs` (the addresses it broadcasts to),
`error` (set by `fatalError`, read by subscribers when they take a letter),
`pollTimer` and `deadline` (the two `setTimeout`s), `fetch`/`answer` (the
request to the access node, during which the actor handles no letter). State of
a subscriber: its incarnation, `self` (its address), `mailbox`, `seen` (what its
callback was last called with, and from whom), the `promise` of a `once*`.

Actions: `Subscribe`, `Unsubscribe`, `Snapshot` are the program's calls;
`TxStart` is INIT; `TxSubscribe`, `TxUnsubscribe`, `TxSnapshot`, `TxTimeout` the
handlers; `TxPoll` is POLL up to its await and `PollNotFound`, `PollFails`,
`PollFinds` its three continuations; `SubCalls*`, `SubFails`, `SubExits`,
`SubKill` the loop of `subscriber` and the `kill` of `spawn`; `AccessNodeAnswers`,
`PollTimerFires`, `DeadlineFires` the macrotasks; `LedgerAdvances` the ledger.

An incarnation of an actor has an identity in the model that the code does not
have: the code knows it by its address, which `parseAddr` hands out again once
its holder is killed. This is what makes the reuse of addresses visible.

### CurrentUser

`user` and `inbox` are the session actor; `stored` is the storage, `Outdated`
standing for a user of another `f_vsn`. A session is a number (its grant, in the
order wallets granted them), whether it has a refresh service, and when it
expires. A call of `authenticate` goes through `pc`: it asks for a snapshot
(`asking`), decides on it (`Decides`), refreshes or has its account proof
resolved and goes to the wallet, and at the end posts SET_CURRENT_USER and asks
for its result (`closing`). `snapshot()` is only the last part. A wallet may grant
any session, one that has expired already too: `buildUser` does not look. The page
then works with it until the next reload; `ExpiredStaysOut` is about sessions of
earlier pages, which `earlier`, the number granted by the time of loading, tells apart.

Abstractions: storage as on the web (the get resolves in a microtask, the put
takes effect at once; React Native's AsyncStorage does neither); a discovery
wallet is configured (otherwise `getDiscoveryService` throws in the async
executor, see the hazards); the `requires_install` early return, the merging of
services and `authorization`/`signUserMessage` are left out; one tab; the
addresses of its subscribers are not reused (that is `Transaction`'s subject).

### ConnectWs and SubscribeEvents

`sockets` keeps every socket the stream made, each with the `userClosed` and
`hasOpened` of its own call of `connect`; `close()` refers to the last. `timer`
is the one `setTimeout` that may run. `listening` says whether the program
listens to "error": if not, `emit` throws in the middle of a handler and the rest
of that handler does not happen. The stream adds `lastBlockHeight`, what the node
would send next (`cursor`) and what was `delivered`. The access node is external:
it sends, in order, every block with events and any of the others.

### ChainId

`cache` maps a node to the request (named by the call that started it) whose
promise it holds; each call has a program counter over the awaits of
`getChainId`; `request`/`asked` say how far a request is and which node it was
sent to, which `sdk.send` reads from the configuration a second time unless the
call was given one.

### LegacyEvents, DecodeStream and Events

An event is the height of its block. `at` says what the polling actor awaits
(`block`, `events`, the poll rate), and it takes no letter before it has it;
`running` are the timers, `tick` the one the actor knows of. `broken` remembers that a request
failed, after which the code schedules no further tick until the last subscriber
has gone and another comes. The addresses of subscribers are not reused here. The
node is taken to give the events of every block up to the one that `block()`
returns, the latest final one; a node whose events lag behind would lose them.

A stream has what it received (`source`), the tasks of its queue and what was
emitted. A decoder may end at any time and in any order; a task that rejects
leaves the flag `running` set (`stalled`), and the stream is silent from then on.

`Events` lets a subscription ask for a stream and decides when the promise
settles: the callback is attached (`stream`), polling is started (`legacy`), or the
subscription fails, as it does silently for any other error and for a filter
where only polling is possible. `left` is that the program has called the
function `subscribe` returned, which may be long before.

### Interaction, ResolveAccounts, Signing, Senders and Interact

An interaction is a record as `initInteraction` makes it; a builder is an
operator from record to record, and `pipe` applies them until the interaction is
BAD. What a program passes to `mutate`, `query`, `account`, `block` or `send` is
a sequence of builder steps (`Steps(call)`), the ones that say what is asked for
(`Makers`) and the ones that complete it (`Fillers`). An account has an id, an address with or without its prefix (`pre`), a key, a role and
a `resolve`: Null, a function with what it returns, or the ids that took its
place. Roles are kept by reference, as in the code, where a spread account shares
the role object of the account it was made from.

`Interact` goes through the pipe of `resolve.js` one await at a time (`at`):
cadence, arguments, accounts level by level (`work`), compute limit, reference
block and sequence number (both requests of their own), the signatures of the
inside signers, then of the outside ones, the voucher intercept, validators and
normalization; then it sends and decodes. `asked` are the signables wallets were
given. A request is under way (`req`) while the node takes it (`NodeTakes`, `taken`),
answers it, or the answer is lost or refused (`Unavailable`), upon which
`httpRequest` tries again and gRPC does not. `OthersUse` is another program that
uses the same key, which raises its `sequence` at the node.

An encoding is the record of what it encodes, a signature the record of its
signer and the message: RLP and hashes are taken as injective. A signer is one with an
address and a key id, as every account is that resolution leaves (`CanSign`); the code
asks only for its signing function. The senders keep
of a request what the node tells apart (path, query and body, or method and message
fields); `HttpAsks` and `GrpcAsks` are what the two interfaces of the node take a
request to mean, and `TransportsAgree` compares them.

### ServiceExecution

`job` is the service of each call, chosen initially; `call` how far it is
(`execService` not yet called, listening, polling, done) and its result;
`listeners` are the message handlers on the window, a set: each looks at every
message and none stops another; `timers` the intervals that look whether a popup or tab was closed; `views` what
`renderFrame`, `renderPop` and `renderTab` remember between calls; `windows` what was
opened, each with the page in it, and `mail` the messages posted to FCL's
window and not delivered yet. A page may answer any body it heard, close, or
redirect; the user may close a window; a window may be blocked; a server
decides, redirects, pends with a view, or fails. The hook of discovery lets the
strategy race with a service that discovery asks for, and aborts the loser.

`alone` marks a call during which no other was under way and before which
nothing was left listening: `Undisturbed` and `LeavesNothing` are stated for those,
because two services that share FCL's only popup, or an extension that has no
source, do disturb one another in the code (section 4). Such a call leaves nothing
behind but the handler of a view that threw (`ViewThrew`): frame.js, pop.js and
tab.js register it before they render, and nothing removes it until it takes
some later message.

### Protobuf

All generated classes are one program with different tables. A table (`EntityMessages`
and the other three, one definition per class) lists each field's
name, number, type and rule: left out when default (`scalar`), when absent
(`message`), or written element by element (`list`), or in one piece (`packed`).
`Protobuf` writes a message of one table and reads it with a class that has some of the
fields, in an order of fields and in pieces that the wire format allows. A field whose value is
a message is opaque: that message is itself one of another table.

## 3. The runs

Passing runs (all properties hold):

| Run | Instance | Shows |
|---|---|---|
| `TxSafe` | one transaction that may fail in execution or in polling, one plain subscription whose callback may throw and whose unsubscribe function may be called twice, one `once*` with suppressed errors, two anonymous addresses | `OnePollLoop`, `SubsAccounted`, `UniqueAddresses`, `SubscribersUpToDate` |
| `TxLive` | the same with a `once*` that is rejected, failed execution, no unsubscribe, fairness | refinement of `StatusFeed` (`FeedRefined`), `OnceResolvesOwn`, `OnceSettles`, and that the seal or a failure reaches everybody (`SealReachesSubscribers`) |
| `Stream` | five sockets, two retries, two `close()`, blocks 1..5 with events in 1, 3 and 4 | one connection, the retry budget, no event missed or repeated over reconnections, `close()` ends the stream |
| `Cid` | three calls, two nodes, one change of configuration, two failures, one clear | shared requests, forgotten failures, the right chain id for a request that was given its node, every call returns |
| `User` | two calls, one subscription, two kinds of session, one logout, one reload, two instants | told is kept, a login gets its own session, a logout is final, expired sessions of earlier pages stay out, no call is forgotten |
| `Feed` | two subscriptions, blocks 1..3 with events in 1 and 3, one failing request, two messages per stream, transports with streams and without | one polling loop while anybody is subscribed (`OneTickLoop`), events in order and without gaps (`ToldInOrder`), nothing left open by who has left (`LeftForGood`), polling reaches every event (`PolledEventsHeard`) |
| `Interact` | 43 calls over each transport: mutations with one to four signers in several roles, a pre-authorization, functions three and four levels deep (both sides of the limit of five), placeholders, arguments that fail, a proposer that resolves to two keys and is refused by the sequence number, reads of every kind, of events of no blocks too; two retries, one use of a key by others | roles are taken by the keys that were given for them (`RolesResolved`), what a payload signature is over is what is sent (`PayloadsSigned`), the rest of what the node receives verifies (`SignaturesVerify`), the sequence number is the proposer's (`SequenceOfProposer`), a wallet computes the message it was sent (`WalletsAgree`), one transaction however often a request is repeated (`OneTransaction`), both transports ask the same (`TransportsAgree`), a call over HTTP settles (`CallSettles`) |
| `Wallet` | two calls, 13 pairs of services: discovery with its hook, authorizations and refreshes in each kind of view, HTTP/POST with each local view | `Undisturbed`, `LeavesNothing`, `FramesAnswerTheirOwn`, `LeavesNothing` names its one exception, a view that threw; `DecisionReached` (what the wallet decided before its view was closed is the result), `CallSettles` |
| `Wire` | every generated message class with no, one or all fields set, read by its own version or one that lacks a field | `RoundTrip` |

Violations (each refutes what a comment, test or definition of the repository
says; `PROJECT.json` "findings" quotes it):

| Run | Refuted | Behaviour |
|---|---|---|
| `TxCrossTalk` | `OnceResolvesOwn` with two transactions | an address is reused while a broadcast of the old transaction is still due: a `onceSealed` resolves with the status of another transaction |
| `WsCloseLost` | `CloseStopsReconnecting` | `close()` between two attempts is lost |
| `VoucherTxId` | `VoucherNamesTransaction` | the indices of signers are looked up with addresses of another form: `voucherToTxId` is not the id of the transaction sent |

Bounds and why they are enough. Two subscriptions and addresses 0 to 2 are what
it takes for an address to be freed and handed out while a letter to it is still
under way; two statuses besides "not found" (pending and sealed, with executed in `TxLive` for a
failed execution) give the properties a change and an end. Five sockets with a
limit of two retries allow two full outages, or an outage after a stream has
been up. Three calls are needed for two calls to wait on a request that fails
and for a third to arrive between the failure and their second look at the cache.
Two calls of `authenticate`, one logout and one reload give every order of login,
refresh, logout and reload; the sessions have number 1 (an earlier visit) to 3.
In `Interact` four accounts fill
the three roles with overlaps and leave one over, a list of two payers with
other keys and one with other accounts cover both ends of the payer check, and
two retries with an answer lost at each cover "done and repeated". In `Wallet` two
calls are what it takes to share a window, a frame or a listener; the pairs
leave out those that differ only in a view that behaves alike. In `Wire` a list of
three holds a default in its middle, every order of fields is tried for classes of up to
three, and longer ones are read in the order written; the theorem has neither
bound. Deadlock is not checked except in `Wire`: a page may stop doing anything.
Type invariants document the state and no run lists them: those of `Transaction`, `ChainId`,
`CurrentUser`, `Events` and `ServiceExecution` are proved for every value of the
constants.

Fairness. `Transaction`: microtasks run to the end (WF, they are the event
loop's own queue); timers fire and requests are answered (SF: such an event
needs a drained microtask queue, which a busy program enables only now and then);
the ledger seals a transaction in the end (needed for `once*`, and stated as
such: an expired transaction has status 5). `ConnectWs`: the timer it set fires,
and a socket told to close does (the browser enforces that with a timeout).
Nothing is assumed of a server closing a connection. `Events`: the polling actor and
its subscribers run, its timers fire and its requests are answered or fail (SF,
for the same reason as above); nothing is asked of the chain, the transport or
decoders. `ChainId`: continuations run
and every request is answered or fails. `Interact`: the steps of the library, timers among them (the timeout of
`httpRequest` ends a request nobody answers), and that functions and wallets
the program uses answer or refuse; nothing is asked of the node. `ServiceExecution`:
handlers, timers and the strategies run; servers answer; a page ends or the
user closes its window in the end, without which a call waits for the user as it
should. No fairness is put on the program's
calls, nor on wallets in `CurrentUser`; `CurrentUser` has no fairness, and says instead that a
page at rest has no call waiting for anything but the wallet or the program.

## 4. What is proved

The theorems hold for every value of the constants that satisfies the named
assumptions of the modules (`ConstantsAssumption`, `ChainIdAssumption`, `ConnectWsAssumption`,
`SubscribeEventsAssumption`, `LegacyAssumption`, `StreamAssumption`, `EventsAssumption`,
`ServiceAssumption`, `TablesAssumption`): types of
the parameters, that the null values are none of the real ones, and nothing
else. `CallsAssumption` of `Interact` says that a program is made of the
library's builders and asks for something, `AccountsAssumption` of `ResolveAccounts` that the
functions of its accounts return accounts, as many and as deep as they like, and that an
address is one: `Accounts` is what a program may give or return, and nothing is said of
the roles, keys and functions in it, except that a program gives an account no id of its
own (`tempId`, which `prepAccount` would take over: the wallets and the current user give one
only to what a function returns) and no function together with an address and a key (`resolveSingleAccount`
would add such an account once more). A theorem that needs more
(`OneTx`, `SameVersion`, `Above0`) says so in its `ASSUME`, and its row explains why. In
particular no bound (`MaxUnsub`, `MaxAddr`, `MaxReloads`...) has to be small.
Each proof has the shape `Init => I`, `I /\ [Next]_vars => I'`, `I => Property`, with
one lemma per group of actions and one step per action under it.

| Theorem | Says | Inductive invariant, and why |
|---|---|---|
| `TransactionProofs!TypeCorrect` | types | `Typed` = `TypeOK` and `Opened`: a subscription in use has a transaction and an address; `TypeOK` alone does not say that what it posts there is a letter |
| `TransactionProofs!AddressesAreUnique` | no two registered subscribers share an address | itself, over `Typed`: a new address is looked up among the used ones |
| `TransactionProofs!PollsInOneLoop` | exactly one polling loop until the seal or a failed poll | `Loops`: also that nothing polls before the actor runs, that a poll under way is of an unsealed transaction, and that a pending one has not failed |
| `TransactionProofs!NoSubscriptionLeaks` | every subscribed address has its subscriber or its UNSUBSCRIBE on the way | `AllAccounted`: the same of every SUBSCRIBE still in the mailbox, with the UNSUBSCRIBE *behind* it; without the order a late SUBSCRIBE would leak |
| `TransactionProofs!SettledSubscribed` | who has taken every letter and has none on the way is subscribed at its transaction, which has no error; for any number of transactions | `Enrolled`: a waiting subscriber has its SUBSCRIBE in the mailbox with no UNSUBSCRIBE behind it, or is subscribed with none on the way and, once it has nothing to read, no error. Needs `AllAccounted` and the addresses to be unique |
| `TransactionProofs!SubscribersAreUpToDate` | it was also last told the status the actor holds | `Enrolled`, part `InformedBy`: its last letter is that status, or it has read it, or it is going to end. Needs `OneTx` (one transaction): with two, a broadcast of the other may reach an address that is used again, as `TxCrossTalk` shows |
| `TransactionProofs!OncePromisesResolveOwn` | a `once*` promise is resolved only by its transaction having the status it waits for, and not by a failed execution it is to be rejected with | `Timely`: an UPDATED says what its transaction holds when it is read, and no answer that would change that is being taken. Needs `OneTx`, for the same reason |
| `TransactionProofs!TransactionIsFeed` | `Transaction` implements the abstract `StatusFeed`: its initial states map to initial ones, each of its steps to a step or a stutter | `Timely`, `Rising` (statuses do not go back; the ledger is ahead of the actor) and `Promised` (which promises are open, and that an error is the last thing a callback hears). Needs `OneTx` |
| `ChainIdProofs!TypeCorrect` | types | `IInv` |
| `ChainIdProofs!FailuresAreForgotten` | no entry holds a failed request; every useful request is in the cache | `IInv` = types, `Phases` (how far a call is says what it has found) and `Entries` (an entry holds a useful request for its own node) |
| `ChainIdProofs!RequestsAreShared` | never two useful requests for one node | `IInv`: two useful requests would be one entry |
| `ChainIdProofs!PinnedRequestsAnswerForTheirNode` | a request that was given its node answers every call that shares it with the chain of the node the call found | `Pinned` over `IInv`: the awaited request was started for the node of the call |
| `ProtobufProofs!FieldsRoundTrip` | every field the reader knows returns what was set, for any tables, values, versions, orders and pieces | `IInv`: of each field, what was read and what is left on the wire together are what was written, and what is written determines the value; needs only that the names and numbers of a class differ (`TablesAssumption`, which TLC evaluates for every generated class) |
| `CurrentUserProofs!TypeCorrect` | types | `Typed`: also that a SNAPSHOT comes from a call and a SUBSCRIBE from a subscription |
| `CurrentUserProofs!LogoutIsFinal` | no session from before a logout is held or stored again once the page rests | `Rests` and `LogoutInv`: a revoked session may still be with the actor, in a letter or in storage, but then DEL_CURRENT_USER is behind it in the mailbox (or, for the storage, the actor is about to overwrite it); so none is left when the mailbox is empty, nor survives a reload |
| `CurrentUserProofs!ExpiredNeverReturns` | no session of an earlier page that had expired is loaded, nor held by a call | `CallInv`, part `AllFit`: also no letter brings one; part `Young`: before the load nothing but `DATA` is about, else the load would outdate what is in letters |
| `CurrentUserProofs!LoginsResolveThemselves` | a login resolves with the session it was granted | part `OwnSession`: the SNAPSHOT of such a call is right behind the letter that sets its session, or is first when the actor holds it; that no other SNAPSHOT of the call is about follows from the wallet's answer coming in a macrotask |
| `CurrentUserProofs!CallsAreAnswered` | a page at rest has answered all calls | part `Waiting`: a waiting call has its SNAPSHOT in the mailbox; and `Alive`, which needs `SameVersion`: no stored user of another version (the actor dies of one) |
| `CurrentUserProofs!WhatIsToldIsKept` | what a subscriber was told, or will be by the letters it has, is what a reload at that moment restores, unless it has expired | `ToldInv`: also that none is subscribed before the actor has its user (`Opened`), that every user with the actor or on its way is good on this page (`Lasting`), and that an actor at rest has the user of the storage (`Kept`); and `Numbered`: no session is stored that has not been granted, or it would count as one of this page |
| `SubscribeEventsProofs!ConnectionIsOne` | one live socket, or a timer that will make one, or the end | `WsIInv` = types, the property and `Retries` |
| `SubscribeEventsProofs!BudgetIsKept` | it gives up after `retryLimit` + 1 failures in a row, not before | `Retries`: the counter is the number of sockets behind the last opened one |
| `SubscribeEventsProofs!BlocksComeInOrder` | blocks are delivered in order, none twice | `Feed`: the cursor of a connection is behind the last block delivered (`Resumed`). Needs `Above0`: a height of 0 counts as none in the code |
| `SubscribeEventsProofs!NoBlockIsSkipped` | no reconnection leaves a block with events out | `Feed`, part `Complete`: everything up to the cursor was delivered |
| `EventsProofs!TypeCorrect` | types | `Typed`: the types with `OneTick` and `Asked`, since the range of a poll is one only while the high water mark is a height |
| `EventsProofs!EventsPollInOneLoop` | while anybody is subscribed there is exactly one tick, unless a request failed; none is left without subscribers | `OneTick`: of a timer, a letter TICK and a handler under way there is at most one, a TICK is first in the mailbox, and the only timer that runs is the one the actor would clear |
| `EventsProofs!WhoLeavesHasLeft` | at rest, who has left has no open stream, waits for nothing and is sent nothing | `Membership`: of every subscriber where its SUBSCRIBE and UNSUBSCRIBE are, in which order, and that whoever has ended and is still in the set has its UNSUBSCRIBE on the way |
| `EventsProofs!EventsComeInOrder` | polled events reach a callback in the order of the chain, none twice and none left out in between; streamed ones likewise | `AllHeard`: what a subscriber read and what it has to read are one run of event blocks that ends at the high water mark (`Top`), or below the range being asked for; `Streamed`: what was emitted and what is queued are what came in |
| `ServiceExecutionProofs!TypeCorrect` | types | `Core`: with the windows each view shows (`Showing`, `Named`) and, of each call, what it has in each phase (`Placed`) |
| `ServiceExecutionProofs!DecidedInTime` | what the wallet decided before its view was closed is what a call of HTTP/POST ends with, unless it fails | `Deciding`: `shouldContinue` falls only when the view is closed, `canContinue` only after that, with one more poll in between |
| `ServiceExecutionProofs!OwnFrameAnswers` | a service in an iframe is answered only by what its own page heard of it | `Framed`: a frame's page hears one call (`FramesHear`), and every answer posted from a frame is to the call of that frame (`FramesSay`), whatever is still in the mail |
| `ServiceExecutionProofs!AloneIsUndisturbed` | a call that no other was under way with is answered or halted by its own wallet or user | `Manned` (each page that may still talk has a handler that listens to it) and `Solitary`: while such a call is under way no other handler is there, only its own page talks and all the mail is for it |
| `ServiceExecutionProofs!AloneLeavesNothing` | it leaves no interval or open window behind, unless it keeps its window for a redirection, and no handler unless its view threw | the same |
| `InteractProofs!SubmitsOnce` | the node takes at most one transaction of a call, and a call that resolves names that one; over both transports, whatever is asked for and however often a request is repeated | `OneInv`: no request is under way but in the steps that make one (`Flow`), all the node has taken is what is sent now, which does not change any more once it is sent (`Taken`), and an answer names what was taken (`Known`) |
| `InteractProofs!TransportsSendAlike` | HTTP and gRPC ask the node for the same, for every interaction that is sent but a ping | `TagInv`: what an interaction asks for is settled by its builders and stays so through the resolution. That a pipe of builders gives a tag is by least element over its steps; that the two requests of a tag mean the same is a lemma per tag, which takes the fields of the gRPC messages from `AccessMessages` |
| `InteractProofs!SignedIsSent` | a payload signature that is sent with a transaction (with a sequence number) is over the payload of that transaction, for every program, whatever its functions return, in whatever order wallets sign, over both transports | `SentInv`, in the order of the steps: until the signers are asked nobody has been shown anything and no account is signed, the accounts have ids of their own and the roles name accounts (`Plain`), also between two levels of a resolution (`Waiting`); once they are resolved, each role is taken (`RolesTaken`); from signing on each signature, and each signable shown, is over the payload as it would be encoded now (`InHand`). Why the last stays true: a signature changes no field of the payload, and an address loses its prefix once (`SanTwice`), so that normalization changes accounts but not the encoding (`SameWritten`) |

The lemmas below `SignedIsSent` say what resolution makes of an interaction: what a fold
goes through (`FoldGoes`, `FoldIn`, `GoesThrough`), what `Unique`, `Among` and `InPlaceOf` keep
of a list, that what a function returns joins the accounts under an id of its own, that
replacing an id in the roles by those it resolved to leaves the roles naming
accounts, and that interactions which agree on a few fields are encoded alike. Three forms
of the model are owed to the prover: `Among` is written as a recursive function because the
prover does not expand `SelectSeq`, `InPlaceOf` as a fold, and `Sans` has a name because the
prover misreads an `@` within another `EXCEPT`.

Only model-checked: liveness in every module (`OnceSettles`,
`SealReachesSubscribers`, the stream after `close()`, `PolledEventsHeard`, that calls settle and return), which
needs fairness and ENABLED and is out of the prover's reach; and of `Interact`
`RolesResolved`, `SignaturesVerify`, `SequenceOfProposer` and `WalletsAgree`. The first is stated
with a recursive operator (`KeysOf`), which the prover does not take. The
other three hold of the accounts of the instance, not of any (among calls whose
functions or keys claim roles that other accounts hold, each of them fails for some; what
holds for all of them, that a payload signature is over what is sent, is
`PayloadsSigned`): they need an assumption on those roles on top of `SentInv` and, for
`WalletsAgree`, what sorting and folding compute. The library's induction theorems, which
take an operator as a parameter, cannot be used; where a proof here needs induction over
positions or steps it argues by the least one at which the claim fails (`LeastNat`).

### Known divergences

Besides the three runs that end in a violation, the code differs from its
documents or comments in these points. The models have the code's behaviour;
where a property would be refuted by it, the instance leaves the case out.

- `fcl-core/src/transaction/index.js:47`: after the not-found timeout has failed
  its subscribers the actor polls on.
- `fcl-core/src/transaction/index.js:167`: a suppressed error reaches the
  predicate of a `once*` promise as null, which throws.
- `fcl-core/src/utils/chain-id/get-chain-id.js:94`: a call that is given no node
  keeps in the cache, under the node it has read, the answer of the node that
  `sdk.send` reads afterwards; a change in between gives the id of another
  network (`ChainIdOfPinned` is stated for calls that are given their node).
- `fcl-core/src/current-user/index.js:43`: a stored user of another version makes
  INIT call `storage.removeItem`, which no storage provider has; the actor ends, and
  calls of `authenticate` and `snapshot` stay pending. `User` starts without such a user.
- `sdk/src/account/account.js:17` documents a block id as an option of `account`,
  but `atBlockId` (`build-at-block-id.js:11`) refuses an interaction that gets an
  account: such a call always rejects.
- `sdk/src/resolve/resolve-accounts.ts:301`: `replaceRoles` is async and not awaited, so its
  error "Multiple proposer keys were resolved, but only one is allowed" (line 259)
  rejects a promise nobody looks at. A proposer that resolves to two keys of account 3 is
  refused later, having no address (such a call is in `Interact`); with two keys of
  account 1, of which the user's own function resolves to one, the role of that account
  makes it the proposer, and the transaction is signed, sent and resolves.
- `sdk/src/decode/decode.js:37`: a value of an unknown type inside an array leaves
  the decoding pending for ever (an async executor). `Interact` decodes values
  of unknown types outside of arrays only.
- `fcl-core/src/current-user/index.js:184`: the executor of the promise of `authenticate` is
  an async function; what `getDiscoveryService` or a `finally` block throws leaves
  the promise pending. `CurrentUser` takes it that these awaits do not throw.
- `fcl/src/utils/web/strategies/utils/pop.js:25` (frame.js and tab.js alike): a view that
  throws (a blocked popup, a second frame) leaves the message handler that was
  registered before it. `fcl-core/CHANGELOG.md:990` "Fixes a bug where event listener
  was not being removed on close" is about views that were there.
- `fcl-core/src/current-user/exec-service/strategies/http-post.js:35`: a PENDING
  answer without `local` is rejected, while `wallet-provider-spec/draft-v4.md:118`
  calls the field optional. The servers of `Wallet` send a view.
- `fcl/src/utils/web/strategies/utils/extension.js`: nothing ends an extension's
  service when the next one begins, and its handler takes messages of any
  source; `CallSettles` leaves out an extension that is not alone.
- `sdk/src/wallet-utils/validate-tx.js:16` refuses the signable of a payer when an
  account other than the proposer has signed the payload, for the same reason as `VoucherTxId`;
  `WalletsAgree` asks it of the other signers only.

## 5. Not modelled

Formatting, wording and logging everywhere; payloads of transactions, events and
services; DOM rendering, build tooling and type definitions. Of the stateful
components of the table in section 1:

- Configuration: its actor is one await of the other modules. Two overloads at
  once restore each other's values, by reading; nothing in the repository does that.
- RPC client and the handlers of discovery: the other end is the discovery page,
  which is not in this repository, and decides whether and when requests are answered.
- WalletConnect: its client and sessions are a library's.
- React Native: device glue around the strategies; its browser view is in `ServiceExecution`.
- Templates, signature verification, normalizers, documents, Cadence types and
  utilities: functions without state or a single request.
- Of `ServiceExecution`: the messages of discovery's page, the strategy of the service
  that it asks FCL to run (its window, handler and abort when it loses; its answer is
  there), the abort signal a caller gives, the registry of plugins. `poll.js:33-39` asks
  once less after a close while the document is hidden: only the browser of React Native
  calls `onClose`, and it has no document.
- Of `Protobuf`: whether a number is the right one. One table stands for the writer and the
  reader of a class, as both were generated from one definition.
- Of `Interact`: RLP bytes, the hashes and the reshaping of answers; `subscribeEvents`
  of the transports is `Events`; the delay of retries is a timer without a length.

In `Transaction`, an access node answers in any order with respect to other
transactions but never later than the next macrotask it is given; a process that
ends and a page that reloads lose every actor and are not of interest there. In
`ConnectWs`, messages of a socket arrive in order, as the protocol has it. In
`SubscribeEvents`, `buildConnectionUrl` drops a start height of 0, and what is
streamed then is the node's default, its latest block. `ResumeHeight` compares with 0
as the code does, so that a stream that has delivered block 0 is not resumed
behind it; the run begins at block 1, where this does not show.

## 6. Composition, and what is left

Compositions: `SubscribeEvents` extends `ConnectWs`; `Events` extends `LegacyEvents`
and `DecodeStream`; `Interact` extends `ResolveAccounts` and `Senders`, which extend
`Signing` and `Interaction`; `Senders` takes the methods of the gRPC
interface from `AccessMessages`. `CurrentUser` abstracts from `ServiceExecution` to
"a wallet grants a session or fails", which `Wallet` shows to be so for a
call that settles. `Transaction` implements the abstract `StatusFeed`.

Left, in the order of what it would add: of `Interact`, `SignaturesVerify`,
`SequenceOfProposer` and `WalletsAgree` as theorems, under an assumption on the roles
that a program's account functions return and over `SentInv`; the abort signal and the registry of
plugins; `Configuration`.
