---------------------------- MODULE Transaction ----------------------------
(***************************************************************************)
(* fcl.tx(id): the polling actor of a transaction and the subscriptions to *)
(* it (packages/fcl-core/src/transaction/index.js on top of                *)
(* packages/util-actor).                                                   *)
(*                                                                         *)
(* Each transaction has one actor, registered under the transaction id; it *)
(* polls an access node and broadcasts what changed.  Each call of         *)
(* subscribe, and each promise of onceFinalized, onceExecuted or           *)
(* onceSealed, has one subscriber actor under an anonymous address.        *)
(*                                                                         *)
(* A step is the synchronous part of a handler between two awaits.         *)
(* Letters are handled in microtasks; a timer, and the answer of an access *)
(* node, arrives in a macrotask, which the event loop starts only when no  *)
(* microtask is left (MicrotasksDrained).  The calls of the program may    *)
(* come at any point.                                                      *)
(***************************************************************************)
EXTENDS ActorSystem, FiniteSets

CONSTANTS
  Tx,        \* transactions
  NoTx,      \* not a transaction: the sender of EXIT, the target of an unused subscription
  Sub,       \* subscriptions the program may open
  Once,      \* the subscriptions that belong to a once* promise
  Suppress,  \* the once* promises with {suppress: true}
  Goal,      \* the status each once* promise waits for: 2, 3 or 4
  Flaky,     \* the subscriptions whose callback may throw
  Failing,   \* the transactions whose execution fails: statusCode 1 once executed
  Faulty,    \* the transactions whose poll may fail other than by "not found"
  Levels,    \* the statuses that occur, of 0 .. 5
  MaxUnsub,  \* bound: calls of one unsubscribe function
  MaxAddr    \* bound: the last anonymous address

ASSUME ConstantsAssumption ==
  /\ NoTx \notin Tx
  /\ Once \subseteq Sub /\ Suppress \subseteq Once
  /\ Flaky \subseteq Sub \ Once
  /\ Goal \in [Once -> 2 .. 4]
  /\ Failing \subseteq Tx /\ Faulty \subseteq Tx
  /\ Levels \subseteq 0 .. 5
  /\ MaxUnsub \in Nat /\ MaxAddr \in Nat

\* What a callback, a poll or a letter can carry besides a status of Levels.
Empty     == -1   \* kvs = {}: nothing is known of the transaction
NotFound  == -1   \* a poll: the access node does not know the transaction
Undefined == -2   \* no data
Error     == -3   \* an error
Uncalled  == -4   \* the callback was never called

VARIABLES
  ledger,     \* what the access nodes know of each transaction
  actor,      \* the actor of each transaction: absent, spawned, running
  inbox,      \* its mailbox
  kvs,        \* the status it holds
  error,      \* whether fatalError set its registry entry's error
  subs,       \* the addresses subscribed to it
  fetch,      \* its getTransactionStatus call: none, pending, answered
  answer,     \* what the call returned
  pollTimer,  \* the timer of the next POLL is running
  deadline,   \* the timer of TIMEOUT is running
  snapshot,   \* a snapshot() call: none, waiting, replied
  pid,        \* where parseAddr starts looking for an address
  stage,      \* each subscriber actor: idle, spawned, waiting, ended, crashed, killed
  self,       \* its address
  target,     \* the transaction it subscribes to
  mailbox,    \* its mailbox
  seen,       \* what its callback was last called with, and from whom
  promise,    \* the once* promise: none, pending, resolved, rejected
  unsubs      \* how often its unsubscribe function was called

txVars  == <<actor, inbox, kvs, error, subs, fetch, answer, pollTimer, deadline, snapshot>>
subVars == <<pid, stage, self, target, mailbox, seen, promise, unsubs>>
vars    == <<ledger, txVars, subVars>>

Level       == 0 .. 5
Letter      == [tag : {"POLL", "TIMEOUT", "SUBSCRIBE", "UNSUBSCRIBE", "SNAPSHOT"}, from : Int]
SubLetter   == [tag : {"UPDATED", "EXIT"}, from : Tx \cup {NoTx}, data : Level \cup {Empty, Undefined}]

TypeOK ==
  /\ ledger    \in [Tx -> Level \cup {NotFound}]
  /\ actor     \in [Tx -> {"absent", "spawned", "running"}]
  /\ inbox     \in [Tx -> Seq(Letter)]
  /\ kvs       \in [Tx -> Level \cup {Empty}]
  /\ error     \in [Tx -> BOOLEAN]
  /\ subs      \in [Tx -> SUBSET Int]
  /\ fetch     \in [Tx -> {"none", "pending", "answered"}]
  /\ answer    \in [Tx -> Level \cup {NotFound, Error}]
  /\ pollTimer \in [Tx -> BOOLEAN]
  /\ deadline  \in [Tx -> BOOLEAN]
  /\ snapshot  \in [Tx -> {"none", "waiting", "replied"}]
  /\ pid       \in Nat
  /\ stage     \in [Sub -> {"idle", "spawned", "waiting", "ended", "crashed", "killed"}]
  /\ self      \in [Sub -> Nat \cup {NoAddr}]
  /\ target    \in [Sub -> Tx \cup {NoTx}]
  /\ mailbox   \in [Sub -> Seq(SubLetter)]
  /\ seen      \in [Sub -> [from : Tx \cup {NoTx}, level : Level \cup {Empty, Undefined, Error, Uncalled}]]
  /\ promise   \in [Sub -> {"none", "pending", "resolved", "rejected"}]
  /\ unsubs    \in [Sub -> Nat]

Init ==
  /\ ledger    = [t \in Tx |-> NotFound]
  /\ actor     = [t \in Tx |-> "absent"]
  /\ inbox     = [t \in Tx |-> << >>]
  /\ kvs       = [t \in Tx |-> Empty]
  /\ error     = [t \in Tx |-> FALSE]
  /\ subs      = [t \in Tx |-> {}]
  /\ fetch     = [t \in Tx |-> "none"]
  /\ answer    = [t \in Tx |-> NotFound]
  /\ pollTimer = [t \in Tx |-> FALSE]
  /\ deadline  = [t \in Tx |-> FALSE]
  /\ snapshot  = [t \in Tx |-> "none"]
  /\ pid       = 0
  /\ stage     = [c \in Sub |-> "idle"]
  /\ self      = [c \in Sub |-> NoAddr]
  /\ target    = [c \in Sub |-> NoTx]
  /\ mailbox   = [c \in Sub |-> << >>]
  /\ seen      = [c \in Sub |-> [from |-> NoTx, level |-> Uncalled]]
  /\ promise   = [c \in Sub |-> "none"]
  /\ unsubs    = [c \in Sub |-> 0]

-----------------------------------------------------------------------------
(* The registry.  A subscriber that crashed stays registered: spawn kills   *)
(* an actor only when its function returns.                                 *)

Registered(c) == stage[c] \in {"spawned", "waiting", "ended", "crashed"}
Holders(a)    == {c \in Sub : Registered(c) /\ self[c] = a}
Used          == {self[c] : c \in {d \in Sub : Registered(d)}}

Mail(tag, a)            == [tag |-> tag, from |-> a]
Updated(t, data)        == [tag |-> "UPDATED", from |-> t, data |-> data]
Exit                    == [tag |-> "EXIT", from |-> NoTx, data |-> Undefined]
PostTx(t, letter)       == inbox' = [inbox EXCEPT ![t] = Append(@, letter)]
PostSubs(holders, letter) == mailbox' = send(mailbox, holders, letter)
Broadcast(t, data)      == PostSubs(UNION {Holders(a) : a \in subs[t]}, Updated(t, data))

isSealed(level)         == level >= 4
statusCode(t, level)    == IF t \in Failing /\ level >= 3 THEN 1 ELSE 0

(* A macrotask starts when every actor waits: for a letter, or for an answer. *)
SubRunnable(c) == \/ stage[c] \in {"spawned", "ended"}
                  \/ stage[c] = "waiting" /\ mailbox[c] # << >>
TxRunnable(t)  == \/ actor[t] = "spawned"
                  \/ actor[t] = "running" /\ fetch[t] = "none" /\ inbox[t] # << >>
                  \/ fetch[t] = "answered"
MicrotasksDrained == /\ \A c \in Sub : ~ SubRunnable(c)
                     /\ \A t \in Tx : ~ TxRunnable(t)

-----------------------------------------------------------------------------
(* The access nodes: a transaction is found, and its status only rises.     *)

LedgerAdvances(t, level) ==
  /\ level > ledger[t]
  /\ ~ isSealed(ledger[t])
  /\ ledger' = [ledger EXCEPT ![t] = level]
  /\ UNCHANGED <<txVars, subVars>>

-----------------------------------------------------------------------------
(* The actor of a transaction.                                              *)

\* spawnTransaction: nothing happens if the actor is registered already.
SpawnTx(t) == actor' = [actor EXCEPT ![t] = IF @ = "absent" THEN "spawned" ELSE @]

\* INIT.
TxStart(t) ==
  /\ actor[t] = "spawned"
  /\ actor'    = [actor EXCEPT ![t] = "running"]
  /\ deadline' = [deadline EXCEPT ![t] = TRUE]
  /\ PostTx(t, Mail("POLL", NoAddr))
  /\ UNCHANGED <<ledger, kvs, error, subs, fetch, answer, pollTimer, snapshot, subVars>>

\* The loop of fromHandlers takes the next letter: no handler is running.
TxReceives(t, tag) ==
  /\ actor[t] = "running" /\ fetch[t] = "none"
  /\ inbox[t] # << >>
  /\ receive(inbox[t]).tag = tag
  /\ inbox' = [inbox EXCEPT ![t] = rest(@)]
  /\ UNCHANGED <<ledger, actor, kvs, answer, pollTimer, deadline, pid, stage, self, target,
                 seen, promise, unsubs>>

\* Mutant of TxSubscribe: the new subscriber is not told the status known.
TxSubscribeSilently(t) ==
  /\ TxReceives(t, "SUBSCRIBE")
  /\ subs' = [subs EXCEPT ![t] = @ \cup {receive(inbox[t]).from}]
  /\ UNCHANGED <<error, fetch, snapshot, mailbox>>

TxSubscribe(t) ==
  /\ TxReceives(t, "SUBSCRIBE")
  /\ LET a == receive(inbox[t]).from IN
       /\ subs' = [subs EXCEPT ![t] = @ \cup {a}]
       /\ PostSubs(Holders(a), Updated(t, kvs[t]))
  /\ UNCHANGED <<error, fetch, snapshot>>

TxUnsubscribe(t) ==
  /\ TxReceives(t, "UNSUBSCRIBE")
  /\ subs' = [subs EXCEPT ![t] = @ \ {receive(inbox[t]).from}]
  /\ UNCHANGED <<error, fetch, snapshot, mailbox>>

TxSnapshot(t) ==
  /\ TxReceives(t, "SNAPSHOT")
  /\ snapshot' = [snapshot EXCEPT ![t] = "replied"]
  /\ UNCHANGED <<error, subs, fetch, mailbox>>

\* fatalError: the error is stored, and the subscribers are woken with no data.
TxTimeout(t) ==
  /\ TxReceives(t, "TIMEOUT")
  /\ IF kvs[t] = Empty
       THEN /\ error' = [error EXCEPT ![t] = TRUE]
            /\ Broadcast(t, Undefined)
       ELSE UNCHANGED <<error, mailbox>>
  /\ UNCHANGED <<subs, fetch, snapshot>>

\* POLL, up to the await of fetchTxStatus.
TxPoll(t) ==
  /\ TxReceives(t, "POLL")
  /\ fetch' = [fetch EXCEPT ![t] = "pending"]
  /\ UNCHANGED <<error, subs, snapshot, mailbox>>

\* The answer reaches the process.
AccessNodeAnswers(t) ==
  /\ fetch[t] = "pending" /\ MicrotasksDrained
  /\ fetch' = [fetch EXCEPT ![t] = "answered"]
  /\ \/ answer' = [answer EXCEPT ![t] = ledger[t]]
     \/ t \in Faulty /\ answer' = [answer EXCEPT ![t] = Error]
  /\ UNCHANGED <<ledger, actor, inbox, kvs, error, subs, pollTimer, deadline, snapshot, subVars>>

\* POLL, after the await.
TxContinuesPoll(t) ==
  /\ fetch[t] = "answered"
  /\ fetch' = [fetch EXCEPT ![t] = "none"]
  /\ UNCHANGED <<ledger, actor, inbox, subs, answer, deadline, snapshot,
                 pid, stage, self, target, seen, promise, unsubs>>

PollNotFound(t) ==
  /\ TxContinuesPoll(t)
  /\ answer[t] = NotFound
  /\ pollTimer' = [pollTimer EXCEPT ![t] = TRUE]
  /\ UNCHANGED <<kvs, error, mailbox>>

PollFails(t) ==
  /\ TxContinuesPoll(t)
  /\ answer[t] = Error
  /\ error' = [error EXCEPT ![t] = TRUE]
  /\ Broadcast(t, Undefined)
  /\ UNCHANGED <<kvs, pollTimer>>

\* Mutants of PollFinds: it polls on after the seal; it polls on only after a
\* change; it broadcasts the status before.
PollFindsForever(t) ==
  /\ TxContinuesPoll(t)
  /\ answer[t] \in Level
  /\ pollTimer' = [pollTimer EXCEPT ![t] = TRUE]
  /\ IF kvs[t] # answer[t] THEN Broadcast(t, answer[t]) ELSE UNCHANGED mailbox
  /\ kvs' = [kvs EXCEPT ![t] = answer[t]]
  /\ UNCHANGED error

PollFindsChange(t) ==
  /\ TxContinuesPoll(t)
  /\ answer[t] \in Level
  /\ IF kvs[t] # answer[t]
       THEN /\ Broadcast(t, answer[t])
            /\ pollTimer' = [pollTimer EXCEPT ![t] = @ \/ ~ isSealed(answer[t])]
       ELSE UNCHANGED <<mailbox, pollTimer>>
  /\ kvs' = [kvs EXCEPT ![t] = answer[t]]
  /\ UNCHANGED error

PollFindsStale(t) ==
  /\ TxContinuesPoll(t)
  /\ answer[t] \in Level
  /\ pollTimer' = [pollTimer EXCEPT ![t] = @ \/ ~ isSealed(answer[t])]
  /\ IF kvs[t] # answer[t] THEN Broadcast(t, kvs[t]) ELSE UNCHANGED mailbox
  /\ kvs' = [kvs EXCEPT ![t] = answer[t]]
  /\ UNCHANGED error

PollFinds(t) ==
  /\ TxContinuesPoll(t)
  /\ answer[t] \in Level
  /\ pollTimer' = [pollTimer EXCEPT ![t] = @ \/ ~ isSealed(answer[t])]
  /\ IF kvs[t] # answer[t] THEN Broadcast(t, answer[t]) ELSE UNCHANGED mailbox
  /\ kvs' = [kvs EXCEPT ![t] = answer[t]]
  /\ UNCHANGED error

PollTimerFires(t) ==
  /\ pollTimer[t] /\ MicrotasksDrained
  /\ pollTimer' = [pollTimer EXCEPT ![t] = FALSE]
  /\ PostTx(t, Mail("POLL", NoAddr))
  /\ UNCHANGED <<ledger, actor, kvs, error, subs, fetch, answer, deadline, snapshot, subVars>>

DeadlineFires(t) ==
  /\ deadline[t] /\ MicrotasksDrained
  /\ deadline' = [deadline EXCEPT ![t] = FALSE]
  /\ PostTx(t, Mail("TIMEOUT", NoAddr))
  /\ UNCHANGED <<ledger, actor, kvs, error, subs, fetch, answer, pollTimer, snapshot, subVars>>

-----------------------------------------------------------------------------
(* The program, and the subscriber actors it starts.                        *)

\* subscribe(callback), and the call of it by onceFinalized and its siblings.
Subscribe(c, t) ==
  /\ stage[c] = "idle"
  /\ SpawnTx(t)
  /\ \E a \in 0 .. MaxAddr :
       /\ parseAddr(a, pid, Used)
       /\ pid'  = a
       /\ self' = [self EXCEPT ![c] = a]
  /\ stage'   = [stage EXCEPT ![c] = "spawned"]
  /\ target'  = [target EXCEPT ![c] = t]
  /\ promise' = [promise EXCEPT ![c] = IF c \in Once THEN "pending" ELSE @]
  /\ UNCHANGED <<ledger, inbox, kvs, error, subs, fetch, answer, pollTimer, deadline, snapshot,
                 mailbox, seen, unsubs>>

\* The function subscribe returned: EXIT to whoever holds the address now.
Unsubscribe(c) ==
  /\ stage[c] # "idle" /\ c \notin Once
  /\ unsubs[c] < MaxUnsub
  /\ unsubs' = [unsubs EXCEPT ![c] = @ + 1]
  /\ PostSubs(Holders(self[c]), Exit)
  /\ UNCHANGED <<ledger, txVars, pid, stage, self, target, seen, promise>>

\* snapshot().
Snapshot(t) ==
  /\ snapshot[t] = "none"
  /\ snapshot' = [snapshot EXCEPT ![t] = "waiting"]
  /\ SpawnTx(t)
  /\ PostTx(t, Mail("SNAPSHOT", NoAddr))
  /\ UNCHANGED <<ledger, kvs, error, subs, fetch, answer, pollTimer, deadline, subVars>>

\* The first microtask of a subscriber.  The one of the transaction's actor,
\* if subscribe spawned it, was queued before and has run.
SubStart(c) ==
  /\ stage[c] = "spawned" /\ actor[target[c]] = "running"
  /\ stage' = [stage EXCEPT ![c] = "waiting"]
  /\ PostTx(target[c], Mail("SUBSCRIBE", self[c]))
  /\ UNCHANGED <<ledger, actor, kvs, error, subs, fetch, answer, pollTimer, deadline, snapshot,
                 pid, self, target, mailbox, seen, promise, unsubs>>

\* The loop of the subscriber takes the next letter.
SubReceives(c) ==
  /\ stage[c] = "waiting" /\ mailbox[c] # << >>
  /\ UNCHANGED <<ledger, actor, kvs, error, subs, fetch, answer, pollTimer, deadline, snapshot,
                 pid, self, target, unsubs>>

\* Mutant of SubEnds: it does not unsubscribe from the transaction.
SubEndsSilently(c) ==
  /\ stage' = [stage EXCEPT ![c] = "ended"]
  /\ UNCHANGED inbox

\* The end of a subscriber: UNSUBSCRIBE is sent, the function returns.
SubEnds(c) ==
  /\ stage' = [stage EXCEPT ![c] = "ended"]
  /\ PostTx(target[c], Mail("UNSUBSCRIBE", self[c]))

\* Its callback throws: the function rejects, so that nothing is sent or killed.
SubCrashes(c) ==
  /\ stage' = [stage EXCEPT ![c] = "crashed"]
  /\ UNCHANGED inbox

SubExits(c) ==
  /\ SubReceives(c)
  /\ receive(mailbox[c]).tag = "EXIT"
  /\ mailbox' = [mailbox EXCEPT ![c] = rest(@)]
  /\ SubEnds(c)
  /\ UNCHANGED <<seen, promise>>

\* A promise settles once.
Settle(c, outcome) ==
  promise' = [promise EXCEPT ![c] = IF @ = "pending" THEN outcome ELSE @]

\* Mutant of SubFails: the error does not reject the promise.
SubFailsUnheard(c) ==
  /\ SubReceives(c)
  /\ receive(mailbox[c]).tag = "UPDATED" /\ error[target[c]]
  /\ seen' = [seen EXCEPT ![c] = [from |-> target[c], level |-> Error]]
  /\ mailbox' = [mailbox EXCEPT ![c] = rest(@)]
  /\ SubEnds(c)
  /\ UNCHANGED promise

\* The error of the actor it subscribed to is set when it takes a letter.
\* (unsub() in the callback posts an EXIT that nothing takes any more.)
SubFails(c) ==
  /\ SubReceives(c)
  /\ receive(mailbox[c]).tag = "UPDATED" /\ error[target[c]]
  /\ seen' = [seen EXCEPT ![c] = [from |-> target[c], level |-> Error]]
  /\ IF c \in Once \ Suppress
       THEN /\ Settle(c, "rejected")
            /\ mailbox' = [mailbox EXCEPT ![c] = Append(rest(@), Exit)]
       ELSE /\ mailbox' = [mailbox EXCEPT ![c] = rest(@)]
            /\ UNCHANGED promise
  /\ \/ c \notin Suppress /\ SubEnds(c)
     \/ c \in Suppress \cup Flaky /\ SubCrashes(c)

\* The letter goes to the callback.
SubCalls(c, letter) ==
  /\ SubReceives(c)
  /\ letter = receive(mailbox[c])
  /\ letter.tag = "UPDATED" /\ ~ error[target[c]]
  /\ seen' = [seen EXCEPT ![c] = [from |-> letter.from, level |-> letter.data]]

SubCallsPlain(c) ==
  /\ c \notin Once
  /\ SubCalls(c, receive(mailbox[c]))
  /\ mailbox' = [mailbox EXCEPT ![c] = rest(@)]
  /\ \/ UNCHANGED <<stage, inbox>>
     \/ c \in Flaky /\ SubCrashes(c)
  /\ UNCHANGED promise

\* once: reject, or resolve, and unsub(); the letters before the EXIT still come.
SettlesAndUnsubscribes(c, outcome) ==
  /\ Settle(c, outcome)
  /\ mailbox' = [mailbox EXCEPT ![c] = Append(rest(@), Exit)]
  /\ UNCHANGED <<stage, inbox>>

\* Mutant of SubCallsOnce: the status code is not looked at.
SubCallsOnceUnchecked(c) ==
  /\ c \in Once
  /\ SubCalls(c, receive(mailbox[c]))
  /\ IF receive(mailbox[c]).data >= Goal[c]
       THEN SettlesAndUnsubscribes(c, "resolved")
       ELSE /\ mailbox' = [mailbox EXCEPT ![c] = rest(@)]
            /\ UNCHANGED <<stage, inbox, promise>>

SubCallsOnce(c) ==
  /\ c \in Once
  /\ LET letter   == receive(mailbox[c])
         rejects  == statusCode(letter.from, letter.data) = 1 /\ c \notin Suppress
         resolves == ~ rejects /\ letter.data >= Goal[c]
     IN
     /\ SubCalls(c, letter)
     /\ \/ letter.data = Undefined                    \* txStatus.statusCode of undefined
           /\ SubCrashes(c)
           /\ mailbox' = [mailbox EXCEPT ![c] = rest(@)]
           /\ UNCHANGED promise
        \/ letter.data # Undefined /\ rejects  /\ SettlesAndUnsubscribes(c, "rejected")
        \/ letter.data # Undefined /\ resolves /\ SettlesAndUnsubscribes(c, "resolved")
        \/ letter.data # Undefined /\ ~ rejects /\ ~ resolves
           /\ mailbox' = [mailbox EXCEPT ![c] = rest(@)]
           /\ UNCHANGED <<stage, inbox, promise>>

\* spawn's kill, once the function has returned; the mailbox is dropped with it.
SubKill(c) ==
  /\ stage[c] = "ended"
  /\ stage'   = [stage EXCEPT ![c] = "killed"]
  /\ mailbox' = [mailbox EXCEPT ![c] = << >>]
  /\ UNCHANGED <<ledger, txVars, pid, self, target, seen, promise, unsubs>>

-----------------------------------------------------------------------------
Program == \/ \E c \in Sub, t \in Tx : Subscribe(c, t)
           \/ \E c \in Sub : Unsubscribe(c)
           \/ \E t \in Tx : Snapshot(t)

TxMicrotask(t) == \/ TxStart(t)
                  \/ TxSubscribe(t) \/ TxUnsubscribe(t) \/ TxSnapshot(t)
                  \/ TxTimeout(t) \/ TxPoll(t)
                  \/ PollNotFound(t) \/ PollFails(t) \/ PollFinds(t)

SubMicrotask(c) == \/ SubStart(c) \/ SubKill(c)
                   \/ SubExits(c) \/ SubFails(c) \/ SubCallsPlain(c) \/ SubCallsOnce(c)

Macrotask(t) == AccessNodeAnswers(t) \/ PollTimerFires(t) \/ DeadlineFires(t)

Environment == \E t \in Tx, level \in Levels : LedgerAdvances(t, level)

Next == \/ Program
        \/ Environment
        \/ \E t \in Tx : TxMicrotask(t) \/ Macrotask(t)
        \/ \E c \in Sub : SubMicrotask(c)

Spec == Init /\ [][Next]_vars

\* Microtasks run to the end; timers fire and calls are answered however often
\* the process is busy when they could be; a transaction is sealed in the end.
Fairness ==
  /\ \A t \in Tx : /\ WF_vars(TxMicrotask(t))
                   /\ SF_vars(AccessNodeAnswers(t))
                   /\ SF_vars(PollTimerFires(t))
                   /\ SF_vars(DeadlineFires(t))
                   /\ WF_vars(\E level \in Levels : LedgerAdvances(t, level))
  /\ \A c \in Sub : WF_vars(SubMicrotask(c))

FairSpec == Spec /\ Fairness

-----------------------------------------------------------------------------
(* Safety.                                                                  *)

\* A transaction has one polling loop, however many subscribers, snapshots and
\* timeouts it has: of a POLL in the mailbox, a running poll timer and a poll
\* under way there is never more than one; and until the status is sealed, or a
\* poll has failed, there is exactly one, so that no found or missing status
\* leaves the transaction without a next poll (INIT, POLL).
PollsIn(queue)    == {i \in 1 .. Len(queue) : queue[i].tag = "POLL"}
PollLetters(t)    == PollsIn(inbox[t])
Polling(t)        == PollLetters(t) # {} \/ pollTimer[t] \/ fetch[t] # "none"
PollingStopped(t) == isSealed(kvs[t]) \/ answer[t] = Error

OnePollLoop ==
  \A t \in Tx :
    /\ \A i, j \in PollLetters(t) : i = j
    /\ PollLetters(t) # {} => ~ pollTimer[t] /\ fetch[t] = "none"
    /\ pollTimer[t] => fetch[t] = "none"
    /\ actor[t] = "running" /\ fetch[t] = "none" => (Polling(t) <=> ~ PollingStopped(t))

\* No subscription leaks: an address a transaction still broadcasts to belongs
\* to a subscriber of that transaction that has not ended (or whose callback
\* crashed it), or the UNSUBSCRIBE that removes the address is on its way.
HasSubscriber(t, a) ==
  \E c \in Holders(a) : target[c] = t /\ stage[c] \in {"waiting", "crashed"}

SubsAccounted ==
  \A t \in Tx : \A a \in subs[t] :
    \/ HasSubscriber(t, a)
    \/ \E i \in 1 .. Len(inbox[t]) : inbox[t][i] = Mail("UNSUBSCRIBE", a)

\* No two registered subscriber actors hold the same address.
UniqueAddresses ==
  \A c, d \in Sub : Registered(c) /\ Registered(d) /\ self[c] = self[d] => c = d

\* The subscribers agree with the actor: once a subscriber has taken every
\* letter and none of its own is on the way, it is subscribed, its callback was
\* last called with the status the actor holds, and the actor has no error.
Settled(c) ==
  /\ stage[c] = "waiting" /\ mailbox[c] = << >>
  /\ \A i \in 1 .. Len(inbox[target[c]]) : inbox[target[c]][i].from # self[c]

SubscribersUpToDate ==
  \A c \in Sub : Settled(c) =>
    /\ self[c] \in subs[target[c]]
    /\ seen[c] = [from |-> target[c], level |-> kvs[target[c]]]
    /\ ~ error[target[c]]

-----------------------------------------------------------------------------
(* Action properties.                                                       *)

\* A once* promise is resolved only when its own transaction has the status it
\* waits for, and not with the failed execution it is to be rejected with.
OnceResolvesOwn ==
  [][\A c \in Once : promise[c] # "resolved" /\ promise'[c] = "resolved" =>
       /\ kvs[target[c]] >= Goal[c]
       /\ statusCode(target[c], kvs[target[c]]) = 0 \/ c \in Suppress]_vars

-----------------------------------------------------------------------------
(* Liveness.                                                                *)

\* Every once* promise settles: the status comes, or polling fails, or the
\* deadline passes (once, with errors not suppressed).
OnceSettles == \A c \in Once \ Suppress : promise[c] = "pending" ~> promise[c] # "pending"

\* Whoever stays subscribed is told of the seal or of a failure.
SealReachesSubscribers ==
  \A c \in Sub : stage[c] = "waiting" ~>
    isSealed(seen[c].level) \/ seen[c].level = Error \/ stage[c] # "waiting"

-----------------------------------------------------------------------------
(* What the subscribers of one transaction are promised.                    *)

Phase(c) == CASE stage[c] \in {"idle", "spawned"} -> "unopened"
              [] stage[c] = "waiting"             -> "open"
              [] OTHER                            -> "closed"

\* The mapping for an instance with one transaction.
TheTx == CHOOSE t \in Tx : TRUE

Feed == INSTANCE StatusFeed WITH
          known <- kvs[TheTx],
          phase <- [c \in Sub |-> Phase(c)],
          told  <- [c \in Sub |-> seen[c].level]

\* The actor of one transaction and its subscribers implement StatusFeed: no
\* stale status, no call after an error, no promise settled early.
FeedRefined == Feed!Spec
=============================================================================
