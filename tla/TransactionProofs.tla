------------------------- MODULE TransactionProofs -------------------------
(***************************************************************************)
(* Theorems about Transaction, for every set of transactions and of        *)
(* subscriptions.                                                          *)
(***************************************************************************)
EXTENDS Transaction, TLAPS

-----------------------------------------------------------------------------
(* Letters.                                                                 *)

LEMMA MailType ==
  ASSUME NEW a \in Int,
         NEW tag \in {"POLL", "TIMEOUT", "SUBSCRIBE", "UNSUBSCRIBE", "SNAPSHOT"}
  PROVE  Mail(tag, a) \in Letter
  BY DEF Mail, Letter

LEMMA SubLetterType ==
  /\ Exit \in SubLetter
  /\ \A t \in Tx, d \in Level \cup {Empty, Undefined} : Updated(t, d) \in SubLetter
  BY DEF Exit, Updated, SubLetter, Undefined

\* send keeps the mailboxes sequences of letters.
LEMMA SendType ==
  ASSUME NEW m \in [Sub -> Seq(SubLetter)], NEW S, NEW l \in SubLetter
  PROVE  send(m, S, l) \in [Sub -> Seq(SubLetter)]
  BY DEF send

LEMMA BroadcastType ==
  ASSUME mailbox \in [Sub -> Seq(SubLetter)], NEW t \in Tx,
         NEW d \in Level \cup {Empty, Undefined}, Broadcast(t, d)
  PROVE  mailbox' \in [Sub -> Seq(SubLetter)]
<1>1. Updated(t, d) \in SubLetter
  BY SubLetterType
<1> QED
  BY <1>1, SendType DEF Broadcast, PostSubs

LEMMA SettleType ==
  ASSUME promise \in [Sub -> {"none", "pending", "resolved", "rejected"}], NEW c \in Sub,
         NEW outcome \in {"resolved", "rejected"},
         Settle(c, outcome)
  PROVE  promise' \in [Sub -> {"none", "pending", "resolved", "rejected"}]
  BY DEF Settle

\* A subscription that is in use has a transaction and an address.
Opened == \A c \in Sub : stage[c] # "idle" => target[c] \in Tx /\ self[c] \in Nat

-----------------------------------------------------------------------------
(* Type correctness.                                                        *)

Typed == TypeOK /\ Opened

LEMMA InitTyped == Init => Typed
  BY DEF Init, Typed, TypeOK, Opened, Level, NotFound, Empty, Uncalled, NoAddr

LEMMA ProgramTyped == ASSUME Typed, Program PROVE Typed'
<1> USE DEF Typed, TypeOK, Opened
<1>1. ASSUME NEW c \in Sub, NEW t \in Tx, Subscribe(c, t) PROVE Typed'
  <2>1. PICK a \in 0 .. MaxAddr : pid' = a /\ self' = [self EXCEPT ![c] = a]
    BY <1>1 DEF Subscribe
  <2>2. a \in Nat
    BY ConstantsAssumption
  <2> QED
    BY <1>1, <2>1, <2>2 DEF Subscribe, SpawnTx
<1>2. ASSUME NEW c \in Sub, Unsubscribe(c) PROVE Typed'
  <2>1. mailbox' \in [Sub -> Seq(SubLetter)]
    BY <1>2, SendType, SubLetterType DEF Unsubscribe, PostSubs
  <2>2. unsubs' \in [Sub -> Nat]
    BY <1>2 DEF Unsubscribe
  <2> QED
    BY <1>2, <2>1, <2>2 DEF Unsubscribe, txVars
<1>3. ASSUME NEW t \in Tx, Snapshot(t) PROVE Typed'
  <2>1. inbox' \in [Tx -> Seq(Letter)]
    BY <1>3, MailType DEF Snapshot, PostTx, NoAddr
  <2> QED
    BY <1>3, <2>1 DEF Snapshot, SpawnTx, subVars
<1> QED
  BY <1>1, <1>2, <1>3 DEF Program

LEMMA TxTyped == ASSUME Typed, NEW t \in Tx, TxMicrotask(t) PROVE Typed'
<1> USE DEF Typed, TypeOK, Opened
<1>1. CASE TxStart(t)
  <2>1. inbox' \in [Tx -> Seq(Letter)]
    BY <1>1, MailType DEF TxStart, PostTx, NoAddr
  <2> QED
    BY <1>1, <2>1 DEF TxStart, subVars
<1>2. ASSUME NEW tag, TxReceives(t, tag)
      PROVE  /\ inbox' \in [Tx -> Seq(Letter)]
             /\ receive(inbox[t]) \in Letter
  BY <1>2 DEF TxReceives, receive, rest
<1>3. CASE TxSubscribe(t)
  <2>1. mailbox' \in [Sub -> Seq(SubLetter)]
    <3>1. Updated(t, kvs[t]) \in SubLetter
      BY SubLetterType
    <3> QED
      BY <1>3, <3>1, SendType DEF TxSubscribe, PostSubs
  <2>2. receive(inbox[t]).from \in Int
    BY <1>2, <1>3 DEF TxSubscribe, Letter
  <2> QED
    BY <1>2, <1>3, <2>1, <2>2 DEF TxSubscribe, TxReceives
<1>4. CASE TxUnsubscribe(t)
  BY <1>2, <1>4 DEF TxUnsubscribe, TxReceives
<1>5. CASE TxSnapshot(t)
  BY <1>2, <1>5 DEF TxSnapshot, TxReceives
<1>6. CASE TxTimeout(t)
  <2>1. mailbox' \in [Sub -> Seq(SubLetter)]
    <3>1. Broadcast(t, Undefined) => mailbox' \in [Sub -> Seq(SubLetter)]
      BY BroadcastType
    <3> QED
      BY <1>6, <3>1 DEF TxTimeout
  <2> QED
    BY <1>2, <1>6, <2>1 DEF TxTimeout, TxReceives
<1>7. CASE TxPoll(t)
  BY <1>2, <1>7 DEF TxPoll, TxReceives
<1>8. CASE PollNotFound(t)
  BY <1>8 DEF PollNotFound, TxContinuesPoll
<1>9. CASE PollFails(t)
  <2>1. mailbox' \in [Sub -> Seq(SubLetter)]
    BY <1>9, BroadcastType DEF PollFails
  <2> QED
    BY <1>9, <2>1 DEF PollFails, TxContinuesPoll
<1>10. CASE PollFinds(t)
  <2>1. mailbox' \in [Sub -> Seq(SubLetter)]
    BY <1>10, BroadcastType DEF PollFinds
  <2> QED
    BY <1>10, <2>1 DEF PollFinds, TxContinuesPoll
<1> QED
  BY <1>1, <1>3, <1>4, <1>5, <1>6, <1>7, <1>8, <1>9, <1>10 DEF TxMicrotask

\* A subscriber whose function ends or crashes had been opened.
LEMMA StageTyped ==
  ASSUME Typed, NEW c \in Sub, stage[c] # "idle", SubEnds(c) \/ SubCrashes(c)
  PROVE  /\ stage' \in [Sub -> {"idle", "spawned", "waiting", "ended", "crashed", "killed"}]
         /\ \A d \in Sub : stage'[d] # "idle" => stage[d] # "idle"
BY DEF Typed, TypeOK, SubEnds, SubCrashes

LEMMA SubTyped == ASSUME Typed, NEW c \in Sub, SubMicrotask(c) PROVE Typed'
<1> USE DEF Typed, TypeOK, Opened
<1>1. ASSUME NEW tag \in {"SUBSCRIBE", "UNSUBSCRIBE"}, stage[c] # "idle",
             PostTx(target[c], Mail(tag, self[c]))
      PROVE  inbox' \in [Tx -> Seq(Letter)]
  BY <1>1, MailType DEF PostTx
<1>2. CASE SubStart(c)
  BY <1>1, <1>2 DEF SubStart
<1>3. CASE SubKill(c)
  BY <1>3 DEF SubKill, txVars
<1>4. ASSUME mailbox[c] # << >>
      PROVE  /\ receive(mailbox[c]) \in SubLetter
             /\ rest(mailbox[c]) \in Seq(SubLetter)
             /\ Append(rest(mailbox[c]), Exit) \in Seq(SubLetter)
  BY <1>4, SubLetterType DEF receive, rest
<1>5. CASE SubExits(c)
  <2>1. inbox' \in [Tx -> Seq(Letter)]
    BY <1>1, <1>5 DEF SubExits, SubReceives, SubEnds
  <2>2. mailbox' \in [Sub -> Seq(SubLetter)]
    BY <1>4, <1>5 DEF SubExits, SubReceives
  <2>3. /\ stage' \in [Sub -> {"idle", "spawned", "waiting", "ended", "crashed", "killed"}]
        /\ \A d \in Sub : stage'[d] # "idle" => stage[d] # "idle"
    BY <1>5, StageTyped DEF SubExits, SubReceives
  <2> QED
    BY <1>5, <2>1, <2>2, <2>3 DEF SubExits, SubReceives
<1>6. CASE SubFails(c)
  <2>1. inbox' \in [Tx -> Seq(Letter)]
    BY <1>1, <1>6 DEF SubFails, SubReceives, SubEnds, SubCrashes
  <2>2. mailbox' \in [Sub -> Seq(SubLetter)]
    <3>1. mailbox[c] # << >>
      BY <1>6 DEF SubFails, SubReceives
    <3>2. \/ mailbox' = [mailbox EXCEPT ![c] = rest(mailbox[c])]
          \/ mailbox' = [mailbox EXCEPT ![c] = Append(rest(mailbox[c]), Exit)]
      BY <1>6 DEF SubFails
    <3> QED
      BY <1>4, <3>1, <3>2
  <2>3. seen' \in [Sub -> [from : Tx \cup {NoTx}, level : Level \cup {Empty, Undefined, Error, Uncalled}]]
    BY <1>6 DEF SubFails, SubReceives
  <2>4. promise' \in [Sub -> {"none", "pending", "resolved", "rejected"}]
    BY <1>6, SettleType DEF SubFails
  <2>5. /\ stage' \in [Sub -> {"idle", "spawned", "waiting", "ended", "crashed", "killed"}]
        /\ \A d \in Sub : stage'[d] # "idle" => stage[d] # "idle"
    BY <1>6, StageTyped DEF SubFails, SubReceives
  <2> QED
    BY <1>6, <2>1, <2>2, <2>3, <2>4, <2>5 DEF SubFails, SubReceives
<1>7. ASSUME SubCalls(c, receive(mailbox[c]))
      PROVE  seen' \in [Sub -> [from : Tx \cup {NoTx}, level : Level \cup {Empty, Undefined, Error, Uncalled}]]
  BY <1>4, <1>7 DEF SubCalls, SubReceives, SubLetter
<1>8. CASE SubCallsPlain(c)
  <2>1. SubCalls(c, receive(mailbox[c]))
    BY <1>8 DEF SubCallsPlain
  <2>2. mailbox' \in [Sub -> Seq(SubLetter)]
    BY <1>4, <1>8, <2>1 DEF SubCallsPlain, SubCalls, SubReceives
  <2>3. /\ inbox' = inbox
        /\ stage' \in [Sub -> {"idle", "spawned", "waiting", "ended", "crashed", "killed"}]
        /\ \A d \in Sub : stage'[d] # "idle" => stage[d] # "idle"
    BY <1>8, <2>1, StageTyped DEF SubCallsPlain, SubCalls, SubReceives, SubCrashes
  <2> QED
    BY <1>7, <1>8, <2>1, <2>2, <2>3 DEF SubCallsPlain, SubCalls, SubReceives
<1>9. CASE SubCallsOnce(c)
  <2>1. SubCalls(c, receive(mailbox[c]))
    BY <1>9 DEF SubCallsOnce
  <2>2. mailbox' \in [Sub -> Seq(SubLetter)]
    <3>1. mailbox[c] # << >>
      BY <2>1 DEF SubCalls, SubReceives
    <3>2. \/ mailbox' = [mailbox EXCEPT ![c] = rest(mailbox[c])]
          \/ mailbox' = [mailbox EXCEPT ![c] = Append(rest(mailbox[c]), Exit)]
      BY <1>9 DEF SubCallsOnce, SettlesAndUnsubscribes
    <3> QED
      BY <1>4, <3>1, <3>2
  <2>3. promise' \in [Sub -> {"none", "pending", "resolved", "rejected"}]
    BY <1>9, SettleType DEF SubCallsOnce, SettlesAndUnsubscribes
  <2>4. /\ inbox' = inbox
        /\ stage' \in [Sub -> {"idle", "spawned", "waiting", "ended", "crashed", "killed"}]
        /\ \A d \in Sub : stage'[d] # "idle" => stage[d] # "idle"
    BY <1>9, <2>1 DEF SubCallsOnce, SubCalls, SubReceives, SettlesAndUnsubscribes, SubCrashes
  <2> QED
    BY <1>7, <2>1, <2>2, <2>3, <2>4 DEF SubCalls, SubReceives
<1> QED
  BY <1>2, <1>3, <1>5, <1>6, <1>8, <1>9 DEF SubMicrotask

LEMMA MacroTyped == ASSUME Typed, NEW t \in Tx, Macrotask(t) PROVE Typed'
<1> USE DEF Typed, TypeOK, Opened
<1>1. CASE AccessNodeAnswers(t)
  <2>1. answer' \in [Tx -> Level \cup {NotFound, Error}]
    <3>1. ledger[t] \in Level \cup {NotFound, Error}
      OBVIOUS
    <3>2. PICK x \in {ledger[t], Error} : answer' = [answer EXCEPT ![t] = x]
      BY <1>1 DEF AccessNodeAnswers
    <3>3. x \in Level \cup {NotFound, Error}
      BY <3>1, <3>2
    <3> QED
      BY <3>2, <3>3
  <2>2. fetch' \in [Tx -> {"none", "pending", "answered"}]
    BY <1>1 DEF AccessNodeAnswers
  <2> QED
    BY <1>1, <2>1, <2>2 DEF AccessNodeAnswers, subVars
<1>2. CASE PollTimerFires(t)
  <2>1. inbox' \in [Tx -> Seq(Letter)]
    BY <1>2, MailType DEF PollTimerFires, PostTx, NoAddr
  <2> QED
    BY <1>2, <2>1 DEF PollTimerFires, subVars
<1>3. CASE DeadlineFires(t)
  <2>1. inbox' \in [Tx -> Seq(Letter)]
    BY <1>3, MailType DEF DeadlineFires, PostTx, NoAddr
  <2> QED
    BY <1>3, <2>1 DEF DeadlineFires, subVars
<1> QED
  BY <1>1, <1>2, <1>3 DEF Macrotask

LEMMA StepTyped == Typed /\ [Next]_vars => Typed'
<1> SUFFICES ASSUME Typed, [Next]_vars PROVE Typed'
  OBVIOUS
<1>1. CASE Environment
  BY <1>1, ConstantsAssumption
  DEF Environment, LedgerAdvances, txVars, subVars, Typed, TypeOK, Opened, Level
<1>2. CASE UNCHANGED vars
  BY <1>2 DEF vars, txVars, subVars, Typed, TypeOK, Opened
<1> QED
  BY <1>1, <1>2, ProgramTyped, TxTyped, SubTyped, MacroTyped DEF Next

\* The variables of the transaction actors and of the subscribers keep their
\* types: no letter, status or address is ever of another kind.
THEOREM TypeCorrect == Spec => []TypeOK
<1>1. Typed => TypeOK
  BY DEF Typed
<1> QED
  BY <1>1, InitTyped, StepTyped, PTL DEF Spec

-----------------------------------------------------------------------------
(* Addresses.                                                               *)

LEMMA StepUnique ==
  ASSUME Typed, UniqueAddresses, [Next]_vars
  PROVE  UniqueAddresses'
<1> USE DEF Typed, TypeOK, UniqueAddresses, Registered
<1>1. ASSUME NEW c \in Sub, NEW t \in Tx, Subscribe(c, t) PROVE UniqueAddresses'
  <2>1. PICK a \in 0 .. MaxAddr : a \notin Used /\ self' = [self EXCEPT ![c] = a]
    BY <1>1 DEF Subscribe, parseAddr
  <2>2. stage' = [stage EXCEPT ![c] = "spawned"]
    BY <1>1 DEF Subscribe
  <2>3. \A d \in Sub : Registered(d) => self[d] # a
    BY <2>1 DEF Used
  <2> QED
    BY <2>1, <2>2, <2>3
<1>2. ASSUME UNCHANGED self,
             \A d \in Sub : Registered(d)' => Registered(d)
      PROVE  UniqueAddresses'
  BY <1>2
<1>3. ASSUME NEW c \in Sub, Unsubscribe(c) PROVE UniqueAddresses'
  BY <1>2, <1>3 DEF Unsubscribe
<1>4. ASSUME NEW t \in Tx, Snapshot(t) PROVE UniqueAddresses'
  BY <1>2, <1>4 DEF Snapshot, subVars
<1>5. CASE Environment
  BY <1>2, <1>5 DEF Environment, LedgerAdvances, subVars
<1>6. ASSUME NEW t \in Tx, TxMicrotask(t) PROVE UniqueAddresses'
  BY <1>2, <1>6 DEF TxMicrotask, TxStart, TxSubscribe, TxUnsubscribe, TxSnapshot, TxTimeout,
     TxPoll, PollNotFound, PollFails, PollFinds, TxReceives, TxContinuesPoll, subVars
<1>7. ASSUME NEW t \in Tx, Macrotask(t) PROVE UniqueAddresses'
  BY <1>2, <1>7 DEF Macrotask, AccessNodeAnswers, PollTimerFires, DeadlineFires, subVars
<1>8. ASSUME NEW c \in Sub, SubMicrotask(c) PROVE UniqueAddresses'
  <2>1. CASE SubStart(c)
    BY <1>2, <2>1 DEF SubStart
  <2>2. CASE SubKill(c)
    BY <1>2, <2>2 DEF SubKill
  <2>3. ASSUME SubReceives(c), UNCHANGED stage \/ SubEnds(c) \/ SubCrashes(c)
        PROVE  UniqueAddresses'
    BY <1>2, <2>3 DEF SubReceives, SubEnds, SubCrashes
  <2>4. CASE SubExits(c)
    BY <2>3, <2>4 DEF SubExits
  <2>5. CASE SubFails(c)
    BY <2>3, <2>5 DEF SubFails
  <2>6. CASE SubCallsPlain(c)
    BY <2>3, <2>6 DEF SubCallsPlain, SubCalls
  <2>7. CASE SubCallsOnce(c)
    BY <2>3, <2>7 DEF SubCallsOnce, SubCalls, SettlesAndUnsubscribes
  <2> QED
    BY <1>8, <2>1, <2>2, <2>4, <2>5, <2>6, <2>7 DEF SubMicrotask
<1>9. CASE UNCHANGED vars
  BY <1>2, <1>9 DEF vars, subVars
<1> QED
  BY <1>1, <1>3, <1>4, <1>5, <1>6, <1>7, <1>8, <1>9 DEF Next, Program

\* parseAddr never gives out an address that is registered, although it gives
\* out the addresses of the killed again.
THEOREM AddressesAreUnique == Spec => []UniqueAddresses
<1>1. Init => UniqueAddresses
  BY DEF Init, UniqueAddresses, Registered
<1> QED
  BY <1>1, InitTyped, StepTyped, StepUnique, PTL DEF Spec

-----------------------------------------------------------------------------
(* The polling loop.                                                        *)

AtMostOne(S) == \A i, j \in S : i = j

LEMMA PollsAfterAppend ==
  ASSUME NEW q \in Seq(Letter), NEW l \in Letter
  PROVE  PollsIn(Append(q, l)) = PollsIn(q) \cup (IF l.tag = "POLL" THEN {Len(q) + 1} ELSE {})
  BY DEF PollsIn

LEMMA PollsAfterTail ==
  ASSUME NEW q \in Seq(Letter), q # << >>, AtMostOne(PollsIn(q))
  PROVE  /\ AtMostOne(PollsIn(rest(q)))
         /\ receive(q).tag # "POLL" => (PollsIn(rest(q)) = {} <=> PollsIn(q) = {})
         /\ receive(q).tag = "POLL" => PollsIn(q) # {} /\ PollsIn(rest(q)) = {}
<1> DEFINE r == Tail(q)
<1>1. /\ Len(q) \in Nat \ {0} /\ Len(r) = Len(q) - 1
      /\ \A i \in 1 .. Len(r) : r[i] = q[i + 1]
      /\ Head(q) = q[1]
  OBVIOUS
<1>2. \A i \in PollsIn(r) : i \in Nat /\ i + 1 \in PollsIn(q)
  BY <1>1 DEF PollsIn
<1>3. \A i \in PollsIn(q) : i # 1 => i - 1 \in PollsIn(r)
  BY <1>1 DEF PollsIn
<1>4. 1 \in PollsIn(q) <=> Head(q).tag = "POLL"
  BY <1>1 DEF PollsIn
<1>5. AtMostOne(PollsIn(r))
  <2> SUFFICES ASSUME NEW i \in PollsIn(r), NEW j \in PollsIn(r) PROVE i = j
    BY DEF AtMostOne
  <2>1. i + 1 = j + 1
    BY <1>2 DEF AtMostOne
  <2> QED
    BY <1>2, <2>1
<1>6. ASSUME Head(q).tag = "POLL" PROVE PollsIn(r) = {}
  <2> SUFFICES ASSUME NEW i \in PollsIn(r) PROVE FALSE
    OBVIOUS
  <2>1. i + 1 = 1 /\ i \in 1 .. Len(r)
    BY <1>2, <1>4, <1>6 DEF AtMostOne, PollsIn
  <2> QED
    BY <1>1, <2>1
<1> QED
  BY <1>2, <1>3, <1>4, <1>5, <1>6 DEF receive, rest

\* The strengthening of OnePollLoop: before the actor runs nothing polls, and
\* while a poll is under way the loop has not stopped.
LoopOf(t) ==
  /\ AtMostOne(PollLetters(t))
  /\ PollLetters(t) # {} => ~ pollTimer[t] /\ fetch[t] = "none"
  /\ pollTimer[t] => fetch[t] = "none"
  /\ actor[t] = "running" /\ fetch[t] = "none" => (Polling(t) <=> ~ PollingStopped(t))
  /\ actor[t] # "running" => ~ Polling(t) /\ ~ PollingStopped(t)
  /\ fetch[t] # "none" => ~ isSealed(kvs[t])
  /\ fetch[t] = "pending" => answer[t] # Error

Loops == \A t \in Tx : LoopOf(t)

LEMMA InitLoops == Init => Loops
  BY DEF Init, Loops, LoopOf, AtMostOne, PollLetters, PollsIn, Polling, PollingStopped,
     isSealed, Empty, NotFound, Error

\* A step that changes no POLL and nothing else of the loop keeps it.
LEMMA LoopFrame ==
  ASSUME NEW t \in Tx, LoopOf(t),
         AtMostOne(PollLetters(t))',
         (PollLetters(t) = {})' <=> PollLetters(t) = {},
         pollTimer'[t] = pollTimer[t], fetch'[t] = fetch[t], kvs'[t] = kvs[t],
         answer'[t] = answer[t],
         actor'[t] = actor[t] \/ (actor'[t] # "running" /\ actor[t] # "running")
  PROVE  LoopOf(t)'
  BY DEF LoopOf, Polling, PollingStopped

LEMMA LoopUnmoved ==
  ASSUME NEW t \in Tx, LoopOf(t), PollLetters(t)' = PollLetters(t),
         pollTimer'[t] = pollTimer[t], fetch'[t] = fetch[t], kvs'[t] = kvs[t],
         answer'[t] = answer[t],
         actor'[t] = actor[t] \/ (actor'[t] # "running" /\ actor[t] # "running")
  PROVE  LoopOf(t)'
  BY DEF LoopOf, Polling, PollingStopped

LEMMA LoopUntouched ==
  ASSUME NEW t \in Tx, LoopOf(t), inbox'[t] = inbox[t], actor'[t] = actor[t],
         pollTimer'[t] = pollTimer[t], fetch'[t] = fetch[t], kvs'[t] = kvs[t],
         answer'[t] = answer[t]
  PROVE  LoopOf(t)'
  BY LoopUnmoved DEF PollLetters

LEMMA PollMail == Mail("POLL", NoAddr) \in Letter /\ Mail("POLL", NoAddr).tag = "POLL"
  BY DEF Mail, Letter, NoAddr

\* Letters other than POLL come and go without a change of the POLLs.
LEMMA NoPollPosted ==
  ASSUME Typed, Loops, NEW t \in Tx, NEW u \in Tx,
         NEW tag \in {"TIMEOUT", "SUBSCRIBE", "UNSUBSCRIBE", "SNAPSHOT"},
         NEW a \in Int, PostTx(u, Mail(tag, a))
  PROVE  PollLetters(t)' = PollLetters(t)
<1>1. Mail(tag, a) \in Letter /\ Mail(tag, a).tag # "POLL"
  BY MailType DEF Mail
<1>2. inbox[u] \in Seq(Letter) /\ inbox'[t] = IF t = u THEN Append(inbox[u], Mail(tag, a)) ELSE inbox[t]
  BY DEF PostTx, Typed, TypeOK
<1>3. PollsIn(Append(inbox[u], Mail(tag, a))) = PollsIn(inbox[u])
  BY <1>1, <1>2, PollsAfterAppend
<1> QED
  BY <1>2, <1>3 DEF PollLetters

LEMMA NoPollTaken ==
  ASSUME Typed, Loops, NEW t \in Tx, NEW u \in Tx,
         NEW tag, tag # "POLL", TxReceives(u, tag)
  PROVE  AtMostOne(PollLetters(t))' /\ ((PollLetters(t) = {})' <=> PollLetters(t) = {})
<1>1. inbox[u] \in Seq(Letter) /\ inbox[u] # << >> /\ receive(inbox[u]).tag # "POLL"
  BY DEF TxReceives, Typed, TypeOK
<1>2. inbox'[t] = IF t = u THEN rest(inbox[u]) ELSE inbox[t]
  BY DEF TxReceives, Typed, TypeOK
<1>3. AtMostOne(PollsIn(inbox[u])) /\ AtMostOne(PollsIn(inbox[t]))
  BY DEF Loops, LoopOf, PollLetters
<1> QED
  BY <1>1, <1>2, <1>3, PollsAfterTail DEF PollLetters

LEMMA TxLoops == ASSUME Typed, Loops, NEW u \in Tx, TxMicrotask(u) PROVE Loops'
<1> SUFFICES ASSUME NEW t \in Tx PROVE LoopOf(t)'
  BY DEF Loops
<1> USE DEF Typed, TypeOK
<1>0. LoopOf(t) /\ LoopOf(u)
  BY DEF Loops
<1>1. CASE TxStart(u)
  <2>1. CASE t = u
    <3>1. Mail("POLL", NoAddr) \in Letter /\ Mail("POLL", NoAddr).tag = "POLL"
      BY PollMail
    <3>2. PollLetters(t)' = PollLetters(t) \cup {Len(inbox[t]) + 1}
      BY <1>1, <2>1, <3>1, PollsAfterAppend DEF TxStart, PostTx, PollLetters
    <3>3. PollLetters(t) = {} /\ ~ pollTimer[t] /\ fetch[t] = "none"
      BY <1>0, <1>1, <2>1 DEF TxStart, LoopOf, Polling
    <3> QED
      BY <1>0, <1>1, <2>1, <3>2, <3>3 DEF TxStart, LoopOf, Polling, PollingStopped, AtMostOne
  <2>2. CASE t # u
    BY <1>0, <1>1, <2>2, LoopUntouched DEF TxStart, PostTx
  <2> QED
    BY <2>1, <2>2
<1>2. ASSUME NEW tag, tag # "POLL", TxReceives(u, tag), UNCHANGED fetch PROVE LoopOf(t)'
  <2>1. AtMostOne(PollLetters(t))' /\ ((PollLetters(t) = {})' <=> PollLetters(t) = {})
    BY <1>2, NoPollTaken
  <2> QED
    BY <1>0, <1>2, <2>1, LoopFrame DEF TxReceives
<1>3. CASE TxPoll(u)
  <2>1. /\ inbox[u] \in Seq(Letter) /\ inbox[u] # << >> /\ receive(inbox[u]).tag = "POLL"
        /\ inbox'[u] = rest(inbox[u]) /\ fetch'[u] = "pending"
        /\ UNCHANGED <<pollTimer, kvs, answer, actor>>
        /\ actor[u] = "running" /\ fetch[u] = "none"
        /\ t # u => inbox'[t] = inbox[t] /\ fetch'[t] = fetch[t]
    BY <1>3 DEF TxPoll, TxReceives
  <2>2. CASE t = u
    <3>1. PollLetters(t) # {} /\ PollLetters(t)' = {}
      BY <1>0, <2>1, <2>2, PollsAfterTail DEF PollLetters, LoopOf
    <3>2. ~ PollingStopped(t) /\ ~ pollTimer[t]
      BY <1>0, <2>1, <2>2, <3>1 DEF LoopOf, Polling
    <3> QED
      BY <2>1, <2>2, <3>1, <3>2 DEF LoopOf, AtMostOne, PollingStopped
  <2>3. CASE t # u
    BY <1>0, <2>1, <2>3, LoopUntouched
  <2> QED
    BY <2>2, <2>3
<1>4. ASSUME TxContinuesPoll(u) PROVE PollLetters(u) = {} /\ ~ pollTimer[u] /\ actor[u] = "running"
  BY <1>0, <1>4 DEF TxContinuesPoll, LoopOf, Polling
<1>5. ASSUME t # u, TxContinuesPoll(u), kvs'[t] = kvs[t], pollTimer'[t] = pollTimer[t]
      PROVE  LoopOf(t)'
  BY <1>0, <1>5, LoopUntouched DEF TxContinuesPoll
<1>6. CASE PollNotFound(u)
  <2>1. CASE t = u
    BY <1>0, <1>4, <1>6, <2>1
    DEF PollNotFound, TxContinuesPoll, LoopOf, PollLetters, Polling, PollingStopped, NotFound, Error
  <2> QED
    BY <1>5, <1>6, <2>1 DEF PollNotFound
<1>7. CASE PollFails(u)
  <2>1. CASE t = u
    BY <1>0, <1>4, <1>7, <2>1
    DEF PollFails, TxContinuesPoll, LoopOf, PollLetters, Polling, PollingStopped
  <2> QED
    BY <1>5, <1>7, <2>1 DEF PollFails
<1>8. CASE PollFinds(u)
  <2>1. CASE t = u
    <3>1. answer[u] # Error /\ ~ pollTimer[u] /\ PollLetters(u) = {}
      BY <1>4, <1>8 DEF PollFinds, Level, Error
    <3>2. /\ kvs'[u] = answer[u] /\ answer' = answer /\ inbox' = inbox /\ actor' = actor
          /\ fetch'[u] = "none" /\ pollTimer'[u] = ~ isSealed(answer[u])
      BY <1>8, <3>1 DEF PollFinds, TxContinuesPoll
    <3> QED
      BY <1>0, <1>4, <1>8, <2>1, <3>1, <3>2
      DEF PollFinds, LoopOf, PollLetters, Polling, PollingStopped
  <2> QED
    BY <1>5, <1>8, <2>1 DEF PollFinds
<1> QED
  BY <1>1, <1>2, <1>3, <1>6, <1>7, <1>8
  DEF TxMicrotask, TxSubscribe, TxUnsubscribe, TxSnapshot, TxTimeout

LEMMA MacroLoops == ASSUME Typed, Loops, NEW u \in Tx, Macrotask(u) PROVE Loops'
<1> SUFFICES ASSUME NEW t \in Tx PROVE LoopOf(t)'
  BY DEF Loops
<1> USE DEF Typed, TypeOK
<1>0. LoopOf(t) /\ LoopOf(u)
  BY DEF Loops
<1>1. CASE AccessNodeAnswers(u)
  <2>1. CASE t = u
    BY <1>0, <1>1, <2>1 DEF AccessNodeAnswers, LoopOf, PollLetters, Polling, PollingStopped
  <2>2. CASE t # u
    BY <1>0, <1>1, <2>2, LoopUntouched DEF AccessNodeAnswers
  <2> QED
    BY <2>1, <2>2
<1>2. CASE PollTimerFires(u)
  <2>1. CASE t = u
    <3>1. Mail("POLL", NoAddr) \in Letter /\ Mail("POLL", NoAddr).tag = "POLL"
      BY PollMail
    <3>2. PollLetters(t)' = PollLetters(t) \cup {Len(inbox[t]) + 1}
      BY <1>2, <2>1, <3>1, PollsAfterAppend DEF PollTimerFires, PostTx, PollLetters
    <3>3. PollLetters(t) = {} /\ pollTimer[t] /\ fetch[t] = "none"
      BY <1>0, <1>2, <2>1 DEF PollTimerFires, LoopOf
    <3> QED
      BY <1>0, <1>2, <2>1, <3>2, <3>3 DEF PollTimerFires, LoopOf, Polling, PollingStopped, AtMostOne
  <2>2. CASE t # u
    BY <1>0, <1>2, <2>2, LoopUntouched DEF PollTimerFires, PostTx
  <2> QED
    BY <2>1, <2>2
<1>3. CASE DeadlineFires(u)
  <2>1. PollLetters(t)' = PollLetters(t)
    BY <1>3, NoPollPosted DEF DeadlineFires, NoAddr
  <2> QED
    BY <1>0, <1>3, <2>1, LoopUnmoved DEF DeadlineFires
<1> QED
  BY <1>1, <1>2, <1>3 DEF Macrotask

\* The program and the subscribers post no POLL and touch nothing of the loop.
LEMMA OtherLoops ==
  ASSUME Typed, Loops,
         Program \/ Environment \/ (\E c \in Sub : SubMicrotask(c)) \/ UNCHANGED vars
  PROVE  Loops'
<1> SUFFICES ASSUME NEW t \in Tx PROVE LoopOf(t)'
  BY DEF Loops
<1> USE DEF Typed, TypeOK
<1>0. LoopOf(t)
  BY DEF Loops
<1>1. ASSUME UNCHANGED inbox \/ \E u \in Tx, a \in Int, tag \in {"SUBSCRIBE", "UNSUBSCRIBE", "SNAPSHOT"} :
                                  PostTx(u, Mail(tag, a)),
             UNCHANGED <<kvs, fetch, answer, pollTimer>>,
             UNCHANGED actor \/ \E u \in Tx : SpawnTx(u)
      PROVE  LoopOf(t)'
  <2>1. PollLetters(t)' = PollLetters(t)
    <3>1. CASE UNCHANGED inbox
      BY <3>1 DEF PollLetters
    <3>2. ASSUME NEW u \in Tx, NEW a \in Int, NEW tag \in {"SUBSCRIBE", "UNSUBSCRIBE", "SNAPSHOT"},
                 PostTx(u, Mail(tag, a))
          PROVE  PollLetters(t)' = PollLetters(t)
      BY <3>2, NoPollPosted
    <3> QED
      BY <1>1, <3>1, <3>2
  <2>2. actor'[t] = actor[t] \/ (actor'[t] # "running" /\ actor[t] # "running")
    <3>1. ASSUME NEW u \in Tx, SpawnTx(u)
          PROVE  actor'[t] = actor[t] \/ (actor'[t] = "spawned" /\ actor[t] = "absent")
      BY <3>1 DEF SpawnTx
    <3> QED
      BY <1>1, <3>1
  <2> QED
    BY <1>0, <1>1, <2>1, <2>2, LoopUnmoved
<1>2. ASSUME NEW c \in Sub, NEW u \in Tx, Subscribe(c, u) PROVE LoopOf(t)'
  BY <1>1, <1>2 DEF Subscribe
<1>3. ASSUME NEW c \in Sub, Unsubscribe(c) PROVE LoopOf(t)'
  BY <1>1, <1>3 DEF Unsubscribe, txVars
<1>4. ASSUME NEW u \in Tx, Snapshot(u) PROVE LoopOf(t)'
  BY <1>1, <1>4 DEF Snapshot, NoAddr
<1>5. CASE Environment
  BY <1>1, <1>5 DEF Environment, LedgerAdvances, txVars
<1>6. ASSUME NEW c \in Sub, SubMicrotask(c) PROVE LoopOf(t)'
  <2>1. ASSUME SubReceives(c), UNCHANGED inbox \/ SubEnds(c) PROVE LoopOf(t)'
    <3>1. target[c] \in Tx /\ self[c] \in Int
      BY <2>1 DEF SubReceives, Opened
    <3> QED
      BY <1>1, <2>1, <3>1 DEF SubReceives, SubEnds
  <2>2. CASE SubStart(c)
    <3>1. target[c] \in Tx /\ self[c] \in Int
      BY <2>2 DEF SubStart, Opened
    <3> QED
      BY <1>1, <2>2, <3>1 DEF SubStart
  <2>3. CASE SubKill(c)
    BY <1>1, <2>3 DEF SubKill, txVars
  <2>4. CASE SubExits(c)
    BY <2>1, <2>4 DEF SubExits
  <2>5. CASE SubFails(c)
    BY <2>1, <2>5 DEF SubFails, SubCrashes
  <2>6. CASE SubCallsPlain(c)
    BY <2>1, <2>6 DEF SubCallsPlain, SubCalls, SubCrashes
  <2>7. CASE SubCallsOnce(c)
    BY <2>1, <2>7 DEF SubCallsOnce, SubCalls, SettlesAndUnsubscribes, SubCrashes
  <2> QED
    BY <1>6, <2>2, <2>3, <2>4, <2>5, <2>6, <2>7 DEF SubMicrotask
<1>7. CASE UNCHANGED vars
  BY <1>1, <1>7 DEF vars, txVars
<1> QED
  BY <1>2, <1>3, <1>4, <1>5, <1>6, <1>7 DEF Program

\* A transaction has one polling loop, and keeps it until its status is sealed
\* or a poll fails (transaction/index.js, INIT, TIMEOUT and POLL).
THEOREM PollsInOneLoop == Spec => []OnePollLoop
<1>1. Typed /\ Loops /\ [Next]_vars => Loops'
  BY TxLoops, MacroLoops, OtherLoops DEF Next
<1>2. Loops => OnePollLoop
  BY DEF Loops, LoopOf, OnePollLoop, AtMostOne
<1> QED
  BY <1>1, <1>2, InitTyped, InitLoops, StepTyped, PTL DEF Spec

-----------------------------------------------------------------------------
(* The subscribed addresses.                                                *)

\* An UNSUBSCRIBE from `a` comes after position i of the mailbox.
UnsubscribesAfter(queue, i, a) ==
  \E j \in i + 1 .. Len(queue) : queue[j] = Mail("UNSUBSCRIBE", a)

\* The strengthening of SubsAccounted: also an address that will be subscribed
\* by a letter still in the mailbox has a subscriber, or is removed behind it.
AccountedIn(queue, subscribed, live) ==
  /\ \A a \in subscribed : a \in live \/ UnsubscribesAfter(queue, 0, a)
  /\ \A i \in 1 .. Len(queue) : queue[i].tag = "SUBSCRIBE" =>
       queue[i].from \in live \/ UnsubscribesAfter(queue, i, queue[i].from)

\* The addresses of the subscribers of t.
Live(t) == {a \in Int : HasSubscriber(t, a)}

AllAccounted == \A t \in Tx : AccountedIn(inbox[t], subs[t], Live(t))

\* A letter posted behind the others keeps what the others say; an UNSUBSCRIBE
\* is behind all of them.
LEMMA AppendAfter ==
  ASSUME NEW q \in Seq(Letter), NEW l \in Letter, NEW a, NEW i \in Nat
  PROVE  /\ Len(Append(q, l)) = Len(q) + 1
         /\ UnsubscribesAfter(q, i, a) => UnsubscribesAfter(Append(q, l), i, a)
         /\ l = Mail("UNSUBSCRIBE", a) /\ i <= Len(q) => UnsubscribesAfter(Append(q, l), i, a)
         /\ \A k \in 1 .. Len(q) : Append(q, l)[k] = q[k]
         /\ Append(q, l)[Len(q) + 1] = l
<1>1. /\ Len(q) \in Nat /\ Len(Append(q, l)) = Len(q) + 1
      /\ \A k \in 1 .. Len(q) : Append(q, l)[k] = q[k]
      /\ Append(q, l)[Len(q) + 1] = l
  OBVIOUS
<1>2. ASSUME UnsubscribesAfter(q, i, a) PROVE UnsubscribesAfter(Append(q, l), i, a)
  <2>1. PICK j \in i + 1 .. Len(q) : q[j] = Mail("UNSUBSCRIBE", a)
    BY <1>2 DEF UnsubscribesAfter
  <2>2. j \in i + 1 .. Len(Append(q, l)) /\ Append(q, l)[j] = Mail("UNSUBSCRIBE", a)
    BY <1>1, <2>1
  <2> QED
    BY <2>2 DEF UnsubscribesAfter
<1>3. ASSUME l = Mail("UNSUBSCRIBE", a), i <= Len(q) PROVE UnsubscribesAfter(Append(q, l), i, a)
  <2>1. Len(q) + 1 \in i + 1 .. Len(Append(q, l))
    BY <1>1, <1>3
  <2> QED
    BY <1>1, <1>3, <2>1 DEF UnsubscribesAfter
<1> QED
  BY <1>1, <1>2, <1>3

\* Taking the first letter leaves the others in their order.
LEMMA TailAfter ==
  ASSUME NEW q \in Seq(Letter), q # << >>, NEW a, NEW i \in Nat
  PROVE  /\ Len(rest(q)) = Len(q) - 1
         /\ \A k \in 1 .. Len(rest(q)) : rest(q)[k] = q[k + 1]
         /\ UnsubscribesAfter(q, i + 1, a) => UnsubscribesAfter(rest(q), i, a)
         /\ receive(q) # Mail("UNSUBSCRIBE", a) /\ UnsubscribesAfter(q, 0, a)
              => UnsubscribesAfter(rest(q), 0, a)
<1>1. /\ Len(q) \in Nat \ {0} /\ Len(rest(q)) = Len(q) - 1 /\ receive(q) = q[1]
      /\ \A k \in 1 .. Len(rest(q)) : rest(q)[k] = q[k + 1]
  BY DEF rest, receive
<1>2. ASSUME NEW n \in Nat, UnsubscribesAfter(q, n + 1, a) PROVE UnsubscribesAfter(rest(q), n, a)
  <2>1. PICK j \in n + 2 .. Len(q) : q[j] = Mail("UNSUBSCRIBE", a)
    BY <1>2 DEF UnsubscribesAfter
  <2>2. j - 1 \in n + 1 .. Len(rest(q)) /\ rest(q)[j - 1] = q[j]
    BY <1>1, <2>1
  <2> QED
    BY <2>1, <2>2 DEF UnsubscribesAfter
<1>3. ASSUME receive(q) # Mail("UNSUBSCRIBE", a), UnsubscribesAfter(q, 0, a)
      PROVE  UnsubscribesAfter(rest(q), 0, a)
  <2>1. PICK j \in 1 .. Len(q) : q[j] = Mail("UNSUBSCRIBE", a)
    BY <1>3 DEF UnsubscribesAfter
  <2>2. j \in 2 .. Len(q)
    BY <1>1, <1>3, <2>1
  <2>3. UnsubscribesAfter(q, 1, a)
    BY <2>1, <2>2 DEF UnsubscribesAfter
  <2> QED
    BY <1>2, <2>3
<1> QED
  BY <1>1, <1>2, <1>3

\* No subscriber leaves.
LEMMA LiveAccounted ==
  ASSUME NEW q, NEW S, NEW live, NEW after, AccountedIn(q, S, live), live \subseteq after
  PROVE  AccountedIn(q, S, after)
  BY DEF AccountedIn

\* A letter is posted: an UNSUBSCRIBE if its sender leaves, and a SUBSCRIBE only
\* if its sender is there.
LEMMA PostAccounted ==
  ASSUME NEW q \in Seq(Letter), NEW S, NEW live, NEW after, NEW l \in Letter,
         AccountedIn(q, S, live),
         \A a \in live : a \in after \/ l = Mail("UNSUBSCRIBE", a),
         l.tag = "SUBSCRIBE" => l.from \in after
  PROVE  AccountedIn(Append(q, l), S, after)
<1>0. Len(q) \in Nat
  OBVIOUS
<1>1. ASSUME NEW a \in S PROVE a \in after \/ UnsubscribesAfter(Append(q, l), 0, a)
  <2>1. /\ UnsubscribesAfter(q, 0, a) => UnsubscribesAfter(Append(q, l), 0, a)
        /\ l = Mail("UNSUBSCRIBE", a) => UnsubscribesAfter(Append(q, l), 0, a)
    BY <1>0, AppendAfter
  <2> QED
    BY <2>1 DEF AccountedIn
<1>2. ASSUME NEW i \in 1 .. Len(Append(q, l)), NEW x, x = Append(q, l)[i], x.tag = "SUBSCRIBE"
      PROVE  x.from \in after \/ UnsubscribesAfter(Append(q, l), i, x.from)
  <2>1. CASE i = Len(q) + 1
    BY <1>2, <2>1
  <2>2. CASE i # Len(q) + 1
    <3>1. i \in 1 .. Len(q) /\ i \in Nat /\ x = q[i]
      BY <1>0, <1>2, <2>2
    <3>2. /\ UnsubscribesAfter(q, i, x.from) => UnsubscribesAfter(Append(q, l), i, x.from)
          /\ l = Mail("UNSUBSCRIBE", x.from) => UnsubscribesAfter(Append(q, l), i, x.from)
      BY <1>0, <3>1, AppendAfter
    <3> QED
      BY <1>2, <3>1, <3>2 DEF AccountedIn
  <2> QED
    BY <2>1, <2>2
<1> QED
  BY <1>1, <1>2 DEF AccountedIn

\* The first letter is taken: a SUBSCRIBE adds its sender, an UNSUBSCRIBE
\* removes it.
LEMMA TakeAccounted ==
  ASSUME NEW q \in Seq(Letter), q # << >>, NEW S, NEW T, NEW live,
         AccountedIn(q, S, live),
         \A a \in T : a \in S \/ (receive(q).tag = "SUBSCRIBE" /\ a = receive(q).from),
         \A a \in T : receive(q) # Mail("UNSUBSCRIBE", a)
  PROVE  AccountedIn(rest(q), T, live)
<1>0. /\ Len(q) \in Nat \ {0} /\ Len(rest(q)) = Len(q) - 1 /\ receive(q) = q[1]
      /\ \A k \in 1 .. Len(rest(q)) : rest(q)[k] = q[k + 1]
  BY DEF rest, receive
<1>1. ASSUME NEW i \in 1 .. Len(q), NEW x, x = q[i], x.tag = "SUBSCRIBE"
      PROVE  x.from \in live \/ UnsubscribesAfter(rest(q), i - 1, x.from)
  <2>1. i - 1 \in Nat /\ (i - 1) + 1 = i
    BY <1>0
  <2>2. UnsubscribesAfter(q, (i - 1) + 1, x.from) => UnsubscribesAfter(rest(q), i - 1, x.from)
    BY <2>1, TailAfter
  <2> QED
    BY <1>1, <2>1, <2>2 DEF AccountedIn
<1>2. ASSUME NEW a \in T PROVE a \in live \/ UnsubscribesAfter(rest(q), 0, a)
  <2>1. CASE receive(q).tag = "SUBSCRIBE" /\ a = receive(q).from
    <3>1. 1 \in 1 .. Len(q) /\ q[1].tag = "SUBSCRIBE" /\ a = q[1].from /\ 1 - 1 = 0
      BY <1>0, <2>1
    <3> QED
      BY <1>1, <3>1
  <2>2. CASE a \in S
    <3>1. receive(q) # Mail("UNSUBSCRIBE", a)
      OBVIOUS
    <3>2. UnsubscribesAfter(q, 0, a) => UnsubscribesAfter(rest(q), 0, a)
      BY <3>1, TailAfter
    <3> QED
      BY <2>2, <3>2 DEF AccountedIn
  <2> QED
    BY <2>1, <2>2
<1>3. ASSUME NEW i \in 1 .. Len(rest(q)), NEW x, x = rest(q)[i], x.tag = "SUBSCRIBE"
      PROVE  x.from \in live \/ UnsubscribesAfter(rest(q), i, x.from)
  <2>1. i + 1 \in 1 .. Len(q) /\ (i + 1) - 1 = i /\ x = q[i + 1]
    BY <1>0, <1>3
  <2> QED
    BY <1>1, <1>3, <2>1
<1> QED
  BY <1>2, <1>3 DEF AccountedIn

\* Whoever waits or has crashed goes on doing so.
SubscribersStay ==
  \A c \in Sub : stage[c] \in {"waiting", "crashed"} =>
    stage'[c] \in {"waiting", "crashed"} /\ self'[c] = self[c] /\ target'[c] = target[c]

LEMMA LiveKept ==
  ASSUME NEW t \in Tx, SubscribersStay
  PROVE  Live(t) \subseteq Live(t)'
  BY DEF Live, HasSubscriber, Holders, Registered, SubscribersStay

\* At most a letter other than a SUBSCRIBE is posted to one transaction.
LEMMA PostKeeps ==
  ASSUME Typed, AllAccounted, SubscribersStay, UNCHANGED subs,
         NEW u \in Tx, NEW l \in Letter, l.tag # "SUBSCRIBE",
         UNCHANGED inbox \/ PostTx(u, l)
  PROVE  AllAccounted'
<1> SUFFICES ASSUME NEW t \in Tx PROVE AccountedIn(inbox'[t], subs[t], Live(t)')
  BY DEF AllAccounted
<1>1. inbox[t] \in Seq(Letter)
  BY DEF Typed, TypeOK
<1>2. inbox'[t] = inbox[t] \/ inbox'[t] = Append(inbox[t], l)
  BY DEF PostTx, Typed, TypeOK
<1>3. AccountedIn(inbox[t], subs[t], Live(t)) /\ Live(t) \subseteq Live(t)'
  BY LiveKept DEF AllAccounted
<1>4. AccountedIn(inbox[t], subs[t], Live(t)')
  BY <1>3, LiveAccounted
<1>5. AccountedIn(Append(inbox[t], l), subs[t], Live(t)')
  BY <1>1, <1>3, PostAccounted
<1> QED
  BY <1>2, <1>4, <1>5

LEMMA NothingPosted ==
  ASSUME Typed, AllAccounted, SubscribersStay, UNCHANGED <<inbox, subs>>
  PROVE  AllAccounted'
  BY LiveKept, LiveAccounted DEF AllAccounted

\* The actor takes a letter: only SUBSCRIBE and UNSUBSCRIBE change `subs`.
LEMMA TxAccounted ==
  ASSUME Typed, AllAccounted, NEW u \in Tx, TxMicrotask(u)
  PROVE  AllAccounted'
<1>1. UNCHANGED <<stage, self, target>>
  BY DEF TxMicrotask, TxStart, TxSubscribe, TxUnsubscribe, TxSnapshot, TxTimeout,
     TxPoll, PollNotFound, PollFails, PollFinds, TxReceives, TxContinuesPoll, subVars
<1>2. SubscribersStay
  BY <1>1 DEF SubscribersStay
<1>3. CASE TxStart(u)
  BY <1>2, <1>3, PollMail, PostKeeps DEF TxStart
<1>4. CASE PollNotFound(u) \/ PollFails(u) \/ PollFinds(u)
  BY <1>2, <1>4, NothingPosted DEF PollNotFound, PollFails, PollFinds, TxContinuesPoll
<1>5. ASSUME NEW tag, TxReceives(u, tag),
             \/ tag \notin {"SUBSCRIBE", "UNSUBSCRIBE"} /\ subs' = subs
             \/ TxSubscribe(u)
             \/ TxUnsubscribe(u)
      PROVE  AllAccounted'
  <2> DEFINE q == inbox[u]
             l == receive(q)
  <2>1. q \in Seq(Letter) /\ q # << >> /\ inbox'[u] = rest(q) /\ l.tag = tag
    BY <1>5 DEF TxReceives, Typed, TypeOK
  <2>2. \A a \in subs'[u] : a \in subs[u] \/ (l.tag = "SUBSCRIBE" /\ a = l.from)
    BY <1>5, <2>1 DEF TxSubscribe, TxUnsubscribe, TxReceives, Typed, TypeOK
  <2>3. \A a \in subs'[u] : l # Mail("UNSUBSCRIBE", a)
    BY <1>5, <2>1 DEF TxSubscribe, TxUnsubscribe, TxReceives, Typed, TypeOK, Mail
  <2>4. AccountedIn(q, subs[u], Live(u)')
    BY <1>2, LiveKept, LiveAccounted DEF AllAccounted
  <2>5. AccountedIn(rest(q), subs'[u], Live(u)')
    BY <2>1, <2>2, <2>3, <2>4, TakeAccounted
  <2>6. ASSUME NEW t \in Tx, t # u
        PROVE  AccountedIn(inbox'[t], subs'[t], Live(t)')
    <3>1. inbox'[t] = inbox[t] /\ subs'[t] = subs[t]
      BY <1>5, <2>6 DEF TxSubscribe, TxUnsubscribe, TxReceives, Typed, TypeOK
    <3> QED
      BY <1>2, <3>1, LiveKept, LiveAccounted DEF AllAccounted
  <2> QED
    BY <2>1, <2>5, <2>6 DEF AllAccounted
<1>6. CASE TxSubscribe(u) \/ TxUnsubscribe(u)
  BY <1>5, <1>6 DEF TxSubscribe, TxUnsubscribe
<1>7. CASE TxSnapshot(u) \/ TxTimeout(u) \/ TxPoll(u)
  BY <1>5, <1>7 DEF TxSnapshot, TxTimeout, TxPoll
<1> QED
  BY <1>3, <1>4, <1>6, <1>7 DEF TxMicrotask

LEMMA OtherMail ==
  /\ Mail("SNAPSHOT", NoAddr) \in Letter /\ Mail("SNAPSHOT", NoAddr).tag # "SUBSCRIBE"
  /\ Mail("TIMEOUT", NoAddr) \in Letter /\ Mail("TIMEOUT", NoAddr).tag # "SUBSCRIBE"
<1>1. NoAddr \in Int
  BY DEF NoAddr
<1> QED
  BY <1>1, MailType DEF Mail

\* The program, the network and the timers only post letters.
LEMMA OutsideAccounted ==
  ASSUME Typed, AllAccounted,
         Program \/ Environment \/ (\E u \in Tx : Macrotask(u)) \/ UNCHANGED vars
  PROVE  AllAccounted'
<1>1. ASSUME NEW c \in Sub, NEW u \in Tx, Subscribe(c, u) PROVE AllAccounted'
  <2>1. PICK a \in 0 .. MaxAddr : self' = [self EXCEPT ![c] = a]
    BY <1>1 DEF Subscribe
  <2>2. SubscribersStay
    BY <1>1, <2>1 DEF Subscribe, SubscribersStay, Typed, TypeOK
  <2> QED
    BY <1>1, <2>2, NothingPosted DEF Subscribe
<1>2. ASSUME UNCHANGED <<stage, self, target>> PROVE SubscribersStay
  BY <1>2 DEF SubscribersStay
<1>3. ASSUME NEW c \in Sub, Unsubscribe(c) PROVE AllAccounted'
  BY <1>2, <1>3, NothingPosted DEF Unsubscribe, txVars
<1>4. ASSUME NEW u \in Tx, Snapshot(u) PROVE AllAccounted'
  BY <1>2, <1>4, PostKeeps, OtherMail DEF Snapshot, subVars
<1>5. CASE Environment
  BY <1>2, <1>5, NothingPosted DEF Environment, LedgerAdvances, txVars, subVars
<1>6. ASSUME NEW u \in Tx, Macrotask(u) PROVE AllAccounted'
  <2>1. CASE AccessNodeAnswers(u)
    BY <1>2, <2>1, NothingPosted DEF AccessNodeAnswers, subVars
  <2>2. CASE PollTimerFires(u)
    BY <1>2, <2>2, PostKeeps, PollMail DEF PollTimerFires, subVars
  <2>3. CASE DeadlineFires(u)
    BY <1>2, <2>3, PostKeeps, OtherMail DEF DeadlineFires, subVars
  <2> QED
    BY <1>6, <2>1, <2>2, <2>3 DEF Macrotask
<1>7. CASE UNCHANGED vars
  BY <1>2, <1>7, NothingPosted DEF vars, txVars, subVars
<1> QED
  BY <1>1, <1>3, <1>4, <1>5, <1>6, <1>7 DEF Program

\* A subscriber that starts is there before its SUBSCRIBE; one that ends posts
\* the UNSUBSCRIBE of its address.
LEMMA SubAccounted ==
  ASSUME Typed, AllAccounted, NEW c \in Sub, SubMicrotask(c)
  PROVE  AllAccounted'
<1>1. ASSUME NEW tag \in {"SUBSCRIBE", "UNSUBSCRIBE"}, NEW after,
             stage[c] # "idle",
             PostTx(target[c], Mail(tag, self[c])),
             UNCHANGED <<subs, self, target>>,
             stage' = [stage EXCEPT ![c] = after],
             tag = "SUBSCRIBE" => stage[c] = "spawned" /\ after = "waiting"
      PROVE  AllAccounted'
  <2> DEFINE l == Mail(tag, self[c])
  <2>1. target[c] \in Tx /\ self[c] \in Int
    BY <1>1 DEF Typed, Opened
  <2>2. l \in Letter /\ l.tag = tag /\ l.from = self[c]
    BY <2>1, MailType DEF Mail
  <2>3. ASSUME NEW t \in Tx, NEW b \in Live(t)
        PROVE  b \in Live(t)' \/ (t = target[c] /\ l = Mail("UNSUBSCRIBE", b))
    BY <1>1, <2>1, <2>3 DEF Live, HasSubscriber, Holders, Registered, Typed, TypeOK
  <2>4. ASSUME NEW t \in Tx, t = target[c], tag = "SUBSCRIBE"
        PROVE  self[c] \in Live(t)'
    BY <1>1, <2>1, <2>4 DEF Live, HasSubscriber, Holders, Registered, Typed, TypeOK
  <2>5. ASSUME NEW t \in Tx, t # target[c]
        PROVE  AccountedIn(inbox'[t], subs'[t], Live(t)')
    <3>1. inbox'[t] = inbox[t] /\ subs'[t] = subs[t] /\ Live(t) \subseteq Live(t)'
      BY <1>1, <2>1, <2>3, <2>5 DEF PostTx, Typed, TypeOK
    <3> QED
      BY <3>1, LiveAccounted DEF AllAccounted
  <2>6. ASSUME NEW t \in Tx, t = target[c]
        PROVE  AccountedIn(inbox'[t], subs'[t], Live(t)')
    <3>1. inbox[t] \in Seq(Letter) /\ inbox'[t] = Append(inbox[t], l) /\ subs'[t] = subs[t]
      BY <1>1, <2>6 DEF PostTx, Typed, TypeOK
    <3>2. /\ AccountedIn(inbox[t], subs[t], Live(t))
          /\ \A b \in Live(t) : b \in Live(t)' \/ l = Mail("UNSUBSCRIBE", b)
          /\ l.tag = "SUBSCRIBE" => l.from \in Live(t)'
      <4>1. AccountedIn(inbox[t], subs[t], Live(t))
        BY DEF AllAccounted
      <4>2. l.tag = "SUBSCRIBE" => l.from \in Live(t)'
        BY <2>2, <2>4, <2>6
      <4> QED
        BY <2>3, <4>1, <4>2
    <3>3. AccountedIn(Append(inbox[t], l), subs[t], Live(t)')
      BY <2>2, <3>1, <3>2, PostAccounted
    <3> QED
      BY <3>1, <3>3
  <2> QED
    BY <2>5, <2>6 DEF AllAccounted
<1>2. CASE SubStart(c)
  BY <1>1, <1>2 DEF SubStart
<1>3. ASSUME SubReceives(c), SubEnds(c) PROVE AllAccounted'
  BY <1>1, <1>3 DEF SubReceives, SubEnds
<1>4. ASSUME SubReceives(c), UNCHANGED <<inbox, stage>> \/ SubCrashes(c) PROVE AllAccounted'
  <2>1. SubscribersStay
    BY <1>4 DEF SubReceives, SubCrashes, SubscribersStay, Typed, TypeOK
  <2> QED
    BY <1>4, <2>1, NothingPosted DEF SubReceives, SubCrashes
<1>5. CASE SubKill(c)
  <2>1. SubscribersStay
    BY <1>5 DEF SubKill, SubscribersStay, Typed, TypeOK
  <2> QED
    BY <1>5, <2>1, NothingPosted DEF SubKill, txVars
<1>6. CASE SubExits(c)
  BY <1>3, <1>6 DEF SubExits
<1>7. CASE SubFails(c)
  BY <1>3, <1>4, <1>7 DEF SubFails
<1>8. CASE SubCallsPlain(c)
  BY <1>4, <1>8 DEF SubCallsPlain, SubCalls
<1>9. CASE SubCallsOnce(c)
  BY <1>4, <1>9 DEF SubCallsOnce, SubCalls, SettlesAndUnsubscribes
<1> QED
  BY <1>2, <1>5, <1>6, <1>7, <1>8, <1>9 DEF SubMicrotask

\* No subscription leaks, in spite of the reuse of addresses: one that a
\* transaction still broadcasts to has its subscriber, or its UNSUBSCRIBE is
\* already in the mailbox (subscriber in util-actor/src/index.ts).
THEOREM NoSubscriptionLeaks == Spec => []SubsAccounted
<1>1. Init => AllAccounted
  BY DEF Init, AllAccounted, AccountedIn
<1>2. Typed /\ AllAccounted /\ [Next]_vars => AllAccounted'
  BY TxAccounted, OutsideAccounted, SubAccounted DEF Next
<1>3. AllAccounted => SubsAccounted
  BY DEF AllAccounted, AccountedIn, Live, SubsAccounted, UnsubscribesAfter
<1> QED
  BY <1>1, <1>2, <1>3, InitTyped, StepTyped, PTL DEF Spec
-----------------------------------------------------------------------------
(* What the subscribers were told.                                          *)

\* Letters from other transactions reach a subscriber when addresses are used
\* again; what it was last told is the status of its own transaction only if
\* there is no other.
OneTx == \E t : Tx = {t}

\* A SUBSCRIBE from `a` is in the mailbox, and no UNSUBSCRIBE behind it.
JoinsIn(queue, a) ==
  \E i \in 1 .. Len(queue) :
    queue[i] = Mail("SUBSCRIBE", a) /\ ~ UnsubscribesAfter(queue, i, a)

LEMMA JoinAppend ==
  ASSUME NEW q \in Seq(Letter), NEW l \in Letter, NEW a, l # Mail("UNSUBSCRIBE", a)
  PROVE  /\ ~ UnsubscribesAfter(q, 0, a) => ~ UnsubscribesAfter(Append(q, l), 0, a)
         /\ JoinsIn(q, a) => JoinsIn(Append(q, l), a)
         /\ l = Mail("SUBSCRIBE", a) => JoinsIn(Append(q, l), a)
<1>1. /\ Len(q) \in Nat /\ Len(Append(q, l)) = Len(q) + 1
      /\ \A k \in 1 .. Len(q) : Append(q, l)[k] = q[k]
      /\ Append(q, l)[Len(q) + 1] = l
  OBVIOUS
<1>2. ASSUME NEW i \in Nat, UnsubscribesAfter(Append(q, l), i, a) PROVE UnsubscribesAfter(q, i, a)
  <2>1. PICK j \in i + 1 .. Len(q) + 1 : Append(q, l)[j] = Mail("UNSUBSCRIBE", a)
    BY <1>1, <1>2 DEF UnsubscribesAfter
  <2>2. j \in i + 1 .. Len(q) /\ q[j] = Mail("UNSUBSCRIBE", a)
    BY <1>1, <2>1
  <2> QED
    BY <2>2 DEF UnsubscribesAfter
<1>3. ASSUME JoinsIn(q, a) PROVE JoinsIn(Append(q, l), a)
  <2>1. PICK i \in 1 .. Len(q) : q[i] = Mail("SUBSCRIBE", a) /\ ~ UnsubscribesAfter(q, i, a)
    BY <1>3 DEF JoinsIn
  <2>2. i \in 1 .. Len(Append(q, l)) /\ Append(q, l)[i] = Mail("SUBSCRIBE", a)
        /\ ~ UnsubscribesAfter(Append(q, l), i, a)
    BY <1>1, <1>2, <2>1
  <2> QED
    BY <2>2 DEF JoinsIn
<1>4. ASSUME l = Mail("SUBSCRIBE", a) PROVE JoinsIn(Append(q, l), a)
  <2>1. ~ UnsubscribesAfter(Append(q, l), Len(q) + 1, a)
    BY <1>1 DEF UnsubscribesAfter
  <2>2. Len(q) + 1 \in 1 .. Len(Append(q, l)) /\ Append(q, l)[Len(q) + 1] = Mail("SUBSCRIBE", a)
    BY <1>1, <1>4
  <2> QED
    BY <2>1, <2>2 DEF JoinsIn
<1> QED
  BY <1>2, <1>3, <1>4

LEMMA JoinTail ==
  ASSUME NEW q \in Seq(Letter), q # << >>, NEW a
  PROVE  /\ ~ UnsubscribesAfter(q, 0, a) => ~ UnsubscribesAfter(rest(q), 0, a)
         /\ JoinsIn(q, a) => \/ JoinsIn(rest(q), a)
                             \/ receive(q) = Mail("SUBSCRIBE", a) /\ ~ UnsubscribesAfter(rest(q), 0, a)
<1>1. /\ Len(q) \in Nat \ {0} /\ Len(rest(q)) = Len(q) - 1 /\ receive(q) = q[1]
      /\ \A k \in 1 .. Len(rest(q)) : rest(q)[k] = q[k + 1]
  BY DEF rest, receive
<1>2. ASSUME NEW i \in Nat, UnsubscribesAfter(rest(q), i, a)
      PROVE  UnsubscribesAfter(q, i + 1, a) /\ UnsubscribesAfter(q, 0, a)
  <2>1. PICK j \in i + 1 .. Len(rest(q)) : rest(q)[j] = Mail("UNSUBSCRIBE", a)
    BY <1>2 DEF UnsubscribesAfter
  <2>2. j + 1 \in (i + 1) + 1 .. Len(q) /\ j + 1 \in 0 + 1 .. Len(q) /\ q[j + 1] = Mail("UNSUBSCRIBE", a)
    BY <1>1, <2>1
  <2> QED
    BY <2>2 DEF UnsubscribesAfter
<1>3. ASSUME NEW i \in 1 .. Len(q), q[i] = Mail("SUBSCRIBE", a), ~ UnsubscribesAfter(q, i, a)
      PROVE  \/ JoinsIn(rest(q), a)
             \/ receive(q) = Mail("SUBSCRIBE", a) /\ ~ UnsubscribesAfter(rest(q), 0, a)
  <2>1. CASE i = 1
    BY <1>1, <1>2, <1>3, <2>1
  <2>2. CASE i # 1
    <3>1. i - 1 \in 1 .. Len(rest(q)) /\ i - 1 \in Nat /\ (i - 1) + 1 = i
      BY <1>1, <2>2
    <3>2. rest(q)[i - 1] = Mail("SUBSCRIBE", a)
      BY <1>1, <1>3, <3>1
    <3>3. ~ UnsubscribesAfter(rest(q), i - 1, a)
      BY <1>2, <1>3, <3>1
    <3> QED
      BY <3>1, <3>2, <3>3 DEF JoinsIn
  <2> QED
    BY <2>1, <2>2
<1> QED
  BY <1>2, <1>3 DEF JoinsIn

\* The mailbox of a subscriber that ends when it gets that far.
HasExit(m) == \E i \in 1 .. Len(m) : m[i].tag = "EXIT"

\* A subscriber with mailbox m that was last told s knows the status k of t, or
\* will when it has taken its letters, or will learn of an error or end.
InformedBy(m, s, t, k, e) ==
  IF m = << >> THEN s = [from |-> t, level |-> k]
               ELSE e \/ HasExit(m) \/ m[Len(m)] = Updated(t, k)

LEMMA InformedAppend ==
  ASSUME NEW m \in Seq(SubLetter), NEW s, NEW t \in Tx, NEW k \in Level \cup {Empty}, NEW e
  PROVE  /\ InformedBy(Append(m, Updated(t, k)), s, t, k, e)
         /\ InformedBy(Append(m, Exit), s, t, k, e)
         /\ \A l \in SubLetter : InformedBy(Append(m, l), s, t, k, TRUE)
         /\ \A l \in SubLetter : Append(m, l) # << >>
<1>1. Updated(t, k) \in SubLetter /\ Exit \in SubLetter
  BY SubLetterType
<1>2. ASSUME NEW l \in SubLetter
      PROVE  Len(Append(m, l)) = Len(m) + 1 /\ Append(m, l)[Len(m) + 1] = l /\ Append(m, l) # << >>
  OBVIOUS
<1>3. Len(m) + 1 \in 1 .. Len(m) + 1
  OBVIOUS
<1>4. HasExit(Append(m, Exit))
  BY <1>1, <1>2, <1>3 DEF HasExit, Exit
<1> QED
  BY <1>1, <1>2, <1>4 DEF InformedBy

LEMMA InformedTake ==
  ASSUME NEW m \in Seq(SubLetter), m # << >>, NEW s, NEW t \in Tx, NEW k, NEW e \in BOOLEAN, ~ e,
         receive(m).tag = "UPDATED",
         InformedBy(m, s, t, k, e)
  PROVE  InformedBy(rest(m), [from |-> receive(m).from, level |-> receive(m).data], t, k, e)
<1>1. /\ Len(m) \in Nat \ {0} /\ Len(rest(m)) = Len(m) - 1 /\ receive(m) = m[1]
      /\ \A j \in 1 .. Len(rest(m)) : rest(m)[j] = m[j + 1]
      /\ rest(m) \in Seq(SubLetter)
  BY DEF rest, receive
<1>2. ASSUME HasExit(m) PROVE HasExit(rest(m)) /\ rest(m) # << >>
  <2>1. PICK i \in 1 .. Len(m) : m[i].tag = "EXIT"
    BY <1>2 DEF HasExit
  <2>2. i # 1
    BY <1>1, <2>1
  <2>3. i - 1 \in 1 .. Len(rest(m)) /\ rest(m)[i - 1].tag = "EXIT"
    BY <1>1, <2>1, <2>2
  <2> QED
    BY <1>1, <2>3 DEF HasExit
<1>3. ASSUME m[Len(m)] = Updated(t, k)
      PROVE  InformedBy(rest(m), [from |-> receive(m).from, level |-> receive(m).data], t, k, e)
  <2>1. CASE Len(m) = 1
    BY <1>1, <1>3, <2>1 DEF InformedBy, Updated
  <2>2. CASE Len(m) # 1
    <3>1. Len(rest(m)) \in 1 .. Len(rest(m)) /\ rest(m)[Len(rest(m))] = m[Len(m)] /\ rest(m) # << >>
      BY <1>1, <2>2
    <3> QED
      BY <1>3, <3>1 DEF InformedBy
  <2> QED
    BY <2>1, <2>2
<1> QED
  BY <1>2, <1>3 DEF InformedBy

\* A subscriber that waits will be subscribed, or is: then no UNSUBSCRIBE of its
\* address is on the way, and it knows of an error and of the status, or has a
\* letter that leads to it.
JoinedTo(c, t) ==
  /\ self[c] \in subs[t]
  /\ ~ UnsubscribesAfter(inbox[t], 0, self[c])
  /\ mailbox[c] = << >> => ~ error[t]
  /\ OneTx => InformedBy(mailbox[c], seen[c], t, kvs[t], error[t])

EnrolledTo(c, t) == JoinsIn(inbox[t], self[c]) \/ JoinedTo(c, t)

Enrolled == \A c \in Sub : stage[c] = "waiting" => EnrolledTo(c, target[c])

\* One letter or none is posted, and not an UNSUBSCRIBE of this address.
LEMMA InboxKept ==
  ASSUME Typed, NEW t \in Tx, NEW u \in Tx, NEW l \in Letter, NEW a, l # Mail("UNSUBSCRIBE", a),
         UNCHANGED inbox \/ PostTx(u, l)
  PROVE  /\ ~ UnsubscribesAfter(inbox[t], 0, a) => ~ UnsubscribesAfter(inbox'[t], 0, a)
         /\ JoinsIn(inbox[t], a) => JoinsIn(inbox'[t], a)
         /\ PostTx(u, l) /\ t = u /\ l = Mail("SUBSCRIBE", a) => JoinsIn(inbox'[t], a)
<1>1. inbox[t] \in Seq(Letter)
  BY DEF Typed, TypeOK
<1>2. CASE UNCHANGED inbox
  <2>1. inbox'[t] = inbox[t]
    BY <1>2
  <2>2. PostTx(u, l) /\ t = u => inbox'[t] = Append(inbox[t], l)
    BY DEF PostTx, Typed, TypeOK
  <2>3. l = Mail("SUBSCRIBE", a) => JoinsIn(Append(inbox[t], l), a)
    BY <1>1, JoinAppend
  <2>4. /\ ~ UnsubscribesAfter(inbox[t], 0, a) => ~ UnsubscribesAfter(inbox'[t], 0, a)
        /\ JoinsIn(inbox[t], a) => JoinsIn(inbox'[t], a)
    BY <2>1
  <2> QED
    BY <2>2, <2>3, <2>4
<1>3. CASE PostTx(u, l)
  <2>1. inbox'[t] = inbox[t] \/ inbox'[t] = Append(inbox[t], l)
    BY <1>3 DEF PostTx, Typed, TypeOK
  <2>2. t = u => inbox'[t] = Append(inbox[t], l)
    BY <1>3 DEF PostTx, Typed, TypeOK
  <2>3. /\ ~ UnsubscribesAfter(inbox[t], 0, a) => ~ UnsubscribesAfter(Append(inbox[t], l), 0, a)
        /\ JoinsIn(inbox[t], a) => JoinsIn(Append(inbox[t], l), a)
        /\ l = Mail("SUBSCRIBE", a) => JoinsIn(Append(inbox[t], l), a)
    BY <1>1, JoinAppend
  <2>4. /\ ~ UnsubscribesAfter(inbox[t], 0, a) => ~ UnsubscribesAfter(inbox'[t], 0, a)
        /\ JoinsIn(inbox[t], a) => JoinsIn(inbox'[t], a)
        /\ t = u /\ l = Mail("SUBSCRIBE", a) => JoinsIn(inbox'[t], a)
    BY <2>1, <2>2, <2>3
  <2> QED
    BY <2>4
<1> QED
  BY <1>2, <1>3

\* A step of others: at most an EXIT reaches the subscriber.
LEMMA EnrolledKept ==
  ASSUME Typed, NEW c \in Sub, NEW t \in Tx, EnrolledTo(c, t),
         NEW u \in Tx, NEW l \in Letter, l # Mail("UNSUBSCRIBE", self[c]),
         UNCHANGED inbox \/ PostTx(u, l),
         self'[c] = self[c], seen'[c] = seen[c],
         mailbox'[c] \in {mailbox[c], Append(mailbox[c], Exit)},
         UNCHANGED <<kvs, error, subs>>
  PROVE  EnrolledTo(c, t)'
<1>1. /\ ~ UnsubscribesAfter(inbox[t], 0, self[c]) => ~ UnsubscribesAfter(inbox'[t], 0, self[c])
      /\ JoinsIn(inbox[t], self[c]) => JoinsIn(inbox'[t], self[c])
  BY InboxKept
<1>2. /\ mailbox[c] \in Seq(SubLetter) /\ kvs[t] \in Level \cup {Empty}
  BY DEF Typed, TypeOK
<1>3. /\ InformedBy(Append(mailbox[c], Exit), seen[c], t, kvs[t], error[t])
      /\ Append(mailbox[c], Exit) # << >>
  BY <1>2, InformedAppend, SubLetterType
<1>4. JoinedTo(c, t) =>
        /\ mailbox'[c] = << >> => ~ error[t]
        /\ OneTx => InformedBy(mailbox'[c], seen[c], t, kvs[t], error[t])
  BY <1>3 DEF JoinedTo
<1> QED
  BY <1>1, <1>4 DEF EnrolledTo, JoinedTo

\* Whom a broadcast reaches.
LEMMA BroadcastReaches ==
  ASSUME Typed, NEW t \in Tx, NEW d, Broadcast(t, d), NEW c \in Sub
  PROVE  mailbox'[c] = IF Registered(c) /\ self[c] \in subs[t]
                         THEN Append(mailbox[c], Updated(t, d)) ELSE mailbox[c]
<1>1. c \in UNION {Holders(a) : a \in subs[t]} <=> Registered(c) /\ self[c] \in subs[t]
  BY DEF Holders
<1>2. DOMAIN mailbox = Sub
  BY DEF Typed, TypeOK
<1> QED
  BY <1>1, <1>2 DEF Broadcast, PostSubs, send

LEMMA HoldersReached ==
  ASSUME Typed, NEW a, NEW l, PostSubs(Holders(a), l), NEW c \in Sub
  PROVE  mailbox'[c] = IF Registered(c) /\ self[c] = a THEN Append(mailbox[c], l) ELSE mailbox[c]
<1>1. c \in Holders(a) <=> Registered(c) /\ self[c] = a
  BY DEF Holders
<1>2. DOMAIN mailbox = Sub
  BY DEF Typed, TypeOK
<1> QED
  BY <1>1, <1>2 DEF PostSubs, send

\* The actor takes a letter other than SUBSCRIBE, or continues a poll: whoever
\* is subscribed stays so, and is told of a change.
LEMMA EnrolledTold ==
  ASSUME Typed, NEW c \in Sub, NEW t \in Tx, EnrolledTo(c, t), stage[c] = "waiting",
         UNCHANGED <<self, seen>>,
         JoinsIn(inbox[t], self[c]) => JoinsIn(inbox'[t], self[c]),
         ~ UnsubscribesAfter(inbox[t], 0, self[c]) => ~ UnsubscribesAfter(inbox'[t], 0, self[c]),
         ~ UnsubscribesAfter(inbox[t], 0, self[c]) /\ self[c] \in subs[t] => self[c] \in subs'[t],
         NEW u \in Tx, NEW d \in Level \cup {Empty, Undefined},
         kvs'[t] \in Level \cup {Empty}, error'[t] \in BOOLEAN,
         t # u => kvs'[t] = kvs[t] /\ error'[t] = error[t],
         \/ mailbox'[c] = mailbox[c] /\ kvs'[t] = kvs[t] /\ error'[t] = error[t]
         \/ Broadcast(u, d) /\ (t = u => error'[t] \/ (d = kvs'[t] /\ error'[t] = error[t]))
  PROVE  EnrolledTo(c, t)'
<1>1. CASE JoinsIn(inbox[t], self[c])
  BY <1>1 DEF EnrolledTo
<1>2. CASE JoinedTo(c, t)
  <2>1. mailbox[c] \in Seq(SubLetter) /\ Updated(u, d) \in SubLetter
    BY SubLetterType DEF Typed, TypeOK
  <2>2. CASE mailbox'[c] = mailbox[c] /\ kvs'[t] = kvs[t] /\ error'[t] = error[t]
    BY <1>2, <2>2 DEF EnrolledTo, JoinedTo
  <2>3. CASE t = u /\ Broadcast(u, d)
    <3>1. mailbox'[c] = Append(mailbox[c], Updated(t, d))
      BY <1>2, <2>3, BroadcastReaches DEF JoinedTo, Registered
    <3>2. error'[t] \/ d = kvs'[t]
      BY <2>1, <2>3, <3>1
    <3> DEFINE m == mailbox[c]
               l == Updated(t, d)
    <3>0. m \in Seq(SubLetter) /\ l \in SubLetter /\ mailbox'[c] = Append(m, l)
      BY <2>1, <2>3, <3>1
    <3>a. \A s, e : \A k \in Level \cup {Empty} :
            /\ InformedBy(Append(m, Updated(t, k)), s, t, k, e)
            /\ InformedBy(Append(m, l), s, t, k, TRUE)
            /\ Append(m, l) # << >>
      BY <3>0, InformedAppend
    <3> HIDE DEF m
    <3>3. mailbox'[c] # << >>
      BY <3>0, <3>a
    <3>4. error'[t] => InformedBy(mailbox'[c], seen[c], t, kvs'[t], error'[t])
      <4>1. InformedBy(Append(m, l), seen[c], t, kvs'[t], TRUE)
        BY <3>a
      <4>2. error'[t] => error'[t] = TRUE
        OBVIOUS
      <4> QED
        BY <3>0, <4>1, <4>2
    <3>5. d = kvs'[t] => InformedBy(mailbox'[c], seen[c], t, kvs'[t], error'[t])
      <4>1. InformedBy(Append(m, Updated(t, kvs'[t])), seen[c], t, kvs'[t], error'[t])
        BY <3>a
      <4> QED
        BY <3>0, <4>1
    <3>6. InformedBy(mailbox'[c], seen[c], t, kvs'[t], error'[t])
      BY <3>2, <3>4, <3>5
    <3> QED
      BY <1>2, <3>3, <3>6 DEF EnrolledTo, JoinedTo
  <2>4. CASE t # u /\ Broadcast(u, d)
    <3>1. ~ OneTx
      BY <2>4 DEF OneTx
    <3>2. mailbox'[c] = mailbox[c] \/ mailbox'[c] = Append(mailbox[c], Updated(u, d))
      BY <2>4, BroadcastReaches
    <3>3. Append(mailbox[c], Updated(u, d)) # << >>
      BY <2>1
    <3> QED
      BY <1>2, <2>4, <3>1, <3>2, <3>3 DEF EnrolledTo, JoinedTo
  <2> QED
    BY <2>2, <2>3, <2>4
<1> QED
  BY <1>1, <1>2 DEF EnrolledTo

\* The actor of a transaction starts, or takes its next letter, or ends a poll.
LEMMA TxEnrolled ==
  ASSUME Typed, Enrolled, NEW u \in Tx, TxMicrotask(u)
  PROVE  Enrolled'
<1>0. UNCHANGED <<stage, self, target, seen>>
  BY DEF TxMicrotask, TxStart, TxSubscribe, TxUnsubscribe, TxSnapshot, TxTimeout,
     TxPoll, PollNotFound, PollFails, PollFinds, TxReceives, TxContinuesPoll, subVars
<1> SUFFICES ASSUME NEW c \in Sub, stage[c] = "waiting", NEW t, t = target[c] PROVE EnrolledTo(c, t)'
  BY <1>0 DEF Enrolled
<1>1. /\ t \in Tx /\ EnrolledTo(c, t)
      /\ inbox[t] \in Seq(Letter) /\ inbox[u] \in Seq(Letter) /\ self[c] \in Nat
      /\ mailbox[c] \in Seq(SubLetter)
      /\ kvs \in [Tx -> Level \cup {Empty}] /\ error \in [Tx -> BOOLEAN] /\ subs \in [Tx -> SUBSET Int]
  BY DEF Enrolled, Typed, TypeOK, Opened
<1>2. CASE TxStart(u)
  <2>2. Mail("POLL", NoAddr) \in Letter /\ Mail("POLL", NoAddr) # Mail("UNSUBSCRIBE", self[c])
    BY PollMail DEF Mail
  <2> QED
    BY <1>0, <1>1, <1>2, <2>2, EnrolledKept DEF TxStart, subVars
<1>3. ASSUME NEW tag, TxReceives(u, tag)
      PROVE  /\ ~ UnsubscribesAfter(inbox[t], 0, self[c]) => ~ UnsubscribesAfter(inbox'[t], 0, self[c])
             /\ JoinsIn(inbox[t], self[c]) =>
                  \/ JoinsIn(inbox'[t], self[c])
                  \/ /\ t = u /\ receive(inbox[u]) = Mail("SUBSCRIBE", self[c])
                     /\ ~ UnsubscribesAfter(inbox'[t], 0, self[c])
             /\ tag # "SUBSCRIBE" /\ JoinsIn(inbox[t], self[c]) => JoinsIn(inbox'[t], self[c])
             /\ t = u => inbox[t] # << >> /\ inbox'[t] = rest(inbox[t])
             /\ t # u => inbox'[t] = inbox[t]
             /\ receive(inbox[u]).tag = tag
             /\ kvs' = kvs
  <2>1. /\ inbox[u] # << >> /\ receive(inbox[u]).tag = tag
        /\ inbox'[u] = rest(inbox[u]) /\ (t # u => inbox'[t] = inbox[t]) /\ kvs' = kvs
    BY <1>1, <1>3 DEF TxReceives, Typed, TypeOK
  <2>2. Mail("SUBSCRIBE", self[c]).tag = "SUBSCRIBE"
    BY DEF Mail
  <2> QED
    BY <1>1, <2>1, <2>2, JoinTail
<1>4. CASE TxSubscribe(u)
  <2> DEFINE a == receive(inbox[u]).from
  <2>1. /\ TxReceives(u, "SUBSCRIBE")
        /\ subs' = [subs EXCEPT ![u] = @ \cup {a}]
        /\ PostSubs(Holders(a), Updated(u, kvs[u]))
        /\ UNCHANGED <<error, kvs>>
    BY <1>4 DEF TxSubscribe, TxReceives
  <2>2. mailbox'[c] = IF self[c] = a THEN Append(mailbox[c], Updated(u, kvs[u])) ELSE mailbox[c]
    BY <2>1, HoldersReached DEF Registered
  <2>3. Updated(u, kvs[u]) \in SubLetter /\ Append(mailbox[c], Updated(u, kvs[u])) # << >>
    <3>1. kvs[u] \in Level \cup {Empty}
      BY <1>1
    <3>2. Updated(u, kvs[u]) \in SubLetter
      BY <3>1, SubLetterType
    <3> QED
      BY <1>1, <3>1, <3>2, InformedAppend
  <2>4. t = u => InformedBy(Append(mailbox[c], Updated(t, kvs[t])), seen[c], t, kvs[t], error[t])
    BY <1>1, InformedAppend
  <2>5. self[c] \in subs[t] => self[c] \in subs'[t]
    BY <1>1, <2>1
  <2>6. t # u => ~ OneTx
    BY <1>1 DEF OneTx
  <2>7. CASE JoinsIn(inbox'[t], self[c])
    BY <1>0, <2>7 DEF EnrolledTo
  <2>8. CASE /\ t = u /\ receive(inbox[u]) = Mail("SUBSCRIBE", self[c])
             /\ ~ UnsubscribesAfter(inbox'[t], 0, self[c])
    <3>1. a = self[c]
      BY <2>8 DEF Mail
    <3>2. self[c] \in subs'[t]
      BY <1>1, <2>1, <2>8, <3>1
    <3> QED
      BY <1>0, <2>1, <2>2, <2>3, <2>4, <2>8, <3>1, <3>2 DEF EnrolledTo, JoinedTo
  <2>9. CASE JoinedTo(c, t)
    <3>1. ~ UnsubscribesAfter(inbox'[t], 0, self[c])
      BY <1>3, <2>1, <2>9 DEF JoinedTo
    <3>2. mailbox'[c] = << >> => ~ error[t]
      BY <2>2, <2>3, <2>9 DEF JoinedTo
    <3>3. OneTx => InformedBy(mailbox'[c], seen[c], t, kvs[t], error[t])
      BY <2>2, <2>4, <2>6, <2>9 DEF JoinedTo
    <3> QED
      BY <1>0, <2>1, <2>5, <2>9, <3>1, <3>2, <3>3 DEF EnrolledTo, JoinedTo
  <2> QED
    BY <1>1, <1>3, <2>1, <2>7, <2>8, <2>9 DEF EnrolledTo
<1>5. ASSUME NEW tag, tag # "SUBSCRIBE", TxReceives(u, tag),
             (UNCHANGED error /\ UNCHANGED mailbox) \/ (error' = [error EXCEPT ![u] = TRUE] /\ Broadcast(u, Undefined)),
             ~ UnsubscribesAfter(inbox[t], 0, self[c]) /\ self[c] \in subs[t] => self[c] \in subs'[t]
      PROVE  EnrolledTo(c, t)'
  <2>1. /\ JoinsIn(inbox[t], self[c]) => JoinsIn(inbox'[t], self[c])
        /\ ~ UnsubscribesAfter(inbox[t], 0, self[c]) => ~ UnsubscribesAfter(inbox'[t], 0, self[c])
        /\ kvs' = kvs
    BY <1>3, <1>5
  <2>2. error'[t] \in BOOLEAN /\ kvs'[t] \in Level \cup {Empty} /\ kvs'[t] = kvs[t]
    BY <1>1, <1>5, <2>1
  <2>3. \/ mailbox'[c] = mailbox[c] /\ kvs'[t] = kvs[t] /\ error'[t] = error[t]
        \/ Broadcast(u, Undefined) /\ (t = u => error'[t])
    BY <1>1, <1>5, <2>1
  <2>4. t # u => error'[t] = error[t]
    BY <1>1, <1>5
  <2> QED
    BY <1>0, <1>1, <1>5, <2>1, <2>2, <2>3, <2>4, EnrolledTold
<1>6. CASE TxUnsubscribe(u)
  <2> DEFINE l == receive(inbox[u])
  <2>1. /\ TxReceives(u, "UNSUBSCRIBE") /\ subs' = [subs EXCEPT ![u] = @ \ {l.from}]
        /\ UNCHANGED <<error, mailbox>>
    BY <1>6 DEF TxUnsubscribe
  <2>2. ASSUME ~ UnsubscribesAfter(inbox[t], 0, self[c]), self[c] \in subs[t] PROVE self[c] \in subs'[t]
    <3>1. CASE t = u
      <4>1. inbox[u] # << >> /\ l.tag = "UNSUBSCRIBE"
        BY <2>1 DEF TxReceives
      <4>2. 1 \in 0 + 1 .. Len(inbox[u]) /\ inbox[u][1] = l /\ l \in Letter
        BY <1>1, <4>1 DEF receive
      <4>3. l # Mail("UNSUBSCRIBE", self[c])
        BY <2>2, <3>1, <4>2 DEF UnsubscribesAfter
      <4>4. l = Mail("UNSUBSCRIBE", l.from)
        BY <4>1, <4>2 DEF Mail, Letter
      <4>5. l.from # self[c]
        BY <4>3, <4>4
      <4> QED
        BY <1>1, <2>1, <2>2, <3>1, <4>5
    <3>2. CASE t # u
      BY <1>1, <2>1, <2>2, <3>2
    <3> QED
      BY <3>1, <3>2
  <2> QED
    BY <1>5, <2>1, <2>2
<1>7. CASE TxSnapshot(u)
  BY <1>5, <1>7 DEF TxSnapshot
<1>8. CASE TxTimeout(u)
  BY <1>5, <1>8 DEF TxTimeout
<1>9. CASE TxPoll(u)
  BY <1>5, <1>9 DEF TxPoll
<1>10. ASSUME UNCHANGED <<inbox, subs>>, kvs' \in [Tx -> Level \cup {Empty}], error' \in [Tx -> BOOLEAN],
              NEW d \in Level \cup {Empty, Undefined},
              t # u => kvs'[t] = kvs[t] /\ error'[t] = error[t],
              \/ mailbox'[c] = mailbox[c] /\ kvs'[t] = kvs[t] /\ error'[t] = error[t]
              \/ Broadcast(u, d) /\ (t = u => error'[t] \/ (d = kvs'[t] /\ error'[t] = error[t]))
       PROVE  EnrolledTo(c, t)'
  BY <1>0, <1>1, <1>10, EnrolledTold
<1>11. CASE PollNotFound(u)
  <2>1. UNCHANGED <<inbox, subs, kvs, error, mailbox>> /\ Undefined \in Level \cup {Empty, Undefined}
    BY <1>11 DEF PollNotFound, TxContinuesPoll
  <2> QED
    BY <1>1, <1>10, <2>1
<1>12. CASE PollFails(u)
  <2>1. /\ UNCHANGED <<inbox, subs, kvs>> /\ error' = [error EXCEPT ![u] = TRUE]
        /\ Broadcast(u, Undefined) /\ Undefined \in Level \cup {Empty, Undefined}
    BY <1>12 DEF PollFails, TxContinuesPoll
  <2>2. error' \in [Tx -> BOOLEAN] /\ (t # u => error'[t] = error[t]) /\ (t = u => error'[t])
    BY <1>1, <2>1
  <2> QED
    BY <1>1, <1>10, <2>1, <2>2
<1>13. CASE PollFinds(u)
  <2>1. /\ UNCHANGED <<inbox, subs, error>> /\ kvs' = [kvs EXCEPT ![u] = answer[u]]
        /\ answer[u] \in Level
        /\ IF kvs[u] # answer[u] THEN Broadcast(u, answer[u]) ELSE UNCHANGED mailbox
    BY <1>13 DEF PollFinds, TxContinuesPoll
  <2>2. /\ kvs' \in [Tx -> Level \cup {Empty}] /\ (t # u => kvs'[t] = kvs[t])
        /\ (t = u => kvs'[t] = answer[u]) /\ answer[u] \in Level \cup {Empty, Undefined}
    BY <1>1, <2>1
  <2>3. \/ mailbox'[c] = mailbox[c] /\ kvs'[t] = kvs[t]
        \/ Broadcast(u, answer[u]) /\ (t = u => answer[u] = kvs'[t])
    BY <2>1, <2>2
  <2> QED
    BY <1>1, <1>10, <2>1, <2>2, <2>3
<1> QED
  BY <1>2, <1>4, <1>6, <1>7, <1>8, <1>9, <1>11, <1>12, <1>13 DEF TxMicrotask

\* The program, the network and the timers post other letters, or an EXIT to
\* whoever holds the address.
LEMMA OutsideEnrolled ==
  ASSUME Typed, Enrolled,
         Program \/ Environment \/ (\E u \in Tx : Macrotask(u)) \/ UNCHANGED vars
  PROVE  Enrolled'
<1> SUFFICES ASSUME NEW c \in Sub, stage'[c] = "waiting" PROVE EnrolledTo(c, target[c])'
  BY DEF Enrolled
<1>1. ASSUME UNCHANGED <<kvs, error, subs, seen>>,
             stage'[c] = stage[c], self'[c] = self[c], target'[c] = target[c],
             mailbox'[c] \in {mailbox[c], Append(mailbox[c], Exit)},
             \/ UNCHANGED inbox
             \/ \E u \in Tx : \E l \in {Mail("POLL", NoAddr), Mail("SNAPSHOT", NoAddr), Mail("TIMEOUT", NoAddr)} :
                  PostTx(u, l)
      PROVE  EnrolledTo(c, target[c])'
  <2>1. target[c] \in Tx /\ stage[c] = "waiting" /\ EnrolledTo(c, target[c])
    BY <1>1 DEF Enrolled, Typed, Opened
  <2>2. PICK u \in Tx, l \in {Mail("POLL", NoAddr), Mail("SNAPSHOT", NoAddr), Mail("TIMEOUT", NoAddr)} :
          UNCHANGED inbox \/ PostTx(u, l)
    BY <1>1, <2>1
  <2>3. l \in Letter /\ l # Mail("UNSUBSCRIBE", self[c])
    BY PollMail, OtherMail DEF Mail
  <2> HIDE DEF EnrolledTo
  <2>4. EnrolledTo(c, target[c]) /\ seen'[c] = seen[c] /\ UNCHANGED <<kvs, error, subs>>
    BY <1>1, <2>1
  <2>5. ASSUME NEW t \in Tx, EnrolledTo(c, t) PROVE EnrolledTo(c, t)'
    BY <1>1, <2>2, <2>3, <2>4, <2>5, EnrolledKept
  <2>6. PICK t \in Tx : t = target[c]
    BY <2>1
  <2>7. EnrolledTo(c, t)'
    BY <2>1, <2>5, <2>6
  <2>8. target'[c] = t
    BY <1>1, <2>6
  <2> QED
    BY <2>7, <2>8 DEF EnrolledTo, JoinedTo
<1>2. ASSUME NEW d \in Sub, NEW u \in Tx, Subscribe(d, u) PROVE EnrolledTo(c, target[c])'
  <2>1. PICK a \in 0 .. MaxAddr : self' = [self EXCEPT ![d] = a]
    BY <1>2 DEF Subscribe
  <2>2. c # d
    BY <1>2 DEF Subscribe, Typed, TypeOK
  <2> QED
    BY <1>1, <1>2, <2>1, <2>2 DEF Subscribe, Typed, TypeOK
<1>3. ASSUME NEW d \in Sub, Unsubscribe(d) PROVE EnrolledTo(c, target[c])'
  <2>1. mailbox'[c] \in {mailbox[c], Append(mailbox[c], Exit)}
    BY <1>3, HoldersReached DEF Unsubscribe
  <2> QED
    BY <1>1, <1>3, <2>1 DEF Unsubscribe, txVars
<1>4. ASSUME NEW u \in Tx, Snapshot(u) PROVE EnrolledTo(c, target[c])'
  BY <1>1, <1>4 DEF Snapshot, subVars
<1>5. CASE Environment
  BY <1>1, <1>5 DEF Environment, LedgerAdvances, txVars, subVars
<1>6. ASSUME NEW u \in Tx, Macrotask(u) PROVE EnrolledTo(c, target[c])'
  BY <1>1, <1>6 DEF Macrotask, AccessNodeAnswers, PollTimerFires, DeadlineFires, subVars
<1>7. CASE UNCHANGED vars
  BY <1>1, <1>7 DEF vars, txVars, subVars
<1> QED
  BY <1>2, <1>3, <1>4, <1>5, <1>6, <1>7 DEF Program

\* A subscriber starts, or takes a letter: an UPDATED brings it up to date.
LEMMA SubEnrolled ==
  ASSUME Typed, UniqueAddresses, Enrolled, NEW d \in Sub, SubMicrotask(d)
  PROVE  Enrolled'
<1> SUFFICES ASSUME NEW c \in Sub, stage'[c] = "waiting", NEW t, t = target[c] PROVE EnrolledTo(c, t)'
  <2>1. UNCHANGED target
    BY DEF SubMicrotask, SubStart, SubKill, SubExits, SubFails, SubCallsPlain, SubCallsOnce,
       SubCalls, SubReceives
  <2> QED
    BY <2>1 DEF Enrolled
<1>0. UNCHANGED <<self, target, kvs, error, subs>>
  BY DEF SubMicrotask, SubStart, SubKill, SubExits, SubFails, SubCallsPlain, SubCallsOnce,
     SubCalls, SubReceives, txVars
<1>1. stage[d] # "idle" /\ self[d] \in Nat /\ target[d] \in Tx
  BY DEF Typed, Opened, SubMicrotask, SubStart, SubKill, SubExits, SubFails, SubCallsPlain,
     SubCallsOnce, SubCalls, SubReceives
<1>2. ASSUME c # d, stage'[c] = stage[c], seen'[c] = seen[c], mailbox'[c] = mailbox[c],
             NEW l \in Letter, l # Mail("UNSUBSCRIBE", self[c]),
             UNCHANGED inbox \/ PostTx(target[d], l)
      PROVE  EnrolledTo(c, t)'
  <2>1. t \in Tx /\ EnrolledTo(c, t)
    BY <1>2 DEF Enrolled, Typed, Opened
  <2> QED
    BY <1>0, <1>1, <1>2, <2>1, EnrolledKept
<1>3. CASE SubStart(d)
  <2> DEFINE l == Mail("SUBSCRIBE", self[d])
  <2>1. l \in Letter /\ l # Mail("UNSUBSCRIBE", self[c])
    <3>1. l \in Letter
      BY <1>1, MailType
    <3> QED
      BY <3>1 DEF Mail
  <2>2. CASE c = d
    <3>1. PostTx(t, l) /\ t \in Tx
      BY <1>1, <1>3, <2>2 DEF SubStart
    <3>2. JoinsIn(inbox'[t], self[c])
      BY <2>1, <2>2, <3>1, InboxKept
    <3> QED
      BY <1>0, <3>2 DEF EnrolledTo
  <2>3. CASE c # d
    BY <1>2, <1>3, <2>1, <2>3 DEF SubStart, Typed, TypeOK
  <2> QED
    BY <2>2, <2>3
<1>4. CASE SubKill(d)
  <2>1. c # d /\ stage'[c] = stage[c] /\ seen'[c] = seen[c] /\ mailbox'[c] = mailbox[c] /\ UNCHANGED inbox
    BY <1>4 DEF SubKill, Typed, TypeOK, txVars
  <2>2. Mail("POLL", NoAddr) \in Letter /\ Mail("POLL", NoAddr) # Mail("UNSUBSCRIBE", self[c])
    BY PollMail DEF Mail
  <2> QED
    BY <1>2, <2>1, <2>2
\* The end of a subscriber, or its crash.
<1>5. ASSUME stage[d] = "waiting", SubEnds(d) \/ SubCrashes(d),
             \A x \in Sub : x # d => seen'[x] = seen[x] /\ mailbox'[x] = mailbox[x]
      PROVE  EnrolledTo(c, t)'
  <2>1. c # d /\ stage'[c] = stage[c] /\ seen'[c] = seen[c] /\ mailbox'[c] = mailbox[c]
    BY <1>5 DEF SubEnds, SubCrashes, Typed, TypeOK
  <2>2. self[c] # self[d]
    BY <1>5, <2>1 DEF UniqueAddresses, Registered
  <2>3. Mail("UNSUBSCRIBE", self[d]) \in Letter /\ Mail("UNSUBSCRIBE", self[d]) # Mail("UNSUBSCRIBE", self[c])
    <3>1. Mail("UNSUBSCRIBE", self[d]) \in Letter
      BY <1>1, MailType
    <3> QED
      BY <2>2, <3>1 DEF Mail
  <2>4. UNCHANGED inbox \/ PostTx(target[d], Mail("UNSUBSCRIBE", self[d]))
    BY <1>5 DEF SubEnds, SubCrashes
  <2> QED
    BY <1>2, <2>1, <2>3, <2>4
\* A letter that goes to the callback, which does not throw.
<1>6. ASSUME SubCalls(d, receive(mailbox[d])), UNCHANGED <<stage, inbox>>,
             \/ mailbox' = [mailbox EXCEPT ![d] = rest(@)]
             \/ mailbox' = [mailbox EXCEPT ![d] = Append(rest(@), Exit)]
      PROVE  EnrolledTo(c, t)'
  <2>1. /\ mailbox[d] # << >> /\ receive(mailbox[d]).tag = "UPDATED" /\ ~ error[target[d]]
        /\ seen' = [seen EXCEPT ![d] = [from |-> receive(mailbox[d]).from, level |-> receive(mailbox[d]).data]]
    BY <1>6 DEF SubCalls, SubReceives
  <2>2. CASE c # d
    <3>1. seen'[c] = seen[c] /\ mailbox'[c] = mailbox[c] /\ stage'[c] = stage[c]
      BY <1>6, <2>1, <2>2 DEF Typed, TypeOK
    <3>2. Mail("POLL", NoAddr) \in Letter /\ Mail("POLL", NoAddr) # Mail("UNSUBSCRIBE", self[c])
      BY PollMail DEF Mail
    <3> QED
      BY <1>2, <1>6, <2>2, <3>1, <3>2
  <2>3. CASE c = d
    <3> DEFINE s == [from |-> receive(mailbox[c]).from, level |-> receive(mailbox[c]).data]
    <3>1. /\ t \in Tx /\ EnrolledTo(c, t) /\ mailbox[c] \in Seq(SubLetter) /\ error[t] \in BOOLEAN
          /\ kvs[t] \in Level \cup {Empty} /\ seen'[c] = s /\ rest(mailbox[c]) \in Seq(SubLetter)
      BY <1>1, <1>6, <2>1, <2>3 DEF Enrolled, Typed, TypeOK, rest
    <3>2. JoinedTo(c, t) /\ OneTx => InformedBy(rest(mailbox[c]), s, t, kvs[t], error[t])
      BY <2>1, <2>3, <3>1, InformedTake DEF JoinedTo
    <3>3. JoinedTo(c, t) /\ OneTx => InformedBy(Append(rest(mailbox[c]), Exit), s, t, kvs[t], error[t])
      BY <3>1, InformedAppend
    <3>4. mailbox'[c] = rest(mailbox[c]) \/ mailbox'[c] = Append(rest(mailbox[c]), Exit)
      BY <1>6, <2>3 DEF Typed, TypeOK
    <3>5. /\ inbox' = inbox /\ self' = self /\ subs' = subs /\ error' = error /\ kvs' = kvs
          /\ ~ error[t]
      BY <1>0, <1>6, <2>1, <2>3
    <3>6. JoinedTo(c, t) /\ OneTx => InformedBy(mailbox'[c], seen'[c], t, kvs[t], error[t])
      BY <3>1, <3>2, <3>3, <3>4
    <3> QED
      BY <3>1, <3>5, <3>6 DEF EnrolledTo, JoinedTo
  <2> QED
    BY <2>2, <2>3
<1>7. CASE SubExits(d)
  BY <1>5, <1>7 DEF SubExits, SubReceives, Typed, TypeOK
<1>8. CASE SubFails(d)
  <2>1. /\ stage[d] = "waiting" /\ (SubEnds(d) \/ SubCrashes(d))
        /\ seen' = [seen EXCEPT ![d] = [from |-> target[d], level |-> Error]]
        /\ \/ mailbox' = [mailbox EXCEPT ![d] = Append(rest(@), Exit)]
           \/ mailbox' = [mailbox EXCEPT ![d] = rest(@)]
    BY <1>8 DEF SubFails, SubReceives
  <2> QED
    BY <1>5, <2>1 DEF Typed, TypeOK
<1>9. CASE SubCallsPlain(d)
  <2>1. /\ SubCalls(d, receive(mailbox[d])) /\ mailbox' = [mailbox EXCEPT ![d] = rest(@)]
        /\ UNCHANGED <<stage, inbox>> \/ SubCrashes(d)
    BY <1>9 DEF SubCallsPlain
  <2>2. CASE SubCrashes(d)
    BY <1>5, <2>1, <2>2 DEF SubCalls, SubReceives, Typed, TypeOK
  <2> QED
    BY <1>6, <2>1, <2>2
<1>10. CASE SubCallsOnce(d)
  <2>1. SubCalls(d, receive(mailbox[d]))
    BY <1>10 DEF SubCallsOnce
  <2>2. \/ UNCHANGED <<stage, inbox>>
           /\ \/ mailbox' = [mailbox EXCEPT ![d] = rest(@)]
              \/ mailbox' = [mailbox EXCEPT ![d] = Append(rest(@), Exit)]
        \/ SubCrashes(d) /\ mailbox' = [mailbox EXCEPT ![d] = rest(@)]
    BY <1>10 DEF SubCallsOnce, SettlesAndUnsubscribes
  <2>3. CASE SubCrashes(d) /\ mailbox' = [mailbox EXCEPT ![d] = rest(@)]
    BY <1>5, <2>1, <2>3 DEF SubCalls, SubReceives, Typed, TypeOK
  <2> QED
    BY <1>6, <2>1, <2>2, <2>3
<1> QED
  BY <1>3, <1>4, <1>7, <1>8, <1>9, <1>10 DEF SubMicrotask

LEMMA InitEnrolled == Init => Enrolled
  BY DEF Init, Enrolled

LEMMA StepEnrolled == Typed /\ UniqueAddresses /\ Enrolled /\ [Next]_vars => Enrolled'
  BY TxEnrolled, OutsideEnrolled, SubEnrolled DEF Next

LEMMA InitUnique == Init => UniqueAddresses
  BY DEF Init, UniqueAddresses, Registered

\* A settled subscriber has no letter of its own on the way.
LEMMA SettledJoined ==
  ASSUME Typed, Enrolled, NEW c \in Sub, Settled(c)
  PROVE  JoinedTo(c, target[c]) /\ mailbox[c] = << >>
<1>1. ~ JoinsIn(inbox[target[c]], self[c])
  BY DEF Settled, JoinsIn, Mail
<1> QED
  BY <1>1 DEF Settled, Enrolled, EnrolledTo

\* A subscriber that has taken every letter and has none on the way is in the
\* subscriptions of its transaction, which has no error: of any number of
\* transactions, however the addresses are used again.
SettledAreSubscribed ==
  \A c \in Sub : Settled(c) => self[c] \in subs[target[c]] /\ ~ error[target[c]]

THEOREM SettledSubscribed == Spec => []SettledAreSubscribed
<1>1. Typed /\ Enrolled => SettledAreSubscribed
  BY SettledJoined DEF SettledAreSubscribed, JoinedTo
<1> QED
  BY <1>1, InitTyped, InitUnique, InitEnrolled, StepTyped, StepUnique, StepEnrolled, PTL DEF Spec

\* With one transaction its callback was also last called with the status the
\* actor holds.  (With two, a broadcast of the other may reach a reused address.)
THEOREM SubscribersAreUpToDate ==
  ASSUME OneTx
  PROVE  Spec => []SubscribersUpToDate
<1>1. Typed /\ Enrolled => SubscribersUpToDate
  BY SettledJoined DEF SubscribersUpToDate, JoinedTo, InformedBy
<1> QED
  BY <1>1, InitTyped, InitUnique, InitEnrolled, StepTyped, StepUnique, StepEnrolled, PTL DEF Spec

-----------------------------------------------------------------------------
(* What a letter says when it is read.                                      *)

\* The status held is one the access nodes have reported, and they never take
\* one back: a poll under way brings no older one.
RisingOf(t) ==
  /\ kvs[t] <= ledger[t]
  /\ fetch[t] = "answered" /\ answer[t] \in Level => kvs[t] <= answer[t] /\ answer[t] <= ledger[t]

Rising == \A t \in Tx : RisingOf(t)

LEMMA InitRising == Init => Rising
  BY DEF Init, Rising, RisingOf, Empty, NotFound

LEMMA StepRising ==
  ASSUME Typed, Rising, [Next]_vars
  PROVE  Rising'
<1> SUFFICES ASSUME NEW t \in Tx PROVE RisingOf(t)'
  BY DEF Rising
<1>1. /\ kvs[t] \in Level \cup {Empty} /\ ledger[t] \in Level \cup {NotFound} /\ RisingOf(t)
      /\ fetch \in [Tx -> {"none", "pending", "answered"}]
      /\ answer \in [Tx -> Level \cup {NotFound, Error}]
      /\ kvs \in [Tx -> Level \cup {Empty}] /\ ledger \in [Tx -> Level \cup {NotFound}]
  BY DEF Typed, TypeOK, Rising
<1>2. ASSUME UNCHANGED <<ledger, kvs, fetch, answer>> PROVE RisingOf(t)'
  BY <1>1, <1>2 DEF RisingOf
<1>3. CASE Program
  BY <1>2, <1>3 DEF Program, Subscribe, Unsubscribe, Snapshot, txVars
<1>4. ASSUME NEW u \in Tx, NEW level \in Levels, LedgerAdvances(u, level) PROVE RisingOf(t)'
  <2>1. level \in Int /\ level > ledger[u] /\ ledger' = [ledger EXCEPT ![u] = level]
        /\ UNCHANGED <<kvs, fetch, answer>>
    BY <1>4, ConstantsAssumption DEF LedgerAdvances, txVars
  <2>2. ledger'[t] \in Int /\ ledger'[t] >= ledger[t]
    BY <1>1, <2>1 DEF Level, NotFound
  <2> QED
    BY <1>1, <2>1, <2>2 DEF RisingOf, Level, NotFound, Empty
<1>5. ASSUME NEW c \in Sub, SubMicrotask(c) PROVE RisingOf(t)'
  BY <1>2, <1>5 DEF SubMicrotask, SubStart, SubKill, SubExits, SubFails, SubCallsPlain,
     SubCallsOnce, SubCalls, SubReceives, txVars
<1>6. ASSUME NEW u \in Tx, TxMicrotask(u) PROVE RisingOf(t)'
  <2>1. CASE TxStart(u) \/ TxSubscribe(u) \/ TxUnsubscribe(u) \/ TxSnapshot(u) \/ TxTimeout(u)
    BY <1>2, <2>1 DEF TxStart, TxSubscribe, TxUnsubscribe, TxSnapshot, TxTimeout, TxReceives
  <2>2. CASE TxPoll(u)
    <3>1. UNCHANGED <<ledger, kvs, answer>> /\ fetch' = [fetch EXCEPT ![u] = "pending"]
      BY <2>2 DEF TxPoll, TxReceives
    <3> QED
      BY <1>1, <3>1 DEF RisingOf
  <2>3. CASE PollNotFound(u) \/ PollFails(u)
    <3>1. UNCHANGED <<ledger, kvs, answer>> /\ fetch' = [fetch EXCEPT ![u] = "none"]
      BY <2>3 DEF PollNotFound, PollFails, TxContinuesPoll
    <3> QED
      BY <1>1, <3>1 DEF RisingOf
  <2>4. CASE PollFinds(u)
    <3>1. /\ UNCHANGED <<ledger, answer>> /\ fetch' = [fetch EXCEPT ![u] = "none"]
          /\ kvs' = [kvs EXCEPT ![u] = answer[u]] /\ answer[u] \in Level /\ fetch[u] = "answered"
      BY <2>4 DEF PollFinds, TxContinuesPoll
    <3> QED
      BY <1>1, <3>1 DEF RisingOf
  <2> QED
    BY <1>6, <2>1, <2>2, <2>3, <2>4 DEF TxMicrotask
<1>7. ASSUME NEW u \in Tx, Macrotask(u) PROVE RisingOf(t)'
  <2>1. CASE AccessNodeAnswers(u)
    <3>1. /\ UNCHANGED <<ledger, kvs>> /\ fetch' = [fetch EXCEPT ![u] = "answered"]
          /\ answer' = [answer EXCEPT ![u] = ledger[u]] \/ answer' = [answer EXCEPT ![u] = Error]
      BY <2>1 DEF AccessNodeAnswers
    <3>2. CASE t = u
      <4>1. answer'[t] = ledger[t] \/ answer'[t] = Error
        BY <1>1, <3>1, <3>2
      <4> QED
        BY <1>1, <3>1, <4>1 DEF RisingOf, Level, Error, NotFound
    <3>3. CASE t # u
      BY <1>1, <3>1, <3>3 DEF RisingOf
    <3> QED
      BY <3>2, <3>3
  <2>2. CASE PollTimerFires(u) \/ DeadlineFires(u)
    BY <1>2, <2>2 DEF PollTimerFires, DeadlineFires
  <2> QED
    BY <1>7, <2>1, <2>2 DEF Macrotask
<1>8. CASE UNCHANGED vars
  BY <1>2, <1>8 DEF vars, txVars
<1> QED
  BY <1>3, <1>4, <1>5, <1>6, <1>7, <1>8 DEF Next, Environment

\* An UPDATED says what its transaction holds, or there is an error, and no
\* answer that would change it waits to be taken.
TimelyLetter(l) ==
  l.tag = "UPDATED" =>
    /\ l.from \in Tx
    /\ fetch[l.from] # "answered"
    /\ error[l.from] \/ l.data = kvs[l.from]

TimelyIn(m) == \A i \in 1 .. Len(m) : TimelyLetter(m[i])

Active(c) == stage[c] \in {"idle", "spawned", "waiting"}

Timely ==
  /\ \A c \in Sub : Active(c) => TimelyIn(mailbox[c])
  /\ \A c \in Sub : stage[c] = "idle" => mailbox[c] = << >>

LEMMA InitTimely == Init => Timely
  BY DEF Init, Timely, TimelyIn

\* A step that makes no letter untimely posts a timely one or takes one.
LEMMA TimelyStep ==
  ASSUME NEW m \in Seq(SubLetter), TimelyIn(m),
         \A l \in SubLetter : TimelyLetter(l) => TimelyLetter(l)',
         NEW n,
         \/ n = m
         \/ \E l \in SubLetter : TimelyLetter(l)' /\ n = Append(m, l)
         \/ m # << >> /\ n = rest(m)
         \/ m # << >> /\ n = Append(rest(m), Exit)
  PROVE  \A i \in 1 .. Len(n) : TimelyLetter(n[i])'
<1>1. \A i \in 1 .. Len(m) : m[i] \in SubLetter /\ TimelyLetter(m[i])'
  BY DEF TimelyIn
<1>2. ASSUME NEW k \in Seq(SubLetter), \A i \in 1 .. Len(k) : TimelyLetter(k[i])',
             NEW l \in SubLetter, TimelyLetter(l)', n = Append(k, l)
      PROVE  \A i \in 1 .. Len(n) : TimelyLetter(n[i])'
  <2>1. /\ Len(k) \in Nat /\ Len(n) = Len(k) + 1
        /\ \A i \in 1 .. Len(k) : n[i] = k[i]
        /\ n[Len(k) + 1] = l
    BY <1>2
  <2> SUFFICES ASSUME NEW i \in 1 .. Len(n) PROVE TimelyLetter(n[i])'
    OBVIOUS
  <2>2. CASE i = Len(k) + 1
    BY <1>2, <2>1, <2>2
  <2>3. CASE i # Len(k) + 1
    <3>1. i \in 1 .. Len(k) /\ n[i] = k[i]
      BY <2>1, <2>3
    <3> QED
      BY <1>2, <3>1
  <2> QED
    BY <2>2, <2>3
<1>3. ASSUME m # << >>
      PROVE  rest(m) \in Seq(SubLetter) /\ \A i \in 1 .. Len(rest(m)) : TimelyLetter(rest(m)[i])'
  <2>1. /\ Len(m) \in Nat \ {0} /\ Len(rest(m)) = Len(m) - 1 /\ rest(m) \in Seq(SubLetter)
        /\ \A i \in 1 .. Len(rest(m)) : rest(m)[i] = m[i + 1]
    BY <1>3 DEF rest
  <2> SUFFICES ASSUME NEW i \in 1 .. Len(rest(m)) PROVE TimelyLetter(rest(m)[i])'
    BY <2>1
  <2>2. i + 1 \in 1 .. Len(m) /\ rest(m)[i] = m[i + 1]
    BY <2>1
  <2> QED
    BY <1>1, <2>2
<1>4. Exit \in SubLetter /\ TimelyLetter(Exit)'
  BY SubLetterType DEF TimelyLetter, Exit
<1> QED
  BY <1>1, <1>2, <1>3, <1>4

\* The step for one subscriber that was and is to be looked at.
LEMMA TimelyTo ==
  ASSUME Typed, Timely, NEW c \in Sub, Active(c), (stage[c] = "idle")' => mailbox'[c] = << >>,
         \A l \in SubLetter : TimelyLetter(l) => TimelyLetter(l)',
         \/ mailbox'[c] = mailbox[c]
         \/ \E l \in SubLetter : TimelyLetter(l)' /\ mailbox'[c] = Append(mailbox[c], l)
         \/ mailbox[c] # << >> /\ mailbox'[c] = rest(mailbox[c])
         \/ mailbox[c] # << >> /\ mailbox'[c] = Append(rest(mailbox[c]), Exit)
  PROVE  TimelyIn(mailbox[c])'
<1>1. mailbox[c] \in Seq(SubLetter) /\ TimelyIn(mailbox[c])
  BY DEF Typed, TypeOK, Timely
<1>2. PICK n : n = mailbox'[c]
  OBVIOUS
<1>3. \A i \in 1 .. Len(n) : TimelyLetter(n[i])'
  BY <1>1, <1>2, TimelyStep
<1> QED
  BY <1>2, <1>3 DEF TimelyIn, TimelyLetter

\* Nobody becomes active again, and an idle subscriber has no mail.
LEMMA TimelyKept ==
  ASSUME Typed, Timely,
         \A c \in Sub : Active(c)' => Active(c),
         \A c \in Sub : (stage[c] = "idle")' => stage[c] = "idle" /\ mailbox'[c] = mailbox[c],
         \A l \in SubLetter : TimelyLetter(l) => TimelyLetter(l)',
         \A c \in Sub : Active(c)' =>
           \/ mailbox'[c] = mailbox[c]
           \/ \E l \in SubLetter : TimelyLetter(l)' /\ mailbox'[c] = Append(mailbox[c], l)
           \/ mailbox[c] # << >> /\ mailbox'[c] = rest(mailbox[c])
           \/ mailbox[c] # << >> /\ mailbox'[c] = Append(rest(mailbox[c]), Exit)
  PROVE  Timely'
<1>1. \A c \in Sub : (stage[c] = "idle")' => mailbox'[c] = << >>
  BY DEF Timely
<1>2. ASSUME NEW c \in Sub, Active(c)' PROVE TimelyIn(mailbox[c])'
  BY <1>1, <1>2, TimelyTo
<1> QED
  BY <1>1, <1>2 DEF Timely, Active

LEMMA LettersStay ==
  ASSUME Typed, UNCHANGED kvs,
         \A u \in Tx : fetch'[u] = "answered" => fetch[u] = "answered",
         \A u \in Tx : error[u] => error'[u]
  PROVE  \A l \in SubLetter : TimelyLetter(l) => TimelyLetter(l)'
  BY DEF TimelyLetter

LEMMA ExitTimely == Exit \in SubLetter /\ TimelyLetter(Exit)'
  BY SubLetterType DEF TimelyLetter, Exit

\* The actor of a transaction tells what it holds, and nothing between the
\* answer and the end of a poll.
LEMMA TxTimely ==
  ASSUME Typed, Timely, NEW u \in Tx, TxMicrotask(u)
  PROVE  Timely'
<1>0. UNCHANGED stage
  BY DEF TxMicrotask, TxStart, TxSubscribe, TxUnsubscribe, TxSnapshot, TxTimeout,
     TxPoll, PollNotFound, PollFails, PollFinds, TxReceives, TxContinuesPoll, subVars
<1>1. /\ kvs \in [Tx -> Level \cup {Empty}] /\ error \in [Tx -> BOOLEAN]
      /\ fetch \in [Tx -> {"none", "pending", "answered"}]
  BY DEF Typed, TypeOK
<1>2. ASSUME UNCHANGED mailbox, \A l \in SubLetter : TimelyLetter(l) => TimelyLetter(l)'
      PROVE  Timely'
  BY <1>0, <1>2, TimelyKept DEF Active
\* One letter is sent to registered subscribers.
<1>3. ASSUME \A l \in SubLetter : TimelyLetter(l) => TimelyLetter(l)',
             NEW x \in SubLetter, TimelyLetter(x)',
             \A c \in Sub : mailbox'[c] = mailbox[c] \/ (Registered(c) /\ mailbox'[c] = Append(mailbox[c], x))
      PROVE  Timely'
  <2>1. \A c \in Sub : stage[c] = "idle" => mailbox'[c] = mailbox[c]
    BY <1>3 DEF Registered
  <2>2. \A c \in Sub : \/ mailbox'[c] = mailbox[c]
                       \/ \E l \in SubLetter : TimelyLetter(l)' /\ mailbox'[c] = Append(mailbox[c], l)
    BY <1>3
  <2> QED
    BY <1>0, <1>3, <2>1, <2>2, TimelyKept DEF Active
<1>4. CASE TxStart(u) \/ TxUnsubscribe(u) \/ TxSnapshot(u)
  <2>1. UNCHANGED <<mailbox, kvs, fetch, error>>
    BY <1>4 DEF TxStart, TxUnsubscribe, TxSnapshot, TxReceives, subVars
  <2> QED
    BY <1>2, <2>1, LettersStay
<1>5. CASE TxPoll(u) \/ PollNotFound(u)
  <2>1. /\ UNCHANGED <<mailbox, kvs, error>>
        /\ fetch' = [fetch EXCEPT ![u] = "pending"] \/ fetch' = [fetch EXCEPT ![u] = "none"]
    BY <1>5 DEF TxPoll, PollNotFound, TxReceives, TxContinuesPoll
  <2>2. \A w \in Tx : fetch'[w] = "answered" => fetch[w] = "answered"
    BY <1>1, <2>1
  <2> QED
    BY <1>2, <2>1, <2>2, LettersStay
<1>6. CASE TxSubscribe(u)
  <2> DEFINE a == receive(inbox[u]).from
             x == Updated(u, kvs[u])
  <2>1. UNCHANGED <<kvs, fetch, error>> /\ fetch[u] = "none" /\ PostSubs(Holders(a), x)
    BY <1>6 DEF TxSubscribe, TxReceives
  <2>2. x \in SubLetter
    BY <1>1, SubLetterType
  <2>3. TimelyLetter(x)'
    BY <2>1 DEF TimelyLetter, Updated
  <2>4. \A c \in Sub : mailbox'[c] = mailbox[c] \/ (Registered(c) /\ mailbox'[c] = Append(mailbox[c], x))
    BY <2>1, HoldersReached
  <2>5. \A l \in SubLetter : TimelyLetter(l) => TimelyLetter(l)'
    BY <2>1, LettersStay
  <2>6. PICK y \in SubLetter : y = x
    BY <2>2
  <2>7. TimelyLetter(y)'
    BY <2>1, <2>6 DEF TimelyLetter, Updated
  <2> QED
    BY <1>3, <2>4, <2>5, <2>6, <2>7
<1>7. ASSUME UNCHANGED kvs, error' = [error EXCEPT ![u] = TRUE], Broadcast(u, Undefined),
             \A w \in Tx : fetch'[w] = "answered" => fetch[w] = "answered",
             fetch'[u] # "answered"
      PROVE  Timely'
  <2>1. PICK y \in SubLetter : y = Updated(u, Undefined)
    BY SubLetterType
  <2>2. error'[u]
    BY <1>1, <1>7
  <2>3. TimelyLetter(y)'
    BY <1>7, <2>1, <2>2 DEF TimelyLetter, Updated
  <2>4. \A c \in Sub : mailbox'[c] = mailbox[c] \/ (Registered(c) /\ mailbox'[c] = Append(mailbox[c], y))
    BY <1>7, <2>1, BroadcastReaches
  <2>5. \A l \in SubLetter : TimelyLetter(l) => TimelyLetter(l)'
    BY <1>1, <1>7, LettersStay
  <2> QED
    BY <1>3, <2>3, <2>4, <2>5
<1>8. CASE TxTimeout(u)
  <2>1. UNCHANGED <<kvs, fetch>> /\ fetch[u] = "none"
    BY <1>8 DEF TxTimeout, TxReceives
  <2>2. CASE kvs[u] = Empty
    BY <1>7, <1>8, <2>1, <2>2 DEF TxTimeout
  <2>3. CASE kvs[u] # Empty
    BY <1>2, <1>8, <2>1, <2>3, LettersStay DEF TxTimeout
  <2> QED
    BY <2>2, <2>3
<1>9. CASE PollFails(u)
  <2>1. /\ UNCHANGED kvs /\ error' = [error EXCEPT ![u] = TRUE] /\ Broadcast(u, Undefined)
        /\ fetch' = [fetch EXCEPT ![u] = "none"]
    BY <1>9 DEF PollFails, TxContinuesPoll
  <2> QED
    BY <1>1, <1>7, <2>1
<1>10. CASE PollFinds(u)
  <2>1. /\ UNCHANGED error /\ fetch[u] = "answered" /\ fetch' = [fetch EXCEPT ![u] = "none"]
        /\ kvs' = [kvs EXCEPT ![u] = answer[u]] /\ answer[u] \in Level
        /\ IF kvs[u] # answer[u] THEN Broadcast(u, answer[u]) ELSE UNCHANGED mailbox
    BY <1>10 DEF PollFinds, TxContinuesPoll
  <2>2. \A l \in SubLetter : TimelyLetter(l) => TimelyLetter(l)'
    BY <1>1, <2>1 DEF TimelyLetter
  <2>3. PICK y \in SubLetter : y = Updated(u, answer[u])
    BY <2>1, SubLetterType
  <2>4. fetch'[u] = "none" /\ kvs'[u] = answer[u]
    BY <1>1, <2>1
  <2>5. TimelyLetter(y)'
    BY <2>3, <2>4 DEF TimelyLetter, Updated
  <2>6. CASE Broadcast(u, answer[u])
    <3>1. \A c \in Sub : mailbox'[c] = mailbox[c] \/ (Registered(c) /\ mailbox'[c] = Append(mailbox[c], y))
      BY <2>3, <2>6, BroadcastReaches
    <3> QED
      BY <1>3, <2>2, <2>5, <3>1
  <2>7. CASE UNCHANGED mailbox
    BY <1>2, <2>2, <2>7
  <2> QED
    BY <2>1, <2>6, <2>7
<1> QED
  BY <1>4, <1>5, <1>6, <1>8, <1>9, <1>10 DEF TxMicrotask

\* An answer arrives when no active subscriber has mail.
LEMMA MacroTimely ==
  ASSUME Typed, Timely, NEW u \in Tx, Macrotask(u)
  PROVE  Timely'
<1>0. UNCHANGED <<stage, mailbox>>
  BY DEF Macrotask, AccessNodeAnswers, PollTimerFires, DeadlineFires, subVars
<1>1. CASE AccessNodeAnswers(u)
  <2>1. \A c \in Sub : Active(c) => mailbox[c] = << >>
    BY <1>1 DEF AccessNodeAnswers, MicrotasksDrained, SubRunnable, Active, Timely
  <2>2. Len(<< >>) = 0 /\ 1 .. 0 = {}
    OBVIOUS
  <2> QED
    BY <1>0, <2>1, <2>2 DEF Timely, TimelyIn, Active
<1>2. CASE PollTimerFires(u) \/ DeadlineFires(u)
  <2>1. UNCHANGED <<kvs, fetch, error>>
    BY <1>2 DEF PollTimerFires, DeadlineFires
  <2> QED
    BY <1>0, <2>1, LettersStay, TimelyKept DEF Active
<1> QED
  BY <1>1, <1>2 DEF Macrotask

\* The program and the subscribers post EXITs and take letters.
LEMMA OtherTimely ==
  ASSUME Typed, Timely,
         Program \/ Environment \/ (\E c \in Sub : SubMicrotask(c)) \/ UNCHANGED vars
  PROVE  Timely'
<1>1. ASSUME UNCHANGED <<kvs, fetch, error>>,
             \A c \in Sub : Active(c)' => Active(c),
             \A c \in Sub : (stage[c] = "idle")' => stage[c] = "idle" /\ mailbox'[c] = mailbox[c],
             \A c \in Sub : Active(c)' =>
               \/ mailbox'[c] = mailbox[c]
               \/ mailbox'[c] = Append(mailbox[c], Exit)
               \/ mailbox[c] # << >> /\ mailbox'[c] \in {rest(mailbox[c]), Append(rest(mailbox[c]), Exit)}
      PROVE  Timely'
  <2>1. \A l \in SubLetter : TimelyLetter(l) => TimelyLetter(l)'
    BY <1>1, LettersStay
  <2> QED
    BY <1>1, <2>1, ExitTimely, TimelyKept
<1>2. ASSUME NEW c \in Sub, NEW u \in Tx, Subscribe(c, u) PROVE Timely'
  <2>1. UNCHANGED <<kvs, fetch, error, mailbox>> /\ stage[c] = "idle" /\ stage' = [stage EXCEPT ![c] = "spawned"]
    BY <1>2 DEF Subscribe
  <2> QED
    BY <1>1, <2>1 DEF Active, Typed, TypeOK
<1>3. ASSUME NEW c \in Sub, Unsubscribe(c) PROVE Timely'
  <2>1. UNCHANGED <<kvs, fetch, error, stage>>
    BY <1>3 DEF Unsubscribe, txVars
  <2>2. \A d \in Sub : mailbox'[d] = mailbox[d] \/ (Registered(d) /\ mailbox'[d] = Append(mailbox[d], Exit))
    BY <1>3, HoldersReached DEF Unsubscribe
  <2> QED
    BY <1>1, <2>1, <2>2 DEF Active, Registered
<1>4. ASSUME UNCHANGED <<kvs, fetch, error, stage, mailbox>> PROVE Timely'
  BY <1>1, <1>4 DEF Active
<1>5. ASSUME NEW u \in Tx, Snapshot(u) PROVE Timely'
  BY <1>4, <1>5 DEF Snapshot, subVars
<1>6. CASE Environment
  BY <1>4, <1>6 DEF Environment, LedgerAdvances, txVars, subVars
<1>7. CASE UNCHANGED vars
  BY <1>4, <1>7 DEF vars, txVars, subVars
<1>8. ASSUME NEW c \in Sub, SubMicrotask(c) PROVE Timely'
  <2>1. CASE SubStart(c)
    BY <1>1, <2>1 DEF SubStart, Active, Typed, TypeOK
  <2>2. CASE SubKill(c)
    BY <1>1, <2>2 DEF SubKill, Active, Typed, TypeOK, txVars
  <2>3. ASSUME SubReceives(c), UNCHANGED stage \/ SubEnds(c) \/ SubCrashes(c),
               \/ mailbox' = [mailbox EXCEPT ![c] = rest(@)]
               \/ mailbox' = [mailbox EXCEPT ![c] = Append(rest(@), Exit)]
        PROVE  Timely'
    <3>1. stage[c] = "waiting" /\ mailbox[c] # << >> /\ UNCHANGED <<kvs, fetch, error>>
      BY <2>3 DEF SubReceives
    <3>2. \A d \in Sub : (Active(d)' => Active(d)) /\ ((stage[d] = "idle")' => stage[d] = "idle" /\ d # c)
      BY <2>3, <3>1 DEF SubEnds, SubCrashes, Active, Typed, TypeOK
    <3>3. \A d \in Sub : d # c => mailbox'[d] = mailbox[d]
      BY <2>3 DEF Typed, TypeOK
    <3>4. mailbox'[c] \in {rest(mailbox[c]), Append(rest(mailbox[c]), Exit)}
      BY <2>3 DEF Typed, TypeOK
    <3> QED
      BY <1>1, <3>1, <3>2, <3>3, <3>4
  <2>4. CASE SubExits(c)
    BY <2>3, <2>4 DEF SubExits
  <2>5. CASE SubFails(c)
    BY <2>3, <2>5 DEF SubFails
  <2>6. CASE SubCallsPlain(c)
    BY <2>3, <2>6 DEF SubCallsPlain, SubCalls
  <2>7. CASE SubCallsOnce(c)
    BY <2>3, <2>7 DEF SubCallsOnce, SubCalls, SettlesAndUnsubscribes
  <2> QED
    BY <1>8, <2>1, <2>2, <2>4, <2>5, <2>6, <2>7 DEF SubMicrotask
<1> QED
  BY <1>2, <1>3, <1>5, <1>6, <1>7, <1>8 DEF Program

LEMMA StepTimely == Typed /\ Timely /\ [Next]_vars => Timely'
  BY TxTimely, MacroTimely, OtherTimely DEF Next

-----------------------------------------------------------------------------
(* The promises, and what the subscribers are promised.                     *)

\* The promise of a once* call exists from the call on, and no other has one;
\* an error is the last thing a callback hears.
PromisedTo(c) ==
  /\ stage[c] = "idle" => promise[c] = "none"
  /\ c \notin Once => promise[c] = "none"
  /\ c \in Once /\ stage[c] = "spawned" => promise[c] = "pending"
  /\ Active(c) => seen[c].level # Error

Promised == \A c \in Sub : PromisedTo(c)

LEMMA InitPromised == Init => Promised
  BY DEF Init, Promised, PromisedTo, Error, Uncalled

LEMMA SettleOnly ==
  ASSUME Typed, NEW c \in Sub, NEW outcome, Settle(c, outcome)
  PROVE  /\ promise'[c] = IF promise[c] = "pending" THEN outcome ELSE promise[c]
         /\ \A d \in Sub : d # c => promise'[d] = promise[d]
  BY DEF Settle, Typed, TypeOK

LEMMA StepPromised ==
  ASSUME Typed, Timely, Promised, [Next]_vars
  PROVE  Promised'
<1> SUFFICES ASSUME NEW c \in Sub PROVE PromisedTo(c)'
  BY DEF Promised
<1>0. PromisedTo(c)
  BY DEF Promised
<1>1. ASSUME stage'[c] = stage[c], seen'[c] = seen[c], promise'[c] = promise[c]
      PROVE  PromisedTo(c)'
  BY <1>0, <1>1 DEF PromisedTo, Active
<1>2. ASSUME UNCHANGED <<stage, seen, promise>> PROVE PromisedTo(c)'
  BY <1>1, <1>2
<1>3. ASSUME NEW d \in Sub, NEW u \in Tx, Subscribe(d, u) PROVE PromisedTo(c)'
  <2>1. /\ stage[d] = "idle" /\ stage' = [stage EXCEPT ![d] = "spawned"] /\ UNCHANGED seen
        /\ promise' = [promise EXCEPT ![d] = IF d \in Once THEN "pending" ELSE @]
    BY <1>3 DEF Subscribe
  <2>2. CASE c = d
    BY <1>0, <2>1, <2>2 DEF PromisedTo, Active, Typed, TypeOK
  <2>3. CASE c # d
    BY <1>1, <2>1, <2>3 DEF Typed, TypeOK
  <2> QED
    BY <2>2, <2>3
<1>4. ASSUME NEW d \in Sub, Unsubscribe(d) PROVE PromisedTo(c)'
  BY <1>2, <1>4 DEF Unsubscribe
<1>5. ASSUME NEW u \in Tx, Snapshot(u) PROVE PromisedTo(c)'
  BY <1>2, <1>5 DEF Snapshot, subVars
<1>6. CASE Environment
  BY <1>2, <1>6 DEF Environment, LedgerAdvances, subVars
<1>7. ASSUME NEW u \in Tx, TxMicrotask(u) PROVE PromisedTo(c)'
  BY <1>2, <1>7 DEF TxMicrotask, TxStart, TxSubscribe, TxUnsubscribe, TxSnapshot, TxTimeout,
     TxPoll, PollNotFound, PollFails, PollFinds, TxReceives, TxContinuesPoll, subVars
<1>8. ASSUME NEW u \in Tx, Macrotask(u) PROVE PromisedTo(c)'
  BY <1>2, <1>8 DEF Macrotask, AccessNodeAnswers, PollTimerFires, DeadlineFires, subVars
<1>9. ASSUME NEW d \in Sub, SubMicrotask(d) PROVE PromisedTo(c)'
  <2>1. CASE SubStart(d)
    BY <1>0, <2>1 DEF SubStart, PromisedTo, Active, Typed, TypeOK
  <2>2. CASE SubKill(d)
    BY <1>0, <2>2 DEF SubKill, PromisedTo, Active, Typed, TypeOK
  <2>3. ASSUME stage[d] = "waiting", NEW after, after \in {"ended", "crashed"},
               stage' = [stage EXCEPT ![d] = after],
               \A x \in Sub : x # d => seen'[x] = seen[x] /\ promise'[x] = promise[x],
               d \notin Once => promise'[d] = promise[d]
        PROVE  PromisedTo(c)'
    <3>1. CASE c = d
      BY <1>0, <2>3, <3>1 DEF PromisedTo, Active, Typed, TypeOK
    <3>2. CASE c # d
      BY <1>1, <2>3, <3>2 DEF Typed, TypeOK
    <3> QED
      BY <3>1, <3>2
  <2>4. ASSUME stage[d] = "waiting", SubEnds(d) \/ SubCrashes(d),
               \A x \in Sub : x # d => seen'[x] = seen[x] /\ promise'[x] = promise[x],
               d \notin Once => promise'[d] = promise[d]
        PROVE  PromisedTo(c)'
    BY <2>3, <2>4 DEF SubEnds, SubCrashes
  <2>5. CASE SubExits(d)
    BY <2>4, <2>5 DEF SubExits, SubReceives
  <2>6. CASE SubFails(d)
    <3>1. /\ stage[d] = "waiting" /\ (SubEnds(d) \/ SubCrashes(d))
          /\ seen' = [seen EXCEPT ![d] = [from |-> target[d], level |-> Error]]
          /\ (d \in Once \ Suppress /\ Settle(d, "rejected")) \/ UNCHANGED promise
      BY <2>6 DEF SubFails, SubReceives
    <3>2. \A x \in Sub : x # d => seen'[x] = seen[x]
      BY <3>1 DEF Typed, TypeOK
    <3>3. \A x \in Sub : x # d => promise'[x] = promise[x]
      BY <3>1, SettleOnly
    <3> QED
      BY <2>4, <3>1, <3>2, <3>3
  <2>7. ASSUME SubCalls(d, receive(mailbox[d]))
        PROVE  /\ stage[d] = "waiting" /\ mailbox[d] # << >>
               /\ \A x \in Sub : x # d => seen'[x] = seen[x]
               /\ seen'[d].level # Error
    <3>1. /\ stage[d] = "waiting" /\ mailbox[d] # << >> /\ mailbox[d] \in Seq(SubLetter)
          /\ seen' = [seen EXCEPT ![d] = [from |-> receive(mailbox[d]).from, level |-> receive(mailbox[d]).data]]
      BY <2>7 DEF SubCalls, SubReceives, Typed, TypeOK
    <3>2. receive(mailbox[d]).data \in Level \cup {Empty, Undefined}
      <4>1. receive(mailbox[d]) \in SubLetter
        BY <3>1 DEF receive
      <4> QED
        BY <4>1 DEF SubLetter
    <3>3. receive(mailbox[d]).data # Error
      BY <3>2 DEF Level, Empty, Undefined, Error
    <3> QED
      BY <3>1, <3>3 DEF Typed, TypeOK
  <2>8. ASSUME SubCalls(d, receive(mailbox[d])), UNCHANGED stage,
               \A x \in Sub : x # d => promise'[x] = promise[x],
               d \notin Once => promise'[d] = promise[d]
        PROVE  PromisedTo(c)'
    <3>1. CASE c = d
      BY <1>0, <2>7, <2>8, <3>1 DEF PromisedTo, Active
    <3>2. CASE c # d
      BY <1>1, <2>7, <2>8, <3>2
    <3> QED
      BY <3>1, <3>2
  <2>9. CASE SubCallsPlain(d)
    BY <2>4, <2>7, <2>8, <2>9 DEF SubCallsPlain
  <2>10. CASE SubCallsOnce(d)
    <3>1. /\ d \in Once /\ SubCalls(d, receive(mailbox[d]))
          /\ \/ SubCrashes(d) /\ UNCHANGED promise
             \/ \E outcome : Settle(d, outcome) /\ UNCHANGED stage
             \/ UNCHANGED <<stage, promise>>
      BY <2>10 DEF SubCallsOnce, SettlesAndUnsubscribes
    <3>2. \A x \in Sub : x # d => promise'[x] = promise[x]
      BY <3>1, SettleOnly
    <3> QED
      BY <2>4, <2>7, <2>8, <3>1, <3>2
  <2> QED
    BY <1>9, <2>1, <2>2, <2>5, <2>6, <2>9, <2>10 DEF SubMicrotask
<1>10. CASE UNCHANGED vars
  BY <1>2, <1>10 DEF vars, subVars
<1> QED
  BY <1>3, <1>4, <1>5, <1>6, <1>7, <1>8, <1>9, <1>10 DEF Next, Program

\* What goes to a callback is what the transaction holds at that moment.
LEMMA CalledWithStatus ==
  ASSUME OneTx, Typed, Timely, NEW c \in Sub, SubCalls(c, receive(mailbox[c]))
  PROVE  /\ receive(mailbox[c]).from = target[c]
         /\ receive(mailbox[c]).data = kvs[target[c]]
         /\ receive(mailbox[c]).data # Undefined
         /\ target[c] \in Tx
<1>1. /\ stage[c] = "waiting" /\ mailbox[c] # << >> /\ receive(mailbox[c]).tag = "UPDATED"
      /\ ~ error[target[c]] /\ mailbox[c] \in Seq(SubLetter)
      /\ target[c] \in Tx /\ kvs[target[c]] \in Level \cup {Empty}
  BY DEF SubCalls, SubReceives, Typed, TypeOK, Opened
<1>2. 1 \in 1 .. Len(mailbox[c]) /\ mailbox[c][1] = receive(mailbox[c])
  BY <1>1 DEF receive
<1>3. TimelyLetter(receive(mailbox[c]))
  BY <1>1, <1>2 DEF Timely, TimelyIn, Active
<1>4. receive(mailbox[c]).from = target[c]
  BY <1>1, <1>3 DEF TimelyLetter, OneTx
<1> QED
  BY <1>1, <1>3, <1>4 DEF TimelyLetter, Level, Empty, Undefined

ResolvesOwn ==
  \A c \in Once : promise[c] # "resolved" /\ promise'[c] = "resolved" =>
    /\ kvs[target[c]] >= Goal[c]
    /\ statusCode(target[c], kvs[target[c]]) = 0 \/ c \in Suppress

LEMMA StepResolvesOwn ==
  ASSUME OneTx, Typed, Timely, [Next]_vars
  PROVE  ResolvesOwn
<1> SUFFICES ASSUME NEW c \in Once, promise[c] # "resolved", promise'[c] = "resolved"
             PROVE  /\ kvs[target[c]] >= Goal[c]
                    /\ statusCode(target[c], kvs[target[c]]) = 0 \/ c \in Suppress
  BY DEF ResolvesOwn
<1>0. c \in Sub
  BY ConstantsAssumption
<1>1. SubMicrotask(c)
  <2>1. ~ UNCHANGED promise
    OBVIOUS
  <2>2. ~ Program
    BY <1>0, <2>1 DEF Program, Subscribe, Unsubscribe, Snapshot, subVars, Typed, TypeOK
  <2>3. ~ Environment
    BY <2>1 DEF Environment, LedgerAdvances, subVars
  <2>4. \A u \in Tx : ~ TxMicrotask(u)
    BY <2>1 DEF TxMicrotask, TxStart, TxSubscribe, TxUnsubscribe, TxSnapshot, TxTimeout,
       TxPoll, PollNotFound, PollFails, PollFinds, TxReceives, TxContinuesPoll, subVars
  <2>5. \A u \in Tx : ~ Macrotask(u)
    BY <2>1 DEF Macrotask, AccessNodeAnswers, PollTimerFires, DeadlineFires, subVars
  <2>6. ASSUME NEW d \in Sub, d # c, SubMicrotask(d) PROVE promise'[c] = promise[c]
    <3>1. UNCHANGED promise \/ \E outcome : Settle(d, outcome)
      BY <2>6 DEF SubMicrotask, SubStart, SubKill, SubExits, SubFails, SubCallsPlain,
         SubCallsOnce, SettlesAndUnsubscribes
    <3> QED
      BY <1>0, <2>6, <3>1, SettleOnly
  <2> QED
    BY <2>1, <2>2, <2>3, <2>4, <2>5, <2>6 DEF Next, vars, subVars
<1>2. SubCallsOnce(c)
  <2>1. CASE SubFails(c)
    <3>1. Settle(c, "rejected") \/ UNCHANGED promise
      BY <2>1 DEF SubFails
    <3> QED
      BY <1>0, <3>1, SettleOnly
  <2> QED
    BY <1>1, <2>1 DEF SubMicrotask, SubStart, SubKill, SubExits, SubCallsPlain
<1> DEFINE letter   == receive(mailbox[c])
           rejects  == statusCode(letter.from, letter.data) = 1 /\ c \notin Suppress
           resolves == ~ rejects /\ letter.data >= Goal[c]
<1>3. SubCalls(c, letter)
  BY <1>2 DEF SubCallsOnce
<1>4. resolves
  <2>1. \/ UNCHANGED promise
        \/ Settle(c, "rejected")
        \/ resolves
    BY <1>2 DEF SubCallsOnce, SettlesAndUnsubscribes
  <2> QED
    BY <1>0, <2>1, SettleOnly
<1>5. letter.from = target[c] /\ letter.data = kvs[target[c]]
  BY <1>0, <1>3, CalledWithStatus
<1> QED
  BY <1>4, <1>5 DEF statusCode

\* A once* promise is resolved only by its own transaction having the status,
\* and not by a failed execution it is to be rejected with (with one transaction;
\* the run TxCrossTalk shows what a second one does).
THEOREM OncePromisesResolveOwn ==
  ASSUME OneTx
  PROVE  Spec => OnceResolvesOwn
<1>1. Typed /\ Timely /\ [Next]_vars => [ResolvesOwn]_vars
  BY StepResolvesOwn
<1>2. ResolvesOwn <=> \A c \in Once : promise[c] # "resolved" /\ promise'[c] = "resolved" =>
         /\ kvs[target[c]] >= Goal[c]
         /\ statusCode(target[c], kvs[target[c]]) = 0 \/ c \in Suppress
  BY DEF ResolvesOwn
<1> QED
  BY <1>1, <1>2, InitTyped, InitTimely, StepTyped, StepTimely, PTL DEF Spec, OnceResolvesOwn

-----------------------------------------------------------------------------
(* The actor of one transaction implements StatusFeed.                      *)

LEMMA OneIsTheTx ==
  ASSUME OneTx
  PROVE  TheTx \in Tx /\ \A t \in Tx : t = TheTx
  BY DEF OneTx, TheTx

LEMMA PhaseIs ==
  ASSUME NEW c \in Sub
  PROVE  /\ stage[c] \in {"idle", "spawned"} => Phase(c) = "unopened"
         /\ stage[c] = "waiting" => Phase(c) = "open"
         /\ stage[c] \notin {"idle", "spawned", "waiting"} => Phase(c) = "closed"
  BY DEF Phase

LEMMA PhaseIsNext ==
  ASSUME NEW c \in Sub
  PROVE  /\ stage'[c] \in {"idle", "spawned"} => Phase(c)' = "unopened"
         /\ stage'[c] = "waiting" => Phase(c)' = "open"
         /\ stage'[c] \notin {"idle", "spawned", "waiting"} => Phase(c)' = "closed"
  BY DEF Phase

Phases == [c \in Sub |-> Phase(c)]
Told   == [c \in Sub |-> seen[c].level]

LEMMA InitFeed == ASSUME OneTx, Init PROVE Feed!Init
<1>1. kvs[TheTx] = Empty
  BY OneIsTheTx DEF Init
<1>2. \A c \in Sub : Phase(c) = "unopened" /\ seen[c].level = Uncalled
  BY PhaseIs DEF Init
<1>3. Phases = [c \in Sub |-> "unopened"] /\ Told = [c \in Sub |-> Uncalled]
  BY <1>2 DEF Phases, Told
<1> QED
  BY <1>1, <1>3 DEF Init, Feed!Init, Feed!Empty, Feed!Uncalled, Empty, Uncalled, Phases, Told

\* What a step of one subscriber changes of the mapped state.
LEMMA OnlyOneMoves ==
  ASSUME Typed, NEW c \in Sub, \A d \in Sub : d # c => stage'[d] = stage[d] /\ seen'[d] = seen[d]
  PROVE  /\ Phases' = [Phases EXCEPT ![c] = Phase(c)']
         /\ Told' = [Told EXCEPT ![c] = seen'[c].level]
<1>1. \A d \in Sub : d # c => Phase(d)' = Phase(d)
  BY DEF Phase
<1> QED
  BY <1>1 DEF Phases, Told

LEMMA FeedStutter ==
  ASSUME OneTx, Typed, kvs'[TheTx] = kvs[TheTx], UNCHANGED <<seen, promise>>,
         \A c \in Sub : Phase(c)' = Phase(c)
  PROVE  UNCHANGED Feed!vars
<1>1. Phases' = Phases /\ Told' = Told
  BY DEF Phases, Told
<1> QED
  BY <1>1 DEF Feed!vars, Phases, Told

\* The program: a once* promise awaits; nothing else of it shows.
LEMMA ProgramFeed ==
  ASSUME OneTx, Typed, Timely, Promised, Program
  PROVE  [Feed!Next]_(Feed!vars)
<1>1. UNCHANGED <<kvs, seen>>
  BY DEF Program, Subscribe, Unsubscribe, Snapshot, txVars, subVars
<1>2. ASSUME UNCHANGED <<stage, promise>> PROVE UNCHANGED Feed!vars
  BY <1>1, <1>2, FeedStutter DEF Phase
<1>3. ASSUME NEW c \in Sub, NEW t \in Tx, Subscribe(c, t) PROVE [Feed!Next]_(Feed!vars)
  <2>1. /\ stage[c] = "idle" /\ stage' = [stage EXCEPT ![c] = "spawned"]
        /\ promise' = [promise EXCEPT ![c] = IF c \in Once THEN "pending" ELSE @]
    BY <1>3 DEF Subscribe
  <2>2. \A d \in Sub : Phase(d)' = Phase(d)
    BY <2>1, PhaseIs, PhaseIsNext DEF Typed, TypeOK, Phase
  <2>3. Phases' = Phases /\ Told' = Told
    BY <1>1, <2>2 DEF Phases, Told
  <2>4. CASE c \in Once
    <3>1. promise[c] = "none" /\ Phases[c] = "unopened"
      BY <2>1, PhaseIs DEF Promised, PromisedTo, Phases
    <3>2. Feed!Await(c)
      BY <1>1, <2>1, <2>3, <2>4, <3>1 DEF Feed!Await, Phases, Told
    <3> QED
      BY <3>2 DEF Feed!Next
  <2>5. CASE c \notin Once
    <3>1. UNCHANGED promise
      BY <2>1, <2>5 DEF Typed, TypeOK
    <3> QED
      BY <1>1, <2>2, <3>1, FeedStutter
  <2> QED
    BY <2>4, <2>5
<1>4. ASSUME NEW c \in Sub, Unsubscribe(c) PROVE UNCHANGED Feed!vars
  BY <1>2, <1>4 DEF Unsubscribe
<1>5. ASSUME NEW t \in Tx, Snapshot(t) PROVE UNCHANGED Feed!vars
  BY <1>2, <1>5 DEF Snapshot, subVars
<1> QED
  BY <1>3, <1>4, <1>5 DEF Program

\* The actor of the transaction: a poll that finds another status learns it.
LEMMA TxFeed ==
  ASSUME OneTx, Typed, Rising, NEW u \in Tx, TxMicrotask(u)
  PROVE  [Feed!Next]_(Feed!vars)
<1>1. UNCHANGED <<stage, seen, promise>>
  BY DEF TxMicrotask, TxStart, TxSubscribe, TxUnsubscribe, TxSnapshot, TxTimeout,
     TxPoll, PollNotFound, PollFails, PollFinds, TxReceives, TxContinuesPoll, subVars
<1>2. Phases' = Phases /\ Told' = Told
  BY <1>1 DEF Phases, Told, Phase
<1>3. CASE UNCHANGED kvs
  BY <1>1, <1>3, FeedStutter DEF Phase
<1>4. CASE PollFinds(u)
  <2>1. u = TheTx /\ kvs[u] \in Level \cup {Empty}
    BY OneIsTheTx DEF Typed, TypeOK
  <2>2. kvs'[u] = answer[u] /\ answer[u] \in Level /\ fetch[u] = "answered"
    BY <1>4 DEF PollFinds, TxContinuesPoll, Typed, TypeOK
  <2>3. kvs[u] <= answer[u]
    BY <2>2 DEF Rising, RisingOf
  <2>4. CASE answer[u] = kvs[u]
    BY <1>1, <2>1, <2>2, <2>4, FeedStutter DEF Phase
  <2>5. CASE answer[u] # kvs[u]
    <3>1. kvs'[u] \in kvs[u] + 1 .. 5
      BY <2>1, <2>2, <2>3, <2>5 DEF Level, Empty
    <3>2. Feed!Learn
      BY <1>1, <1>2, <2>1, <3>1 DEF Feed!Learn, Phases, Told
    <3> QED
      BY <3>2 DEF Feed!Next
  <2> QED
    BY <2>4, <2>5
<1> QED
  BY <1>3, <1>4 DEF TxMicrotask, TxStart, TxSubscribe, TxUnsubscribe, TxSnapshot, TxTimeout,
     TxPoll, PollNotFound, PollFails, TxReceives, TxContinuesPoll

\* The subscribers open, are told or fail, and close.
LEMMA SubFeed ==
  ASSUME OneTx, Typed, Timely, Promised, NEW c \in Sub, SubMicrotask(c)
  PROVE  [Feed!Next]_(Feed!vars)
<1>0. UNCHANGED kvs
  BY DEF SubMicrotask, SubStart, SubKill, SubExits, SubFails, SubCallsPlain, SubCallsOnce,
     SubCalls, SubReceives, txVars
<1>1. PromisedTo(c) /\ Phases[c] = Phase(c) /\ Told[c] = seen[c].level
  BY DEF Promised, Phases, Told
<1>2. CASE SubStart(c)
  <2>1. stage[c] = "spawned" /\ stage' = [stage EXCEPT ![c] = "waiting"] /\ UNCHANGED <<seen, promise>>
    BY <1>2 DEF SubStart
  <2>2. stage'[c] = "waiting" /\ \A d \in Sub : d # c => stage'[d] = stage[d] /\ seen'[d] = seen[d]
    BY <2>1 DEF Typed, TypeOK
  <2>3. Phases' = [Phases EXCEPT ![c] = "open"] /\ Told' = Told
    BY <2>1, <2>2, OnlyOneMoves, PhaseIsNext DEF Told
  <2>4. Phases[c] = "unopened" /\ (c \in Once => promise[c] = "pending")
    BY <1>1, <2>1, PhaseIs DEF PromisedTo
  <2>5. Feed!Open(c)
    BY <1>0, <2>1, <2>3, <2>4 DEF Feed!Open, Phases, Told
  <2> QED
    BY <2>5 DEF Feed!Next
<1>3. CASE SubKill(c)
  <2>1. /\ stage[c] = "ended" /\ stage' = [stage EXCEPT ![c] = "killed"] /\ UNCHANGED <<seen, promise>>
    BY <1>3 DEF SubKill
  <2>2. \A d \in Sub : Phase(d)' = Phase(d)
    BY <2>1 DEF Phase, Typed, TypeOK
  <2> QED
    BY <1>0, <2>1, <2>2, FeedStutter
\* The end of a subscriber, or its crash.
<1>4. ASSUME stage[c] = "waiting", SubEnds(c) \/ SubCrashes(c), \A d \in Sub : d # c => seen'[d] = seen[d]
      PROVE  /\ Phases[c] = "open" /\ Phases' = [Phases EXCEPT ![c] = "closed"]
             /\ Told' = [Told EXCEPT ![c] = seen'[c].level]
  <2>1. stage'[c] \in {"ended", "crashed"} /\ \A d \in Sub : d # c => stage'[d] = stage[d]
    BY <1>4 DEF SubEnds, SubCrashes, Typed, TypeOK
  <2>2. Phase(c)' = "closed" /\ Phase(c) = "open"
    BY <1>4, <2>1, PhaseIs, PhaseIsNext
  <2> QED
    BY <1>1, <1>4, <2>1, <2>2, OnlyOneMoves
<1>5. CASE SubExits(c)
  <2>1. stage[c] = "waiting" /\ SubEnds(c) /\ UNCHANGED <<seen, promise>>
    BY <1>5 DEF SubExits, SubReceives
  <2>2. Phases[c] = "open" /\ Phases' = [Phases EXCEPT ![c] = "closed"] /\ Told' = Told
    BY <1>4, <2>1 DEF Told
  <2>3. Feed!Close(c)
    BY <1>0, <2>1, <2>2 DEF Feed!Close, Phases, Told
  <2> QED
    BY <2>3 DEF Feed!Next
<1>6. CASE SubFails(c)
  <2>1. /\ stage[c] = "waiting" /\ (SubEnds(c) \/ SubCrashes(c))
        /\ seen' = [seen EXCEPT ![c] = [from |-> target[c], level |-> Error]]
        /\ Settle(c, "rejected") \/ UNCHANGED promise
    BY <1>6 DEF SubFails, SubReceives
  <2>2. seen'[c].level = Error /\ \A d \in Sub : d # c => seen'[d] = seen[d]
    BY <2>1 DEF Typed, TypeOK
  <2>3. /\ Phases[c] = "open" /\ Phases' = [Phases EXCEPT ![c] = "closed"]
        /\ Told' = [Told EXCEPT ![c] = Error]
    BY <1>4, <2>1, <2>2
  <2>4. promise' \in {promise, [promise EXCEPT ![c] = IF @ = "pending" THEN "rejected" ELSE @]}
    BY <2>1 DEF Settle
  <2>5. Feed!Fail(c)
    BY <1>0, <2>3, <2>4 DEF Feed!Fail, Phases, Told, Feed!Error, Error
  <2> QED
    BY <2>5 DEF Feed!Next
\* A call is told what is known.
<1>7. ASSUME SubCalls(c, receive(mailbox[c])), UNCHANGED stage \/ SubCrashes(c)
      PROVE  /\ Phases[c] = "open" /\ Told[c] # Error
             /\ Phases' \in {Phases, [Phases EXCEPT ![c] = "closed"]}
             /\ Told' = [Told EXCEPT ![c] = kvs[TheTx]]
             /\ receive(mailbox[c]).data = kvs[TheTx] /\ kvs[TheTx] # Undefined
             /\ receive(mailbox[c]).from = TheTx
  <2>1. /\ stage[c] = "waiting"
        /\ seen' = [seen EXCEPT ![c] = [from |-> receive(mailbox[c]).from, level |-> receive(mailbox[c]).data]]
    BY <1>7 DEF SubCalls, SubReceives
  <2>2. /\ receive(mailbox[c]).data = kvs[TheTx] /\ kvs[TheTx] # Undefined
        /\ receive(mailbox[c]).from = TheTx
    BY <1>7, CalledWithStatus, OneIsTheTx
  <2>3. seen'[c].level = kvs[TheTx] /\ \A d \in Sub : d # c => seen'[d] = seen[d]
    BY <2>1, <2>2 DEF Typed, TypeOK
  <2>4. Told[c] # Error /\ Phases[c] = "open"
    BY <1>1, <2>1, PhaseIs DEF PromisedTo, Active
  <2>5. CASE UNCHANGED stage
    <3>1. Told' = [Told EXCEPT ![c] = kvs[TheTx]]
      BY <2>3, <2>5, OnlyOneMoves
    <3>2. Phases' = Phases
      BY <2>5 DEF Phases, Phase
    <3> QED
      BY <2>2, <2>4, <3>1, <3>2
  <2>6. CASE SubCrashes(c)
    BY <1>4, <2>1, <2>2, <2>3, <2>4, <2>6
  <2> QED
    BY <1>7, <2>5, <2>6
<1>8. CASE SubCallsPlain(c)
  <2>1. /\ (SubCalls(c, receive(mailbox[c])) /\ UNCHANGED stage) \/ SubCrashes(c)
        /\ UNCHANGED promise /\ promise[c] # "pending"
    BY <1>1, <1>8 DEF SubCallsPlain, PromisedTo
  <2>2. Feed!Tell(c)
    <3>1. SubCalls(c, receive(mailbox[c])) /\ (UNCHANGED stage \/ SubCrashes(c))
      BY <1>8 DEF SubCallsPlain
    <3> QED
      BY <1>0, <1>7, <2>1, <3>1 DEF Feed!Tell, Phases, Told, Feed!Error, Error
  <2> QED
    BY <2>2 DEF Feed!Next
<1>9. CASE SubCallsOnce(c)
  <2> DEFINE letter   == receive(mailbox[c])
             rejects  == statusCode(letter.from, letter.data) = 1 /\ c \notin Suppress
             resolves == ~ rejects /\ letter.data >= Goal[c]
  <2>1. SubCalls(c, letter)
    BY <1>9 DEF SubCallsOnce
  <2>2. letter.data # Undefined
    BY <2>1, CalledWithStatus
  <2>3. /\ UNCHANGED stage
        /\ \/ rejects  /\ Settle(c, "rejected")
           \/ resolves /\ Settle(c, "resolved")
           \/ ~ rejects /\ ~ resolves /\ UNCHANGED promise
    BY <1>9, <2>2 DEF SubCallsOnce, SettlesAndUnsubscribes
  <2>4. /\ Phases[c] = "open" /\ Told[c] # Error
        /\ Phases' \in {Phases, [Phases EXCEPT ![c] = "closed"]}
        /\ Told' = [Told EXCEPT ![c] = kvs[TheTx]]
        /\ letter.data = kvs[TheTx]
    BY <1>7, <2>1, <2>3
  <2>5. rejects => kvs[TheTx] >= 3
    BY <2>4 DEF statusCode
  <2>6. kvs[TheTx] \in Int /\ Goal[c] \in Int /\ promise \in [Sub -> {"none", "pending", "resolved", "rejected"}]
    <3>1. c \in Once
      BY <1>9 DEF SubCallsOnce
    <3>2. Goal[c] \in Int
      BY <3>1, ConstantsAssumption
    <3>3. kvs[TheTx] \in Level \cup {Empty}
      BY OneIsTheTx DEF Typed, TypeOK
    <3> QED
      BY <3>2, <3>3 DEF Level, Empty, Typed, TypeOK
  <2>7. \/ promise[c] # "pending" /\ UNCHANGED promise
        \/ promise[c] = "pending"
           /\ \/ kvs[TheTx] < Goal[c]  /\ UNCHANGED promise
              \/ kvs[TheTx] >= Goal[c] /\ promise' = [promise EXCEPT ![c] = "resolved"]
              \/ kvs[TheTx] >= 3       /\ promise' = [promise EXCEPT ![c] = "rejected"]
    <3>1. CASE promise[c] # "pending"
      BY <2>3, <2>6, <3>1 DEF Settle
    <3>2. CASE promise[c] = "pending"
      BY <2>3, <2>4, <2>5, <2>6, <3>2 DEF Settle
    <3> QED
      BY <3>1, <3>2
  <2>8. Feed!Tell(c)
    BY <1>0, <2>4, <2>7 DEF Feed!Tell, Phases, Told, Feed!Error, Error
  <2> QED
    BY <2>8 DEF Feed!Next
<1> QED
  BY <1>2, <1>3, <1>5, <1>6, <1>8, <1>9 DEF SubMicrotask

LEMMA StepFeed ==
  ASSUME OneTx, Typed, Rising, Timely, Promised, [Next]_vars
  PROVE  [Feed!Next]_(Feed!vars)
<1>1. ASSUME UNCHANGED <<kvs, stage, seen, promise>> PROVE UNCHANGED Feed!vars
  BY <1>1, FeedStutter DEF Phase
<1>2. CASE Environment
  BY <1>1, <1>2 DEF Environment, LedgerAdvances, txVars, subVars
<1>3. ASSUME NEW u \in Tx, Macrotask(u) PROVE UNCHANGED Feed!vars
  BY <1>1, <1>3 DEF Macrotask, AccessNodeAnswers, PollTimerFires, DeadlineFires, subVars
<1>4. CASE UNCHANGED vars
  BY <1>1, <1>4 DEF vars, txVars, subVars
<1> QED
  BY <1>2, <1>3, <1>4, ProgramFeed, TxFeed, SubFeed DEF Next

\* The actor of a transaction, its letters, addresses and polls implement the
\* feed that StatusFeed promises: no stale status is told, nothing after an
\* error, and no promise settles early (with one transaction).
THEOREM TransactionIsFeed ==
  ASSUME OneTx
  PROVE  Spec => FeedRefined
<1>1. Init => Feed!Init
  BY InitFeed
<1>2. Typed /\ Rising /\ Timely /\ Promised /\ [Next]_vars => [Feed!Next]_(Feed!vars)
  BY StepFeed
<1>3. Typed /\ Timely /\ Promised /\ [Next]_vars => Promised'
  BY StepPromised
<1>4. Typed /\ Rising /\ [Next]_vars => Rising'
  BY StepRising
<1> QED
  BY <1>1, <1>2, <1>3, <1>4, InitTyped, InitRising, InitTimely, InitPromised, StepTyped,
     StepTimely, PTL DEF Spec, FeedRefined, Feed!Spec
=============================================================================
