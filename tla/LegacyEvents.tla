---------------------------- MODULE LegacyEvents ----------------------------
(***************************************************************************)
(* The polling of events where the transport has no streams                *)
(* (packages/fcl-core/src/events/legacy-events.js on util-actor): one      *)
(* actor per event type asks for the events of the blocks sealed since it  *)
(* asked last, and tells its subscribers.                                  *)
(*                                                                         *)
(* The actor handles one letter at a time.  It awaits the configuration in *)
(* microtasks and the access node in macrotasks; timers and answers come   *)
(* when no microtask is left.  An event is the height of its block, and    *)
(* the latest block an access node knows never falls.                      *)
(***************************************************************************)
EXTENDS Integers, Sequences, FiniteSets

CONSTANTS
  Sub,          \* subscriptions
  EventBlocks,  \* the heights of the blocks with an event
  MaxHeight,    \* bound: the last block of the chain
  MaxFailures   \* bound: requests that fail

ASSUME LegacyAssumption ==
  /\ EventBlocks \subseteq Nat
  /\ MaxHeight \in Nat /\ MaxFailures \in Nat

None == -1    \* no height, no timer, nobody
Exit == -2    \* the EXIT in the mailbox of a subscriber

VARIABLES
  chain,     \* the latest sealed block
  at,        \* the actor: free, or what it awaits (block, events, rate, rateFirst)
  inbox,     \* its mailbox: "TICK", or <<"SUBSCRIBE" or "UNSUBSCRIBE", subscriber>>
  subs,      \* its subscribers
  hwm,       \* HIGH_WATER_MARK, a height
  tick,      \* TICK, the timer it knows of
  running,   \* the timers that run
  from,      \* the first block of the request under way
  broken,    \* a request failed since the first subscriber came
  failures,
  stage,     \* each subscriber: idle, spawned, waiting, ended, crashed
  mailbox,   \* its mailbox: events, and Exit
  told       \* what its callback was called with

pollVars    == <<at, inbox, subs, hwm, tick, running, from, broken, failures>>
readerVars  == <<stage, mailbox, told>>
legacyVars  == <<chain, pollVars, readerVars>>

Letters == {<<"TICK">>} \cup {"SUBSCRIBE", "UNSUBSCRIBE"} \X Sub

LegacyTypeOK ==
  /\ chain    \in Nat
  /\ at       \in {"free", "block", "events", "rate", "rateFirst"}
  /\ inbox    \in Seq(Letters)
  /\ subs     \subseteq Sub
  /\ hwm      \in Nat \cup {None}
  /\ tick     \in 0 .. 2 \cup {None}
  /\ running  \subseteq 0 .. 2
  /\ from     \in Nat
  /\ broken   \in BOOLEAN
  /\ failures \in 0 .. MaxFailures
  /\ stage    \in [Sub -> {"idle", "spawned", "waiting", "ended", "crashed"}]
  /\ mailbox  \in [Sub -> Seq(Nat \cup {Exit})]
  /\ told     \in [Sub -> Seq(Nat)]

LegacyInit ==
  /\ chain    = 0
  /\ at       = "free"
  /\ inbox    = << >>
  /\ subs     = {}
  /\ hwm      = None
  /\ tick     = None
  /\ running  = {}
  /\ from     = 0
  /\ broken   = FALSE
  /\ failures = 0
  /\ stage    = [s \in Sub |-> "idle"]
  /\ mailbox  = [s \in Sub |-> << >>]
  /\ told     = [s \in Sub |-> << >>]

-----------------------------------------------------------------------------
\* The events of the blocks a to b, in order.
Increasing(q)  == \A i, j \in 1 .. Len(q) : i < j => q[i] < q[j]
EventsIn(a, b) ==
  LET events == EventBlocks \cap (a .. b)
  IN CHOOSE q \in [1 .. Cardinality(events) -> events] : Increasing(q)

Post(letter) == inbox' = Append(inbox, letter)

\* Letters to a subscriber that is gone are dropped.
Deliver(to, events) ==
  mailbox' = [s \in Sub |-> IF s \in to /\ stage[s] \in {"spawned", "waiting", "crashed"}
                              THEN mailbox[s] \o events ELSE mailbox[s]]

ActorRunnable   == at \in {"rate", "rateFirst"} \/ (at = "free" /\ inbox # << >>)
ReaderRunnable(s) == stage[s] = "spawned" \/ (stage[s] = "waiting" /\ mailbox[s] # << >>)
LegacyDrained   == ~ ActorRunnable /\ \A s \in Sub : ~ ReaderRunnable(s)

BlockSealed ==
  /\ chain < MaxHeight
  /\ chain' = chain + 1
  /\ UNCHANGED <<pollVars, readerVars>>

-----------------------------------------------------------------------------
(* The actor.                                                               *)

\* setTimeout, and the timer it returns becomes TICK.
scheduleTick ==
  /\ tick'    = CHOOSE i \in 0 .. 2 : i \notin running \cup {tick}
  /\ running' = running \cup {tick'}

Takes(letter) ==
  /\ at = "free" /\ inbox # << >> /\ Head(inbox) = letter
  /\ inbox' = Tail(inbox)
  /\ UNCHANGED <<chain, from, failures>>

\* TICK, up to its first await.
Ticks ==
  /\ Takes(<<"TICK">>)
  /\ at' = IF subs = {} THEN "free" ELSE "block"
  /\ UNCHANGED <<subs, hwm, tick, running, broken, readerVars>>

\* block() is answered: the mark is raised, and the events above it asked for.  The
\* node is taken to have the events of the block it answers with.
BlockAnswers ==
  /\ at = "block"
  /\ hwm'  = chain
  /\ from' = hwm + 1
  /\ at'   = IF hwm # None /\ hwm < chain THEN "events" ELSE "rate"
  /\ UNCHANGED <<chain, inbox, subs, tick, running, broken, failures, readerVars>>

\* Mutant of EventsAnswer: the last block of the range is left out.
EventsAnswerShort ==
  /\ at = "events"
  /\ at' = "rate"
  /\ Deliver(subs, EventsIn(from, hwm - 1))
  /\ UNCHANGED <<chain, inbox, subs, hwm, tick, running, from, broken, failures, stage, told>>

EventsAnswer ==
  /\ at = "events"
  /\ at' = "rate"
  /\ Deliver(subs, EventsIn(from, hwm))
  /\ UNCHANGED <<chain, inbox, subs, hwm, tick, running, from, broken, failures, stage, told>>

\* A request fails: the handler throws, and no next tick is scheduled.
RequestFails ==
  /\ at \in {"block", "events"} /\ failures < MaxFailures
  /\ at'       = "free"
  /\ broken'   = TRUE
  /\ failures' = failures + 1
  /\ UNCHANGED <<chain, inbox, subs, hwm, tick, running, from, readerVars>>

TickScheduled ==
  /\ at = "rate"
  /\ at' = "free"
  /\ scheduleTick
  /\ UNCHANGED <<chain, inbox, subs, hwm, from, broken, failures, readerVars>>

\* SUBSCRIBE of the first subscriber awaits the poll rate before it is added;
\* its letter is taken when it is.
FirstSubscribes ==
  /\ at = "free" /\ inbox # << >> /\ Head(inbox)[1] = "SUBSCRIBE" /\ subs = {}
  /\ at' = "rateFirst"
  /\ UNCHANGED <<chain, inbox, subs, hwm, tick, running, from, broken, failures, readerVars>>

FirstSubscribed ==
  /\ at = "rateFirst"
  /\ at'     = "free"
  /\ inbox'  = Tail(inbox)
  /\ subs'   = {Head(inbox)[2]}
  /\ scheduleTick
  /\ broken' = FALSE
  /\ UNCHANGED <<chain, hwm, from, failures, readerVars>>

\* Mutant of Subscribes: every subscriber starts a tick.
SubscribesTicking(s) ==
  /\ subs # {}
  /\ Takes(<<"SUBSCRIBE", s>>)
  /\ subs' = subs \cup {s}
  /\ scheduleTick
  /\ UNCHANGED <<at, hwm, broken, readerVars>>

Subscribes(s) ==
  /\ subs # {}
  /\ Takes(<<"SUBSCRIBE", s>>)
  /\ subs' = subs \cup {s}
  /\ UNCHANGED <<at, hwm, tick, running, broken, readerVars>>

\* UNSUBSCRIBE; with the last subscriber the polling ends.
Unsubscribes(s) ==
  /\ Takes(<<"UNSUBSCRIBE", s>>)
  /\ subs' = subs \ {s}
  /\ IF subs' = {}
       THEN hwm' = None /\ tick' = None /\ running' = running \ {tick}
       ELSE UNCHANGED <<hwm, tick, running>>
  /\ UNCHANGED <<at, broken, readerVars>>

TimerFires(i) ==
  /\ i \in running
  /\ running' = running \ {i}
  /\ Post(<<"TICK">>)
  /\ UNCHANGED <<chain, at, subs, hwm, tick, from, broken, failures, readerVars>>

-----------------------------------------------------------------------------
(* The subscribers (subscriber of util-actor).                              *)

ReaderStarts(s) ==
  /\ stage[s] = "spawned"
  /\ stage' = [stage EXCEPT ![s] = "waiting"]
  /\ Post(<<"SUBSCRIBE", s>>)
  /\ UNCHANGED <<chain, at, subs, hwm, tick, running, from, broken, failures, mailbox, told>>

\* The callback; if it throws, the subscriber stays subscribed.
ReaderCalls(s) ==
  /\ stage[s] = "waiting" /\ mailbox[s] # << >> /\ Head(mailbox[s]) # Exit
  /\ told'    = [told EXCEPT ![s] = Append(@, Head(mailbox[s]))]
  /\ mailbox' = [mailbox EXCEPT ![s] = Tail(@)]
  /\ stage'  \in {stage, [stage EXCEPT ![s] = "crashed"]}
  /\ UNCHANGED <<chain, pollVars>>

\* Mutant of ReaderExits: the actor is not told.
ReaderExitsSilently(s) ==
  /\ stage[s] = "waiting" /\ mailbox[s] # << >> /\ Head(mailbox[s]) = Exit
  /\ stage'   = [stage EXCEPT ![s] = "ended"]
  /\ mailbox' = [mailbox EXCEPT ![s] = << >>]
  /\ UNCHANGED <<chain, pollVars, told>>

ReaderExits(s) ==
  /\ stage[s] = "waiting" /\ mailbox[s] # << >> /\ Head(mailbox[s]) = Exit
  /\ stage'   = [stage EXCEPT ![s] = "ended"]
  /\ mailbox' = [mailbox EXCEPT ![s] = << >>]
  /\ Post(<<"UNSUBSCRIBE", s>>)
  /\ UNCHANGED <<chain, at, subs, hwm, tick, running, from, broken, failures, told>>

ActorStep == \/ Ticks \/ TickScheduled
             \/ FirstSubscribes \/ FirstSubscribed
             \/ \E s \in Sub : Subscribes(s) \/ Unsubscribes(s)
ReaderStep(s) == ReaderStarts(s) \/ ReaderCalls(s) \/ ReaderExits(s)

\* To be taken when no microtask is left.
LegacyMacrotask == \/ BlockAnswers \/ EventsAnswer \/ RequestFails
                   \/ \E i \in 0 .. 2 : TimerFires(i)

-----------------------------------------------------------------------------
\* While anybody is subscribed there is exactly one tick: a running timer, a
\* TICK in the mailbox, or one being handled; there is none after a request has
\* failed, and none is left when the last subscriber has gone.
Ticking == Cardinality(running)
           + Cardinality({i \in 1 .. Len(inbox) : inbox[i] = <<"TICK">>})
           + (IF at \in {"block", "events", "rate"} THEN 1 ELSE 0)

OneTickLoop ==
  /\ Ticking <= 1
  /\ subs # {} => (Ticking = 1 <=> ~ broken)
  /\ subs = {} /\ LegacyDrained => Ticking = 0

\* A subscriber is told of every event of the blocks from the first it is told of
\* to the last, each once and in the order of the chain.
Follows(g, h) == g < h /\ \A e \in EventBlocks : e <= g \/ h <= e

LegacyInOrder ==
  \A s \in Sub : \A i \in 1 .. Len(told[s]) :
    /\ told[s][i] \in EventBlocks
    /\ i > 1 => Follows(told[s][i - 1], told[s][i])
=============================================================================
