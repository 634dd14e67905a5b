------------------------------- MODULE Events -------------------------------
(***************************************************************************)
(* fcl.events(filter).subscribe(callback)                                  *)
(* (packages/fcl-core/src/events/index.ts): a stream where the transport   *)
(* has one, and polling where it has not.                                  *)
(*                                                                         *)
(* Which of the two is known only when the promise of the stream settles.  *)
(* The function subscribe returned may be called before that, and then     *)
(* takes effect when it does.                                              *)
(***************************************************************************)
EXTENDS LegacyEvents, DecodeStream

ASSUME EventsAssumption == Stream = Sub

VARIABLES
  supported, \* whether the transport has streams
  choice,    \* each subscription: unused, asking, chosen (settled, nothing done yet),
             \* stream, legacy, failed
  left,      \* whether the function subscribe returned was called
  closed     \* whether its stream was closed

choiceVars == <<supported, choice, left, closed>>
vars       == <<legacyVars, streamVars, choiceVars>>

TypeOK ==
  /\ LegacyTypeOK /\ StreamTypeOK
  /\ supported \in BOOLEAN
  /\ choice    \in [Sub -> {"unused", "asking", "chosen", "stream", "legacy", "failed"}]
  /\ left      \in [Sub -> BOOLEAN]
  /\ closed    \in [Sub -> BOOLEAN]

Init ==
  /\ LegacyInit /\ StreamInit
  /\ supported \in BOOLEAN
  /\ choice    = [s \in Sub |-> "unused"]
  /\ left      = [s \in Sub |-> FALSE]
  /\ closed    = [s \in Sub |-> FALSE]

\* The unsubscribing of s has still to be done.
Leaving(s) == left[s] /\ \/ choice[s] = "stream" /\ ~ closed[s]
                         \/ /\ choice[s] = "legacy" /\ stage[s] \in {"spawned", "waiting"}
                            /\ Exit \notin {mailbox[s][i] : i \in 1 .. Len(mailbox[s])}

MicrotasksDrained ==
  /\ LegacyDrained
  /\ \A s \in Sub : choice[s] # "chosen" /\ ~ Leaving(s) /\ ~ TaskRunnable(s)

-----------------------------------------------------------------------------
Opens(s) ==
  /\ choice[s] = "unused"
  /\ choice' = [choice EXCEPT ![s] = "asking"]
  /\ UNCHANGED <<legacyVars, streamVars, supported, left, closed>>

Leaves(s) ==
  /\ choice[s] # "unused" /\ ~ left[s]
  /\ left' = [left EXCEPT ![s] = TRUE]
  /\ UNCHANGED <<legacyVars, streamVars, supported, choice, closed>>

\* streamPromise settles; for another error than the missing support nobody is told.
Settles(s) ==
  /\ MicrotasksDrained /\ choice[s] = "asking"
  /\ choice' \in {[choice EXCEPT ![s] = "chosen"], [choice EXCEPT ![s] = "failed"]}
  /\ UNCHANGED <<legacyVars, streamVars, supported, left, closed>>

\* legacySubscriptionPromise: the callback is attached to the stream, or polling
\* is started, also when the program has left already.  Polling takes an event
\* type: a subscription made with a filter fails, and nobody is told.
Chooses(s) ==
  /\ choice[s] = "chosen"
  /\ \E c \in IF supported THEN {"stream"} ELSE {"legacy", "failed"} :
       choice' = [choice EXCEPT ![s] = c]
  /\ stage'  = [stage EXCEPT ![s] = IF choice'[s] = "legacy" THEN "spawned" ELSE @]
  /\ UNCHANGED <<chain, pollVars, mailbox, told, streamVars, supported, left, closed>>

\* What was registered behind it: the stream is closed, or EXIT sent.
Unsubscribed(s) ==
  /\ Leaving(s)
  /\ IF choice[s] = "stream"
       THEN closed' = [closed EXCEPT ![s] = TRUE] /\ UNCHANGED mailbox
       ELSE Deliver({s}, <<Exit>>) /\ UNCHANGED closed
  /\ UNCHANGED <<chain, pollVars, stage, told, streamVars, supported, choice, left>>

-----------------------------------------------------------------------------
(* The stream, once the callback listens to it.                             *)

Arrives(s, kind) ==
  /\ MicrotasksDrained /\ supported
  /\ choice[s] = "stream" /\ ~ closed[s]
  /\ Receives(s, kind)
  /\ UNCHANGED <<legacyVars, choiceVars>>

DecoderEnds(s) ==
  /\ \E i \in 1 .. MaxItems, outcome \in {"ready", "failed"} : Decodes(s, i, outcome)
  /\ UNCHANGED <<legacyVars, choiceVars>>

\* onEvents and onError, also after the stream was closed; the callback is not
\* told of the close.
Emits(s) == TaskEmits(s) /\ UNCHANGED <<legacyVars, choiceVars>>

Rejects(s) == TaskRejects(s) /\ UNCHANGED <<legacyVars, choiceVars>>

-----------------------------------------------------------------------------
LegacyStep ==
  /\ \/ ActorStep \/ BlockSealed
     \/ \E s \in Sub : ReaderStep(s)
     \/ MicrotasksDrained /\ LegacyMacrotask
  /\ UNCHANGED <<streamVars, choiceVars>>

StreamStep(s) ==
  \/ \E kind \in {"data", "error", "close"} : Arrives(s, kind)
  \/ DecoderEnds(s) \/ Emits(s) \/ Rejects(s)

ChoiceStep(s) == Opens(s) \/ Leaves(s) \/ Settles(s) \/ Chooses(s) \/ Unsubscribed(s)

Next == LegacyStep \/ \E s \in Sub : StreamStep(s) \/ ChoiceStep(s)

Spec == Init /\ [][Next]_vars

\* Polling goes on: continuations run, its requests are answered and its timers
\* fire.  Nothing is asked of the program, the chain or the transport.
FairSpec ==
  /\ Spec
  /\ WF_vars(ActorStep /\ UNCHANGED <<streamVars, choiceVars>>)
  /\ SF_vars(MicrotasksDrained /\ LegacyMacrotask /\ UNCHANGED <<streamVars, choiceVars>>)
  /\ \A s \in Sub :
       /\ WF_vars(ReaderStep(s) /\ UNCHANGED <<streamVars, choiceVars>>)
       /\ WF_vars(Chooses(s) \/ Unsubscribed(s) \/ Emits(s) \/ Rejects(s))

-----------------------------------------------------------------------------
\* Unsubscribing takes effect, whenever it is called: at rest, whoever has left
\* has no open stream, no subscriber waiting (a callback that threw has left one
\* behind), and, unless the actor is busy, no address it is sent events at.
LeftForGood ==
  MicrotasksDrained => \A s \in Sub : left[s] =>
    /\ choice[s] = "stream" => closed[s]
    /\ stage[s] \in {"idle", "ended", "crashed"}
    /\ s \in subs /\ at = "free" => stage[s] = "crashed"

\* Events reach the callback in the order of the chain or of the stream, each
\* once, with none left out in between.
ToldInOrder == LegacyInOrder /\ EmittedInOrder

\* A subscription is told of every event that is sealed while it polls, unless a
\* request fails, its callback throws or it is given up (TICK).
PolledEventsHeard ==
  \A s \in Sub, h \in EventBlocks :
    s \in subs /\ hwm # None /\ hwm < h /\ h <= chain
      ~> h \in {told[s][i] : i \in 1 .. Len(told[s])}
         \/ broken \/ stage[s] = "crashed" \/ left[s]
=============================================================================
