---------------------------- MODULE DecodeStream ----------------------------
(***************************************************************************)
(* decodeStream (packages/sdk/src/decode/decode-stream.ts), for every      *)
(* subscription that has a stream: messages are decoded as they come, all  *)
(* at once, and a queue of tasks emits them in the order in which they     *)
(* came, errors and the close included.                                    *)
(*                                                                         *)
(* A decoder may end at any time, or fail.  A task that rejects, because a *)
(* decoder failed or a listener threw, ends the loop of the queue, which   *)
(* is never run again: its flag `running` stays set.                       *)
(***************************************************************************)
EXTENDS Integers, Sequences

CONSTANTS
  Stream,    \* the streams
  MaxItems   \* bound: what one stream receives

ASSUME StreamAssumption == MaxItems \in Nat

VARIABLES
  source,   \* what each stream received: [kind, decoded]
  queue,    \* its queue of tasks, each the position of an item in source
  stalled,  \* a task rejected
  emitted   \* the positions of the items emitted

streamVars == <<source, queue, stalled, emitted>>

Item == [kind : {"data", "error", "close"}, decoded : {"pending", "ready", "failed"}]

StreamTypeOK ==
  /\ source  \in [Stream -> Seq(Item)]
  /\ queue   \in [Stream -> Seq(Nat)]
  /\ stalled \in [Stream -> BOOLEAN]
  /\ emitted \in [Stream -> Seq(Nat)]

StreamInit ==
  /\ source  = [s \in Stream |-> << >>]
  /\ queue   = [s \in Stream |-> << >>]
  /\ stalled = [s \in Stream |-> FALSE]
  /\ emitted = [s \in Stream |-> << >>]

Ended(s) == \E i \in 1 .. Len(source[s]) : source[s][i].kind = "close"

\* on("data"), and relayEvent of "error" and "close".
Receives(s, kind) ==
  /\ Len(source[s]) < MaxItems /\ ~ Ended(s)
  /\ source' = [source EXCEPT ![s] =
       Append(@, [kind |-> kind, decoded |-> IF kind = "data" THEN "pending" ELSE "ready"])]
  /\ queue'  = [queue EXCEPT ![s] = Append(@, Len(source'[s]))]
  /\ UNCHANGED <<stalled, emitted>>

\* decodeResponse resolves or rejects.
Decodes(s, i, outcome) ==
  /\ i \in 1 .. Len(source[s]) /\ source[s][i].decoded = "pending"
  /\ source' = [source EXCEPT ![s][i].decoded = outcome]
  /\ UNCHANGED <<queue, stalled, emitted>>

\* The loop of run(): its first task has all it awaits.
TaskRunnable(s) ==
  /\ ~ stalled[s] /\ queue[s] # << >>
  /\ source[s][Head(queue[s])].decoded # "pending"

\* Mutant of TaskEmits: the last task is run first.
TaskEmitsLast(s) ==
  /\ TaskRunnable(s)
  /\ source[s][queue[s][Len(queue[s])]].decoded = "ready"
  /\ emitted'  = [emitted EXCEPT ![s] = Append(@, queue[s][Len(queue[s])])]
  /\ queue'    = [queue EXCEPT ![s] = SubSeq(@, 1, Len(@) - 1)]
  /\ stalled' \in {stalled, [stalled EXCEPT ![s] = TRUE]}
  /\ UNCHANGED source

\* The listeners are called, and may throw.
TaskEmits(s) ==
  /\ TaskRunnable(s)
  /\ source[s][Head(queue[s])].decoded = "ready"
  /\ emitted'  = [emitted EXCEPT ![s] = Append(@, Head(queue[s]))]
  /\ queue'    = [queue EXCEPT ![s] = Tail(@)]
  /\ stalled' \in {stalled, [stalled EXCEPT ![s] = TRUE]}
  /\ UNCHANGED source

TaskRejects(s) ==
  /\ TaskRunnable(s)
  /\ source[s][Head(queue[s])].decoded = "failed"
  /\ queue'   = [queue EXCEPT ![s] = Tail(@)]
  /\ stalled' = [stalled EXCEPT ![s] = TRUE]
  /\ UNCHANGED <<source, emitted>>

-----------------------------------------------------------------------------
\* What a stream emits is what it received, in the same order and with nothing
\* left out, however long the decoders take; and as long as no task has failed
\* the rest is queued in that order too.
EmittedInOrder ==
  \A s \in Stream :
    /\ emitted[s] = [i \in 1 .. Len(emitted[s]) |-> i]
    /\ ~ stalled[s] =>
         emitted[s] \o queue[s] = [i \in 1 .. Len(source[s]) |-> i]
=============================================================================
