-------------------------- MODULE SubscribeEvents --------------------------
(***************************************************************************)
(* connectSubscribeEvents                                                  *)
(* (packages/transport-http/src/connect-subscribe-events.ts): the stream   *)
(* of blocks with events and of heartbeats, resumed over the reconnecting  *)
(* socket of ConnectWs.                                                    *)
(*                                                                         *)
(* The access node is external: on a connection it sends the blocks from   *)
(* the height asked for on, in order, every block that has events and, as  *)
(* heartbeats, any of the others.                                          *)
(***************************************************************************)
EXTENDS ConnectWs

CONSTANTS
  StartHeights, \* what the program may ask for: a height, or Latest if it gives none
  RootHeight,   \* the latest block at the start: 0 only where the chain begins (the emulator)
  MaxHeight,    \* bound: the last block of the chain
  EventBlocks   \* the heights of the blocks with events

Latest == -1    \* no start height: the node starts at its latest block
Null   == -1    \* lastBlockHeight before the first message

ASSUME SubscribeEventsAssumption ==
  /\ RootHeight \in Nat /\ MaxHeight \in Nat /\ RootHeight <= MaxHeight
  /\ StartHeights \subseteq Nat \cup {Latest}
  /\ EventBlocks \subseteq 0 .. MaxHeight

VARIABLES
  startHeight,      \* subscribeEvents.startHeight
  chain,            \* the latest sealed block
  lastBlockHeight,
  cursor,           \* the next block the node looks at for the last socket
  delivered         \* the blocks emitted as "data", in order

seVars  == <<startHeight, chain, lastBlockHeight, cursor, delivered>>
allVars == <<wsVars, seVars>>

SeTypeOK ==
  /\ WsTypeOK
  /\ startHeight     \in StartHeights
  /\ chain           \in 0 .. MaxHeight
  /\ lastBlockHeight \in Nat \cup {Null}
  /\ cursor          \in Nat \cup {Latest}
  /\ delivered       \in Seq(Nat)

\* buildConnectionUrl leaves out a parameter that is falsy: a height of 0 is
\* never sent, and the node starts at its latest block.
Sent(height) == IF height = 0 THEN Latest ELSE height

SeInit ==
  /\ WsInit
  /\ startHeight     \in StartHeights
  /\ chain           = RootHeight
  /\ lastBlockHeight = Null
  /\ cursor          = Sent(startHeight)
  /\ delivered       = << >>

-----------------------------------------------------------------------------
BlockSealed ==
  /\ chain < MaxHeight
  /\ chain' = chain + 1
  /\ UNCHANGED <<wsVars, startHeight, lastBlockHeight, cursor, delivered>>

\* Mutants of ResumeHeight: the last block is asked for again; the block behind
\* it is skipped.
ResumeAtLast     == IF lastBlockHeight > 0 THEN lastBlockHeight ELSE Sent(startHeight)
ResumeBehindNext == IF lastBlockHeight > 0 THEN lastBlockHeight + 2 ELSE Sent(startHeight)

\* getParams, when connect() makes the next socket: a height of 0 is falsy.
ResumeHeight == IF lastBlockHeight > 0 THEN lastBlockHeight + 1 ELSE Sent(startHeight)

Resumes ==
  /\ Reconnects
  /\ cursor' = ResumeHeight
  /\ UNCHANGED <<startHeight, chain, lastBlockHeight, delivered>>

\* Without a start height the node starts at the block that is the latest.
StreamOpens ==
  /\ SocketOpens(Last)
  /\ cursor' = IF cursor = Latest THEN chain ELSE cursor
  /\ UNCHANGED <<startHeight, chain, lastBlockHeight, delivered>>

\* connection.on("data").
BlockArrives(h) ==
  /\ SocketDelivers(Last)
  /\ h \in cursor .. chain
  /\ \A e \in EventBlocks : e >= cursor => e >= h
  /\ cursor'          = h + 1
  /\ lastBlockHeight' = h
  /\ delivered'       = Append(delivered, h)
  /\ UNCHANGED <<startHeight, chain>>

ConnectionStep ==
  /\ \/ SocketDeliversJunk(Last) \/ OnClose(Last)
     \/ ClosesAfterError \/ UserCloses
  /\ UNCHANGED seVars

SeNext ==
  \/ BlockSealed \/ Resumes \/ StreamOpens \/ ConnectionStep
  \/ \E h \in 0 .. MaxHeight : BlockArrives(h)

SeSpec == SeInit /\ [][SeNext]_allVars

FairSeSpec == SeSpec /\ WsFairness

-----------------------------------------------------------------------------
\* No block with events is lost by a reconnection: all of them from the start
\* asked for (or from the first block delivered) to the last block are delivered.
NoEventMissed ==
  \A e \in EventBlocks :
    /\ delivered # << >>
    /\ e >= (IF startHeight = Latest THEN delivered[1] ELSE startHeight)
    /\ e <= lastBlockHeight
    => \E i \in 1 .. Len(delivered) : delivered[i] = e

\* No block is delivered twice, and none before an earlier one.
DeliveredInOrder ==
  \A i \in 1 .. Len(delivered) - 1 : delivered[i] < delivered[i + 1]
=============================================================================
