----------------------------- MODULE ConnectWs -----------------------------
(***************************************************************************)
(* connectWs (packages/transport-http/src/connect-ws.ts): a stream over a  *)
(* WebSocket that reconnects.  Each call of connect() makes a socket with  *)
(* a userClosed and a hasOpened of its own; `close` always refers to the   *)
(* socket made last.  A socket that never opened is retried retryLimit     *)
(* times in a row, one that had opened is replaced without a limit.        *)
(*                                                                         *)
(* A socket is external: it opens or fails, closes when the server or the  *)
(* program closes it, and calls onclose once.                              *)
(***************************************************************************)
EXTENDS Integers, Sequences

CONSTANTS
  retryLimit,     \* connections that may fail in a row before the stream gives up
  MaxSockets,     \* bound: the sockets of a behaviour
  MaxCloses       \* bound: the calls of close()

ASSUME ConnectWsAssumption ==
  /\ retryLimit \in Nat
  /\ MaxSockets \in Nat \ {0} /\ MaxCloses \in Nat

VARIABLES
  sockets,     \* the sockets made, in order
  retryCount,
  timer,       \* the timer that runs: none, connect, close
  output,      \* the emitter: open, failed (told of the failure), closed (told, listeners removed)
  closes,      \* how often close() was called
  listening    \* whether the program listens to "error": emit throws if not

wsVars == <<sockets, retryCount, timer, output, closes, listening>>

Socket == [state : {"connecting", "open", "closing", "closed"},
           userClosed : BOOLEAN, hasOpened : BOOLEAN]

WsTypeOK ==
  /\ sockets    \in Seq(Socket) /\ sockets # << >>
  /\ retryCount \in 0 .. retryLimit
  /\ timer      \in {"none", "connect", "close"}
  /\ output     \in {"open", "failed", "closed"}
  /\ closes     \in Nat
  /\ listening  \in BOOLEAN

NewSocket == [state |-> "connecting", userClosed |-> FALSE, hasOpened |-> FALSE]
Last      == Len(sockets)
Live      == sockets[Last].state # "closed"

WsInit ==
  /\ sockets    = <<NewSocket>>
  /\ retryCount = 0
  /\ timer      = "none"
  /\ output     = "open"
  /\ closes     = 0
  /\ listening  \in BOOLEAN

-----------------------------------------------------------------------------
\* Mutant of SocketOpens: the retries are not forgotten.
SocketOpensUncounted(k) ==
  /\ sockets[k].state = "connecting"
  /\ sockets' = [sockets EXCEPT ![k].state = "open", ![k].hasOpened = TRUE]
  /\ UNCHANGED <<retryCount, timer, output, closes, listening>>

\* onopen.
SocketOpens(k) ==
  /\ sockets[k].state = "connecting"
  /\ sockets'    = [sockets EXCEPT ![k].state = "open", ![k].hasOpened = TRUE]
  /\ retryCount' = 0
  /\ UNCHANGED <<timer, output, closes, listening>>

\* onmessage: the listeners of "data" are called.
SocketDelivers(k) ==
  /\ sockets[k].state = "open"
  /\ UNCHANGED wsVars

\* onmessage, for what is not JSON: "error" is emitted, then the socket closed.
\* Without a listener emit throws, and the socket stays open.
SocketDeliversJunk(k) ==
  /\ sockets[k].state = "open"
  /\ sockets' = IF listening THEN [sockets EXCEPT ![k].state = "closing"] ELSE sockets
  /\ UNCHANGED <<retryCount, timer, output, closes, listening>>

\* onclose.
SocketCloses(k) ==
  /\ sockets[k].state # "closed"
  /\ sockets' = [sockets EXCEPT ![k].state = "closed"]
  /\ UNCHANGED <<closes, listening>>

\* Mutant of ClosedByUser: hasOpened is looked at first.
ClosedByUserUnlessOpened(k) ==
  /\ SocketCloses(k)
  /\ sockets[k].userClosed
  /\ IF sockets[k].hasOpened
       THEN timer'  = "connect" /\ UNCHANGED output
       ELSE output' = "closed"  /\ UNCHANGED timer
  /\ UNCHANGED retryCount

ClosedByUser(k) ==
  /\ SocketCloses(k)
  /\ sockets[k].userClosed
  /\ output' = "closed"
  /\ UNCHANGED <<retryCount, timer>>

ConnectFails(k) ==
  /\ SocketCloses(k)
  /\ ~ sockets[k].userClosed /\ ~ sockets[k].hasOpened
  /\ retryCount < retryLimit
  /\ retryCount' = retryCount + 1
  /\ timer' = "connect"
  /\ UNCHANGED output

\* "error" is emitted now and "close" on the next tick; if emit throws, the
\* timer of the "close" is never set.
GivesUp(k) ==
  /\ SocketCloses(k)
  /\ ~ sockets[k].userClosed /\ ~ sockets[k].hasOpened
  /\ retryCount >= retryLimit
  /\ output' = "failed"
  /\ timer'  = IF listening THEN "close" ELSE timer
  /\ UNCHANGED retryCount

\* Mutant of ConnectionLost: nothing reconnects.
ConnectionLostForever(k) ==
  /\ SocketCloses(k)
  /\ ~ sockets[k].userClosed /\ sockets[k].hasOpened
  /\ UNCHANGED <<timer, retryCount, output>>

ConnectionLost(k) ==
  /\ SocketCloses(k)
  /\ ~ sockets[k].userClosed /\ sockets[k].hasOpened
  /\ timer' = "connect"
  /\ UNCHANGED <<retryCount, output>>

\* setTimeout(connect, retryIntervalMs).
Reconnects ==
  /\ timer = "connect" /\ Len(sockets) < MaxSockets
  /\ timer'   = "none"
  /\ sockets' = Append(sockets, NewSocket)
  /\ UNCHANGED <<retryCount, output, closes, listening>>

ClosesAfterError ==
  /\ timer = "close"
  /\ timer'  = "none"
  /\ output' = "closed"
  /\ UNCHANGED <<sockets, retryCount, closes, listening>>

\* close(), by the program.  ws.close() does nothing to a closed socket.
UserCloses ==
  /\ closes < MaxCloses
  /\ closes'  = closes + 1
  /\ sockets' = [sockets EXCEPT ![Last].userClosed = TRUE,
                                ![Last].state = IF Live THEN "closing" ELSE @]
  /\ UNCHANGED <<retryCount, timer, output, listening>>

OnClose(k) == ClosedByUser(k) \/ ConnectFails(k) \/ GivesUp(k) \/ ConnectionLost(k)

WsNext ==
  \/ \E k \in 1 .. Len(sockets) :
       SocketOpens(k) \/ SocketDelivers(k) \/ SocketDeliversJunk(k) \/ OnClose(k)
  \/ Reconnects \/ ClosesAfterError \/ UserCloses

WsSpec == WsInit /\ [][WsNext]_wsVars

\* A socket told to close does; a timer fires.
WsFairness ==
  /\ WF_wsVars(Reconnects) /\ WF_wsVars(ClosesAfterError)
  /\ WF_wsVars(\E k \in 1 .. Len(sockets) : sockets[k].state = "closing" /\ OnClose(k))

-----------------------------------------------------------------------------
\* The stream never has two connections, and never none without having ended:
\* of a live socket, a running timer and the end of the stream there is exactly
\* one, in every order of opens, failures, junk and calls of close().
\* (Without an "error" listener it may give up without ever being closed.)
OneConnection ==
  /\ \A k \in 1 .. Last - 1 : sockets[k].state = "closed"
  /\ (timer = "connect") <=> (~ Live /\ output = "open")
  /\ Live => output = "open"
  /\ (timer = "close") => output = "failed"
  /\ listening /\ output = "failed" => timer = "close"

\* retryCount is the number of connections that failed since the last one that
\* opened, and the stream gives up only after retryLimit + 1 of them in a row.
FailedInARow(n) == \A k \in Last - n + 1 .. Last :
                      k > 0 /\ ~ sockets[k].hasOpened /\ sockets[k].state = "closed"

RetryBudget ==
  /\ output = "failed" => FailedInARow(retryLimit + 1)
  /\ timer = "connect" /\ ~ sockets[Last].hasOpened => FailedInARow(retryCount)
  /\ output = "open" => ~ FailedInARow(retryLimit + 1)

\* After close() no connection is made any more ("should not retry when closed
\* by user").
CloseStopsReconnecting == [][closes > 0 => Len(sockets') = Len(sockets)]_wsVars

\* close() while there is a socket ends the stream with "close" (ClosedByUser).
CloseEndsStream == (sockets[Last].userClosed /\ Live) ~> output = "closed"
=============================================================================
