----------------------- MODULE SubscribeEventsProofs -----------------------
(***************************************************************************)
(* Theorems about the event stream and the socket it reconnects, for every *)
(* limit of retries, number of sockets, calls of close(), chain and events.*)
(***************************************************************************)
EXTENDS SubscribeEvents, TLAPS

(* A step of the socket, as the stream takes it.  What the stream keeps of *)
(* its own is not read by it.                                              *)
WsStep ==
  \/ \E k \in 1 .. Len(sockets) : \/ SocketOpens(k) \/ SocketDeliversJunk(k)
                                  \/ ClosedByUser(k) \/ ConnectFails(k) \/ GivesUp(k) \/ ConnectionLost(k)
  \/ Reconnects \/ ClosesAfterError \/ UserCloses \/ UNCHANGED wsVars

LEMMA LastIsOne == WsTypeOK => Last \in 1 .. Len(sockets) /\ sockets[Last] \in Socket
  BY DEF WsTypeOK, Last

LEMMA SeStepIsWsStep == WsTypeOK /\ [SeNext]_allVars => WsStep
<1> SUFFICES ASSUME WsTypeOK, [SeNext]_allVars PROVE WsStep
  OBVIOUS
<1> USE LastIsOne
<1>1. CASE BlockSealed
  BY <1>1 DEF BlockSealed, WsStep
<1>2. CASE Resumes
  BY <1>2 DEF Resumes, WsStep
<1>3. CASE StreamOpens
  BY <1>3 DEF StreamOpens, WsStep
<1>4. CASE ConnectionStep
  BY <1>4 DEF ConnectionStep, WsStep, OnClose
<1>5. ASSUME NEW h \in 0 .. MaxHeight, BlockArrives(h) PROVE WsStep
  BY <1>5 DEF BlockArrives, SocketDelivers, WsStep
<1>6. CASE UNCHANGED allVars
  BY <1>6 DEF allVars, WsStep
<1> QED BY <1>1, <1>2, <1>3, <1>4, <1>5, <1>6 DEF SeNext

-----------------------------------------------------------------------------
(* What a step does to the sockets: one of them is replaced, or one added. *)

Becomes(k, s) ==
  /\ sockets' \in Seq(Socket) /\ Len(sockets') = Len(sockets)
  /\ sockets'[k] = s
  /\ \A j \in 1 .. Len(sockets) : j # k => sockets'[j] = sockets[j]

LEMMA Replaced ==
  ASSUME WsTypeOK, NEW k \in 1 .. Len(sockets), NEW s \in Socket,
         sockets' = [sockets EXCEPT ![k] = s]
  PROVE  Becomes(k, s)
  BY DEF WsTypeOK, Becomes

LEMMA Opened ==
  ASSUME WsTypeOK, NEW k \in 1 .. Len(sockets), SocketOpens(k)
  PROVE  \E s \in Socket : /\ Becomes(k, s) /\ s.state = "open" /\ s.hasOpened
                           /\ s.userClosed = sockets[k].userClosed
<1> DEFINE s == [sockets[k] EXCEPT !.state = "open", !.hasOpened = TRUE]
<1>1. sockets[k] \in Socket
  BY DEF WsTypeOK
<1>2. s \in Socket /\ s.state = "open" /\ s.hasOpened /\ s.userClosed = sockets[k].userClosed
  BY <1>1 DEF Socket
<1>3. sockets' = [sockets EXCEPT ![k] = s]
  BY DEF SocketOpens
<1>4. Becomes(k, s)
  BY <1>2, <1>3, Replaced
<1> QED BY <1>2, <1>4

LEMMA Closed ==
  ASSUME WsTypeOK, NEW k \in 1 .. Len(sockets), SocketCloses(k)
  PROVE  \E s \in Socket : /\ Becomes(k, s) /\ s.state = "closed"
                           /\ s.hasOpened = sockets[k].hasOpened
                           /\ s.userClosed = sockets[k].userClosed
<1> DEFINE s == [sockets[k] EXCEPT !.state = "closed"]
<1>1. sockets[k] \in Socket
  BY DEF WsTypeOK
<1>2. /\ s \in Socket /\ s.state = "closed" /\ s.hasOpened = sockets[k].hasOpened
      /\ s.userClosed = sockets[k].userClosed
  BY <1>1 DEF Socket
<1>3. sockets' = [sockets EXCEPT ![k] = s]
  BY DEF SocketCloses
<1>4. Becomes(k, s)
  BY <1>2, <1>3, Replaced
<1> QED BY <1>2, <1>4

LEMMA Junk ==
  ASSUME WsTypeOK, NEW k \in 1 .. Len(sockets), SocketDeliversJunk(k)
  PROVE  \E s \in Socket : /\ Becomes(k, s) /\ s.state \in {"open", "closing"}
                           /\ s.hasOpened = sockets[k].hasOpened
                           /\ s.userClosed = sockets[k].userClosed
<1> DEFINE s == IF listening THEN [sockets[k] EXCEPT !.state = "closing"] ELSE sockets[k]
<1>1. sockets[k] \in Socket
  BY DEF WsTypeOK
<1>2. /\ s \in Socket /\ s.state \in {"open", "closing"} /\ s.hasOpened = sockets[k].hasOpened
      /\ s.userClosed = sockets[k].userClosed
  BY <1>1 DEF Socket, SocketDeliversJunk
<1>3. sockets' = [sockets EXCEPT ![k] = s]
  <2>1. CASE listening
    BY <2>1 DEF SocketDeliversJunk
  <2>2. CASE ~ listening
    BY <2>2 DEF SocketDeliversJunk, WsTypeOK
  <2> QED BY <2>1, <2>2
<1>4. Becomes(k, s)
  BY <1>2, <1>3, Replaced
<1> QED BY <1>2, <1>4

LEMMA ToldToClose ==
  ASSUME WsTypeOK, UserCloses
  PROVE  \E s \in Socket : /\ Becomes(Last, s) /\ s.userClosed
                           /\ s.state = (IF Live THEN "closing" ELSE sockets[Last].state)
                           /\ s.hasOpened = sockets[Last].hasOpened
<1> DEFINE s == [sockets[Last] EXCEPT !.userClosed = TRUE, !.state = IF Live THEN "closing" ELSE @]
<1>1. Last \in 1 .. Len(sockets) /\ sockets[Last] \in Socket
  BY LastIsOne
<1>2. /\ s \in Socket /\ s.userClosed /\ s.hasOpened = sockets[Last].hasOpened
      /\ s.state = (IF Live THEN "closing" ELSE sockets[Last].state)
  BY <1>1 DEF Socket
<1>3. sockets' = [sockets EXCEPT ![Last] = s]
  BY DEF UserCloses
<1>4. Becomes(Last, s)
  BY <1>1, <1>2, <1>3, Replaced
<1> QED BY <1>2, <1>4

LEMMA Added ==
  ASSUME WsTypeOK, Reconnects
  PROVE  /\ sockets' \in Seq(Socket) /\ Len(sockets') = Len(sockets) + 1
         /\ \A j \in 1 .. Len(sockets) : sockets'[j] = sockets[j]
         /\ sockets'[Len(sockets) + 1] = NewSocket
<1>1. NewSocket \in Socket
  BY DEF NewSocket, Socket
<1> QED BY <1>1 DEF Reconnects, WsTypeOK

-----------------------------------------------------------------------------
(* Types. *)

LEMMA InitTyped == WsInit => WsTypeOK
<1> SUFFICES ASSUME WsInit PROVE WsTypeOK
  OBVIOUS
<1>1. NewSocket \in Socket
  BY DEF NewSocket, Socket
<1> QED BY <1>1, ConnectWsAssumption DEF WsInit, WsTypeOK

LEMMA SeqNotEmpty == ASSUME NEW s \in Seq(Socket), Len(s) # 0 PROVE s # << >>
  OBVIOUS

LEMMA StepTyped == WsTypeOK /\ WsStep => WsTypeOK'
<1> SUFFICES ASSUME WsTypeOK, WsStep PROVE WsTypeOK'
  OBVIOUS
<1> USE ConnectWsAssumption
<1>0. Len(sockets) \in Nat \ {0} /\ (sockets' \in Seq(Socket) /\ Len(sockets') # 0 => sockets' # << >>)
  BY SeqNotEmpty DEF WsTypeOK
<1>1. ASSUME NEW k \in 1 .. Len(sockets), SocketOpens(k) PROVE WsTypeOK'
  <2>1. sockets' \in Seq(Socket) /\ Len(sockets') = Len(sockets)
    BY <1>1, Opened DEF Becomes
  <2> QED BY <1>0, <1>1, <2>1 DEF SocketOpens, WsTypeOK
<1>2. ASSUME NEW k \in 1 .. Len(sockets), SocketDeliversJunk(k) PROVE WsTypeOK'
  <2>1. sockets' \in Seq(Socket) /\ Len(sockets') = Len(sockets)
    BY <1>2, Junk DEF Becomes
  <2> QED BY <1>0, <1>2, <2>1 DEF SocketDeliversJunk, WsTypeOK
<1>3. ASSUME NEW k \in 1 .. Len(sockets),
             ClosedByUser(k) \/ ConnectFails(k) \/ GivesUp(k) \/ ConnectionLost(k)
      PROVE WsTypeOK'
  <2>1. SocketCloses(k)
    BY <1>3 DEF ClosedByUser, ConnectFails, GivesUp, ConnectionLost
  <2>2. sockets' \in Seq(Socket) /\ Len(sockets') = Len(sockets) /\ UNCHANGED <<closes, listening>>
    BY <2>1, Closed DEF Becomes, SocketCloses
  <2>3. /\ retryCount' \in 0 .. retryLimit /\ timer' \in {"none", "connect", "close"}
        /\ output' \in {"open", "failed", "closed"}
    BY <1>3 DEF ClosedByUser, ConnectFails, GivesUp, ConnectionLost, WsTypeOK
  <2> QED BY <1>0, <2>2, <2>3 DEF WsTypeOK
<1>4. CASE Reconnects
  <2>1. sockets' \in Seq(Socket) /\ Len(sockets') = Len(sockets) + 1
    BY <1>4, Added
  <2> QED BY <1>0, <1>4, <2>1 DEF Reconnects, WsTypeOK
<1>5. CASE ClosesAfterError
  BY <1>5 DEF ClosesAfterError, WsTypeOK
<1>6. CASE UserCloses
  <2>1. sockets' \in Seq(Socket) /\ Len(sockets') = Len(sockets)
    BY <1>6, ToldToClose DEF Becomes
  <2> QED BY <1>0, <1>6, <2>1 DEF UserCloses, WsTypeOK
<1>7. CASE UNCHANGED wsVars
  BY <1>7 DEF wsVars, WsTypeOK
<1> QED BY <1>1, <1>2, <1>3, <1>4, <1>5, <1>6, <1>7 DEF WsStep

-----------------------------------------------------------------------------
(* One connection.  OneConnection is inductive over the types. *)

LEMMA InitOneConnection == WsInit => OneConnection
  BY DEF WsInit, OneConnection, NewSocket, Last, Live

(* Only the last socket can do anything. *)
LEMMA OnlyLast ==
  ASSUME WsTypeOK, OneConnection, NEW k \in 1 .. Len(sockets), sockets[k].state # "closed"
  PROVE  k = Last /\ Live /\ output = "open" /\ timer = "none"
<1>1. k = Last
  BY DEF OneConnection, Last, WsTypeOK
<1> QED BY <1>1 DEF OneConnection, Live, WsTypeOK

LEMMA StepOneConnection == WsTypeOK /\ OneConnection /\ WsStep => OneConnection'
<1> SUFFICES ASSUME WsTypeOK, OneConnection, WsStep PROVE OneConnection'
  OBVIOUS
<1>0. Last \in 1 .. Len(sockets) /\ Last = Len(sockets) /\ Last' = Len(sockets')
  BY LastIsOne DEF Last
<1>1. ASSUME NEW k \in 1 .. Len(sockets), SocketOpens(k) PROVE OneConnection'
  <2>1. PICK s \in Socket : Becomes(k, s) /\ s.state = "open"
    BY <1>1, Opened
  <2>2. k = Last /\ Live /\ output = "open" /\ timer = "none"
    BY <1>1, OnlyLast DEF SocketOpens
  <2>3. Last' = Last /\ sockets'[Last].state = "open" /\ Live'
    BY <1>0, <2>1, <2>2 DEF Becomes, Live
  <2>4. \A j \in 1 .. Last - 1 : sockets'[j].state = "closed"
    BY <1>0, <2>1, <2>2 DEF Becomes, OneConnection
  <2>5. output' = "open" /\ timer' = "none"
    BY <1>1, <2>2 DEF SocketOpens
  <2> QED BY <2>3, <2>4, <2>5 DEF OneConnection
<1>2. ASSUME NEW k \in 1 .. Len(sockets), SocketDeliversJunk(k) PROVE OneConnection'
  <2>1. PICK s \in Socket : Becomes(k, s) /\ s.state \in {"open", "closing"}
    BY <1>2, Junk
  <2>2. k = Last /\ Live /\ output = "open" /\ timer = "none"
    BY <1>2, OnlyLast DEF SocketDeliversJunk
  <2>3. Last' = Last /\ Live'
    BY <1>0, <2>1, <2>2 DEF Becomes, Live
  <2>4. \A j \in 1 .. Last - 1 : sockets'[j].state = "closed"
    BY <1>0, <2>1, <2>2 DEF Becomes, OneConnection
  <2>5. output' = "open" /\ timer' = "none"
    BY <1>2, <2>2 DEF SocketDeliversJunk
  <2> QED BY <2>3, <2>4, <2>5 DEF OneConnection
<1>3. ASSUME NEW k \in 1 .. Len(sockets),
             ClosedByUser(k) \/ ConnectFails(k) \/ GivesUp(k) \/ ConnectionLost(k)
      PROVE OneConnection'
  <2>0. SocketCloses(k)
    BY <1>3 DEF ClosedByUser, ConnectFails, GivesUp, ConnectionLost
  <2>1. PICK s \in Socket : Becomes(k, s) /\ s.state = "closed"
    BY <2>0, Closed
  <2>2. k = Last /\ Live /\ output = "open" /\ timer = "none"
    BY <2>0, OnlyLast DEF SocketCloses
  <2>3. Last' = Last /\ ~ Live'
    BY <1>0, <2>1, <2>2 DEF Becomes, Live
  <2>4. \A j \in 1 .. Last - 1 : sockets'[j].state = "closed"
    BY <1>0, <2>1, <2>2 DEF Becomes, OneConnection
  <2>5. \/ timer' = "none" /\ output' = "closed"
        \/ timer' = "connect" /\ output' = "open"
        \/ output' = "failed" /\ timer' = IF listening' THEN "close" ELSE "none"
    BY <1>3, <2>2, <2>0 DEF ClosedByUser, ConnectFails, GivesUp, ConnectionLost, SocketCloses
  <2> QED BY <2>3, <2>4, <2>5 DEF OneConnection
<1>4. CASE Reconnects
  <2>1. /\ Len(sockets') = Len(sockets) + 1 /\ sockets'[Len(sockets) + 1].state = "connecting"
        /\ \A j \in 1 .. Len(sockets) : sockets'[j] = sockets[j]
    BY <1>4, Added DEF NewSocket
  <2>2. ~ Live /\ output = "open" /\ timer = "connect"
    BY <1>4 DEF Reconnects, OneConnection
  <2>3. Last' = Last + 1 /\ Live'
    BY <1>0, <2>1 DEF Live
  <2>4. \A j \in 1 .. Last : sockets'[j].state = "closed"
    BY <1>0, <2>1, <2>2 DEF OneConnection, Live
  <2>5. output' = "open" /\ timer' = "none"
    BY <1>4, <2>2 DEF Reconnects
  <2> QED BY <1>0, <2>3, <2>4, <2>5 DEF OneConnection
<1>5. CASE ClosesAfterError
  BY <1>5 DEF ClosesAfterError, OneConnection, Live, Last
<1>6. CASE UserCloses
  <2>1. PICK s \in Socket : Becomes(Last, s) /\ s.state = (IF Live THEN "closing" ELSE sockets[Last].state)
    BY <1>6, ToldToClose
  <2>2. Last' = Last /\ (Live' <=> Live)
    BY <1>0, <2>1 DEF Becomes, Live
  <2>3. \A j \in 1 .. Last - 1 : sockets'[j].state = "closed"
    BY <1>0, <2>1 DEF Becomes, OneConnection
  <2> QED BY <1>6, <2>2, <2>3 DEF OneConnection, UserCloses
<1>7. CASE UNCHANGED wsVars
  BY <1>7 DEF wsVars, OneConnection, Live, Last
<1> QED BY <1>1, <1>2, <1>3, <1>4, <1>5, <1>6, <1>7 DEF WsStep

-----------------------------------------------------------------------------
(* The retry budget.  While the stream is open the sockets behind the last *)
(* one that opened are counted: retryCount of them, and one more while it  *)
(* has not been decided what becomes of the last.                          *)

Tried == IF Live /\ ~ sockets[Last].hasOpened THEN retryCount + 1 ELSE retryCount

Counted(n) ==
  /\ \A k \in Last - n + 1 .. Last : k > 0 /\ ~ sockets[k].hasOpened
  /\ Last - n = 0 \/ (Last - n > 0 /\ sockets[Last - n].hasOpened)

Retries ==
  /\ output = "open" => Counted(Tried)
  /\ output = "open" /\ sockets[Last].hasOpened => retryCount = 0
  /\ output = "failed" => FailedInARow(retryLimit + 1)

LEMMA InitRetries == WsInit => Retries
<1> SUFFICES ASSUME WsInit PROVE Retries
  OBVIOUS
<1>1. Last = 1 /\ Live /\ ~ sockets[1].hasOpened /\ retryCount = 0 /\ output = "open"
  BY DEF WsInit, NewSocket, Last, Live
<1>2. Tried = 1
  BY <1>1 DEF Tried
<1>3. Counted(1)
  BY <1>1 DEF Counted
<1> QED BY <1>1, <1>2, <1>3 DEF Retries

LEMMA StepRetries == WsTypeOK /\ OneConnection /\ Retries /\ WsStep => Retries'
<1> SUFFICES ASSUME WsTypeOK, OneConnection, Retries, WsStep PROVE Retries'
  OBVIOUS
<1> USE ConnectWsAssumption
<1>0. /\ Last \in 1 .. Len(sockets) /\ Last = Len(sockets) /\ Last' = Len(sockets')
      /\ Last \in Nat \ {0} /\ retryCount \in 0 .. retryLimit /\ retryCount \in Nat
  BY LastIsOne DEF Last, WsTypeOK
<1>1. ASSUME NEW k \in 1 .. Len(sockets), SocketOpens(k) PROVE Retries'
  <2>1. PICK s \in Socket : Becomes(k, s) /\ s.hasOpened
    BY <1>1, Opened
  <2>2. k = Last /\ output = "open"
    BY <1>1, OnlyLast DEF SocketOpens
  <2>3. Last' = Last /\ sockets'[Last].hasOpened /\ retryCount' = 0 /\ output' = "open"
    BY <1>0, <1>1, <2>1, <2>2 DEF Becomes, SocketOpens
  <2>4. Tried' = 0
    BY <2>3 DEF Tried
  <2>5. Counted(0)'
    BY <1>0, <2>3 DEF Counted
  <2>6. Counted(Tried)'
    BY <2>4, <2>5 DEF Counted
  <2> QED BY <2>3, <2>6 DEF Retries
<1>2. ASSUME NEW k \in 1 .. Len(sockets), SocketDeliversJunk(k) PROVE Retries'
  <2>1. PICK s \in Socket : /\ Becomes(k, s) /\ s.state \in {"open", "closing"}
                            /\ s.hasOpened = sockets[k].hasOpened
    BY <1>2, Junk
  <2>2. k = Last /\ Live /\ output = "open"
    BY <1>2, OnlyLast DEF SocketDeliversJunk
  <2>3. /\ Last' = Last /\ retryCount' = retryCount /\ output' = "open" /\ Live'
        /\ \A j \in 1 .. Last : sockets'[j].hasOpened = sockets[j].hasOpened
    BY <1>0, <1>2, <2>1, <2>2 DEF Becomes, SocketDeliversJunk, Live
  <2>4. Tried' = Tried
    BY <1>0, <2>2, <2>3 DEF Tried
  <2>5. Tried \in Nat /\ Counted(Tried)
    BY <1>0, <2>2 DEF Tried, Retries
  <2>6. Counted(Tried)'
    BY <1>0, <2>3, <2>4, <2>5 DEF Counted
  <2> QED BY <1>0, <2>2, <2>3, <2>6 DEF Retries
<1>3. ASSUME NEW k \in 1 .. Len(sockets),
             ClosedByUser(k) \/ ConnectFails(k) \/ GivesUp(k) \/ ConnectionLost(k)
      PROVE Retries'
  <2>0. SocketCloses(k)
    BY <1>3 DEF ClosedByUser, ConnectFails, GivesUp, ConnectionLost
  <2>1. PICK s \in Socket : /\ Becomes(k, s) /\ s.state = "closed"
                            /\ s.hasOpened = sockets[k].hasOpened
    BY <2>0, Closed
  <2>2. k = Last /\ Live /\ output = "open"
    BY <2>0, OnlyLast DEF SocketCloses
  <2>3. /\ Last' = Last /\ ~ Live' /\ sockets'[Last].state = "closed"
        /\ \A j \in 1 .. Last : sockets'[j].hasOpened = sockets[j].hasOpened
    BY <1>0, <2>1, <2>2 DEF Becomes, Live
  <2>4. Tried \in Nat /\ Counted(Tried) /\ Tried' = retryCount'
    BY <1>0, <2>2, <2>3 DEF Tried, Retries
  <2>5. CASE ClosedByUser(k)
    BY <2>5 DEF ClosedByUser, Retries
  <2>6. CASE ConnectFails(k)
    <3>1. Tried = retryCount + 1 /\ retryCount' = retryCount + 1 /\ ~ sockets[Last].hasOpened
      BY <2>2, <2>6 DEF ConnectFails, Tried
    <3>2. Counted(Tried)'
      BY <1>0, <2>3, <2>4, <3>1 DEF Counted
    <3> QED BY <1>0, <2>2, <2>3, <2>6, <3>1, <3>2 DEF Retries, ConnectFails
  <2>7. CASE GivesUp(k)
    <3>1. retryCount = retryLimit /\ ~ sockets[Last].hasOpened /\ output' = "failed"
      BY <1>0, <2>2, <2>7 DEF GivesUp
    <3>2. Tried = retryLimit + 1
      BY <2>2, <3>1 DEF Tried
    <3>3. \A j \in Last - (retryLimit + 1) + 1 .. Last : j > 0 /\ ~ sockets'[j].hasOpened
      BY <1>0, <2>3, <2>4, <3>2 DEF Counted
    <3>4. \A j \in 1 .. Last : sockets'[j].state = "closed"
      BY <1>0, <2>1, <2>2, <2>3 DEF Becomes, OneConnection
    <3>5. FailedInARow(retryLimit + 1)'
      BY <1>0, <2>3, <3>3, <3>4 DEF FailedInARow
    <3> QED BY <3>1, <3>5 DEF Retries
  <2>8. CASE ConnectionLost(k)
    <3>1. retryCount' = retryCount /\ output' = "open" /\ sockets[Last].hasOpened
      BY <2>2, <2>8 DEF ConnectionLost
    <3>2. retryCount = 0 /\ Tried = 0
      BY <2>2, <3>1 DEF Retries, Tried
    <3>3. Counted(Tried)'
      BY <1>0, <2>3, <2>4, <3>1, <3>2 DEF Counted
    <3> QED BY <3>1, <3>2, <3>3 DEF Retries
  <2> QED BY <1>3, <2>5, <2>6, <2>7, <2>8
<1>4. CASE Reconnects
  <2>1. /\ Len(sockets') = Len(sockets) + 1 /\ sockets'[Len(sockets) + 1] = NewSocket
        /\ \A j \in 1 .. Len(sockets) : sockets'[j] = sockets[j]
    BY <1>4, Added
  <2>2. ~ Live /\ output = "open" /\ retryCount' = retryCount /\ output' = "open"
    BY <1>4 DEF Reconnects, OneConnection
  <2>3. /\ Last' = Last + 1 /\ Live' /\ ~ sockets'[Last + 1].hasOpened
        /\ \A j \in 1 .. Last : sockets'[j].hasOpened = sockets[j].hasOpened
    BY <1>0, <2>1 DEF Live, NewSocket
  <2>4. Tried = retryCount /\ Counted(retryCount)
    BY <2>2 DEF Tried, Retries
  <2>5. Tried' = retryCount + 1
    BY <2>2, <2>3 DEF Tried
  <2>6. \A j \in (Last + 1) - (retryCount + 1) + 1 .. Last + 1 : j > 0 /\ ~ sockets'[j].hasOpened
    <3> SUFFICES ASSUME NEW j \in (Last + 1) - (retryCount + 1) + 1 .. Last + 1
                 PROVE  j > 0 /\ ~ sockets'[j].hasOpened
      OBVIOUS
    <3>1. CASE j = Last + 1
      BY <1>0, <2>3, <3>1
    <3>2. CASE j # Last + 1
      <4>1. j \in Last - retryCount + 1 .. Last
        BY <1>0, <3>2
      <4>2. j > 0 /\ ~ sockets[j].hasOpened
        BY <2>4, <4>1 DEF Counted
      <4>3. j \in 1 .. Last
        BY <1>0, <4>1, <4>2
      <4> QED BY <2>3, <4>2, <4>3
    <3> QED BY <3>1, <3>2
  <2>7. Counted(Tried)'
    BY <1>0, <2>3, <2>4, <2>5, <2>6 DEF Counted
  <2> QED BY <1>0, <2>2, <2>3, <2>7 DEF Retries
<1>5. CASE ClosesAfterError
  BY <1>5 DEF ClosesAfterError, Retries
<1>6. CASE UserCloses
  <2>1. PICK s \in Socket : /\ Becomes(Last, s) /\ s.hasOpened = sockets[Last].hasOpened
                            /\ s.state = (IF Live THEN "closing" ELSE sockets[Last].state)
    BY <1>6, ToldToClose
  <2>2. /\ Last' = Last /\ (Live' <=> Live) /\ retryCount' = retryCount /\ output' = output
        /\ \A j \in 1 .. Last : /\ sockets'[j].hasOpened = sockets[j].hasOpened
                                /\ sockets[j].state = "closed" => sockets'[j].state = "closed"
    BY <1>0, <1>6, <2>1 DEF Becomes, Live, UserCloses
  <2>3. Tried' = Tried /\ Tried \in Nat
    BY <1>0, <2>2 DEF Tried
  <2>4. Counted(Tried) => Counted(Tried)'
    BY <1>0, <2>2, <2>3 DEF Counted
  <2>5. FailedInARow(retryLimit + 1) => FailedInARow(retryLimit + 1)'
    BY <1>0, <2>2 DEF FailedInARow
  <2> QED BY <1>0, <2>2, <2>4, <2>5 DEF Retries
<1>7. CASE UNCHANGED wsVars
  BY <1>7 DEF wsVars, Retries, Tried, Counted, FailedInARow, Live, Last
<1> QED BY <1>1, <1>2, <1>3, <1>4, <1>5, <1>6, <1>7 DEF WsStep

LEMMA RetriesInBudget == WsTypeOK /\ OneConnection /\ Retries => RetryBudget
<1> SUFFICES ASSUME WsTypeOK, OneConnection, Retries PROVE RetryBudget
  OBVIOUS
<1> USE ConnectWsAssumption
<1>0. Last \in Nat \ {0} /\ Last = Len(sockets) /\ retryCount \in 0 .. retryLimit
  BY LastIsOne DEF Last, WsTypeOK
<1>1. output = "failed" => FailedInARow(retryLimit + 1)
  BY DEF Retries
<1>2. ASSUME timer = "connect", ~ sockets[Last].hasOpened PROVE FailedInARow(retryCount)
  <2>1. ~ Live /\ output = "open" /\ Counted(retryCount)
    BY <1>2 DEF OneConnection, Retries, Tried
  <2>2. \A k \in 1 .. Last : sockets[k].state = "closed"
    BY <1>0, <2>1 DEF OneConnection, Live
  <2> QED BY <1>0, <2>1, <2>2 DEF Counted, FailedInARow
<1>3. ASSUME output = "open", FailedInARow(retryLimit + 1) PROVE FALSE
  <2>1. ~ Live /\ ~ sockets[Last].hasOpened
    BY <1>0, <1>3 DEF FailedInARow, Live
  <2>2. Counted(retryCount)
    BY <1>3, <2>1 DEF Retries, Tried
  <2>3. Last - retryCount \in Last - (retryLimit + 1) + 1 .. Last
    BY <1>0
  <2>4. Last - retryCount > 0 /\ ~ sockets[Last - retryCount].hasOpened
    BY <1>3, <2>3 DEF FailedInARow
  <2> QED BY <1>0, <2>2, <2>4 DEF Counted
<1> QED BY <1>1, <1>2, <1>3 DEF RetryBudget

-----------------------------------------------------------------------------
(* The theorems about the socket. *)

WsIInv == WsTypeOK /\ OneConnection /\ Retries

LEMMA WsInductive == SeSpec => []WsIInv
<1>1. SeInit => WsIInv
  BY InitTyped, InitOneConnection, InitRetries DEF SeInit, WsIInv
<1>2. WsIInv /\ [SeNext]_allVars => WsIInv'
  BY SeStepIsWsStep, StepTyped, StepOneConnection, StepRetries DEF WsIInv
<1> QED BY <1>1, <1>2, PTL DEF SeSpec

(* Of a live socket, a timer that will make one and the end of the stream  *)
(* there is always exactly one (connect-ws.ts).                            *)
THEOREM ConnectionIsOne == SeSpec => []OneConnection
<1>1. WsIInv => OneConnection
  BY DEF WsIInv
<1> QED BY <1>1, WsInductive, PTL

(* The stream gives up after retryLimit + 1 connections that failed in a   *)
(* row, and not before (connect-ws.ts, onclose and onopen).                *)
THEOREM BudgetIsKept == SeSpec => []RetryBudget
<1>1. WsIInv => RetryBudget
  BY RetriesInBudget DEF WsIInv
<1> QED BY <1>1, WsInductive, PTL

-----------------------------------------------------------------------------
(* What is delivered.  A height of 0 counts as none in the code, so that   *)
(* the chain is taken to begin above it and 0 not to be asked for.         *)

Above0 == RootHeight > 0 /\ 0 \notin StartHeights

(* The node is asked for the block behind the last one delivered, or for   *)
(* the start as long as there is none.                                     *)
Resumed ==
  /\ startHeight \in StartHeights
  /\ chain \in Nat /\ chain > 0
  /\ delivered \in Seq(Nat)
  /\ sockets[Last].state = "open" => cursor # Latest
  /\ delivered = << >> =>
       /\ lastBlockHeight = Null
       /\ IF startHeight = Latest THEN cursor = Latest \/ (cursor \in Nat /\ cursor > 0)
                                  ELSE cursor = startHeight
  /\ delivered # << >> =>
       /\ lastBlockHeight = delivered[Len(delivered)] /\ lastBlockHeight > 0
       /\ cursor = lastBlockHeight + 1

(* The events from the start on, up to the last block, have been delivered. *)
First == IF startHeight = Latest THEN delivered[1] ELSE startHeight
Complete ==
  delivered # << >> =>
    \A e \in EventBlocks : First <= e /\ e <= lastBlockHeight =>
      \E i \in 1 .. Len(delivered) : delivered[i] = e

Feed == Resumed /\ DeliveredInOrder /\ Complete

LEMMA InitFeed == Above0 /\ SeInit => Feed
<1> SUFFICES ASSUME Above0, SeInit PROVE Feed
  OBVIOUS
<1> USE SubscribeEventsAssumption
<1>1. delivered = << >> /\ lastBlockHeight = Null /\ startHeight \in StartHeights
  BY DEF SeInit
<1>2. startHeight # 0 /\ cursor = startHeight
  BY DEF SeInit, Sent, Above0
<1>3. sockets[Last].state = "connecting"
  BY DEF SeInit, WsInit, Last, NewSocket
<1>4. Resumed
  BY <1>1, <1>2, <1>3 DEF Resumed, SeInit, Above0, Latest
<1> QED BY <1>1, <1>4 DEF Feed, DeliveredInOrder, Complete

(* A step that delivers nothing. *)
LEMMA StepQuiet ==
  ASSUME Feed, Resumed', UNCHANGED <<delivered, startHeight, lastBlockHeight>>
  PROVE  Feed'
  BY DEF Feed, DeliveredInOrder, Complete, First

LEMMA StepSocket ==
  ASSUME WsIInv, Feed, ConnectionStep
  PROVE  sockets'[Last'].state = "open" => sockets[Last].state = "open"
<1> USE LastIsOne DEF WsIInv
<1>1. Last = Len(sockets) /\ Last' = Len(sockets')
  BY DEF Last
<1>2. CASE SocketDeliversJunk(Last)
  BY <1>1, <1>2, Junk DEF Becomes, SocketDeliversJunk
<1>3. CASE OnClose(Last)
  <2>1. SocketCloses(Last)
    BY <1>3 DEF OnClose, ClosedByUser, ConnectFails, GivesUp, ConnectionLost
  <2>2. sockets'[Last'].state = "closed"
    BY <1>1, <2>1, Closed DEF Becomes
  <2> QED BY <2>2
<1>4. CASE ClosesAfterError
  BY <1>1, <1>4 DEF ClosesAfterError
<1>5. CASE UserCloses
  <2>1. sockets'[Last'].state = (IF Live THEN "closing" ELSE sockets[Last].state)
    BY <1>1, <1>5, ToldToClose DEF Becomes
  <2> QED BY <2>1 DEF Live
<1> QED BY <1>2, <1>3, <1>4, <1>5 DEF ConnectionStep

LEMMA StepDelivers ==
  ASSUME Above0, WsIInv, Feed, NEW h \in 0 .. MaxHeight, BlockArrives(h)
  PROVE  Feed'
<1> USE SubscribeEventsAssumption
<1>1. /\ sockets[Last].state = "open" /\ UNCHANGED wsVars
      /\ h \in cursor .. chain /\ (\A e \in EventBlocks : e >= cursor => e >= h)
      /\ cursor' = h + 1 /\ lastBlockHeight' = h /\ delivered' = Append(delivered, h)
      /\ UNCHANGED <<startHeight, chain>>
  BY DEF BlockArrives, SocketDelivers
<1>2. /\ delivered \in Seq(Nat) /\ chain \in Nat /\ startHeight \in Nat \cup {Latest}
      /\ startHeight # 0
  BY DEF Feed, Resumed, Above0
<1>3. cursor \in Nat /\ cursor > 0
  BY <1>1, <1>2 DEF Feed, Resumed, Latest
<1>4. h \in Nat /\ h > 0 /\ h >= cursor
  BY <1>1, <1>3
<1>5. /\ delivered' \in Seq(Nat) /\ Len(delivered') = Len(delivered) + 1
      /\ delivered'[Len(delivered) + 1] = h /\ delivered' # << >>
      /\ \A i \in 1 .. Len(delivered) : delivered'[i] = delivered[i]
  BY <1>1, <1>2, <1>4
<1>6. Resumed'
  <2>1. sockets' = sockets /\ Last' = Last
    BY <1>1 DEF wsVars, Last
  <2>2. cursor' # Latest
    BY <1>1, <1>4 DEF Latest
  <2> QED BY <1>1, <1>2, <1>4, <1>5, <2>1, <2>2 DEF Feed, Resumed
<1>7. DeliveredInOrder'
  <2> SUFFICES ASSUME NEW i \in 1 .. Len(delivered') - 1
               PROVE  delivered'[i] < delivered'[i + 1]
    BY DEF DeliveredInOrder
  <2>1. Len(delivered) \in Nat /\ i \in 1 .. Len(delivered)
    BY <1>2, <1>5
  <2>2. CASE i = Len(delivered)
    <3>1. delivered # << >>
      BY <1>2, <2>1
    <3>2. delivered[i] < h
      BY <1>4, <2>2, <3>1 DEF Feed, Resumed
    <3> QED BY <1>5, <2>1, <2>2, <3>2
  <2>3. CASE i # Len(delivered)
    <3>1. i \in 1 .. Len(delivered) - 1 /\ i + 1 \in 1 .. Len(delivered)
      BY <2>1, <2>3
    <3>2. delivered[i] < delivered[i + 1]
      BY <3>1 DEF Feed, DeliveredInOrder
    <3> QED BY <1>5, <2>1, <3>1, <3>2
  <2> QED BY <2>2, <2>3
<1>8. Complete'
  <2> SUFFICES ASSUME NEW e \in EventBlocks, First' <= e, e <= h
               PROVE  \E i \in 1 .. Len(delivered') : delivered'[i] = e
    BY <1>1 DEF Complete
  <2>1. e \in Nat /\ Len(delivered) \in Nat
    BY <1>2
  <2>2. CASE e = h
    <3>1. Len(delivered) + 1 \in 1 .. Len(delivered')
      BY <1>5, <2>1
    <3> QED BY <1>5, <2>2, <3>1
  <2>3. CASE e # h
    <3>1. e < cursor
      BY <1>1, <1>3, <1>4, <2>1, <2>3
    <3>2. delivered # << >>
      <4>1. ASSUME delivered = << >>, startHeight = Latest PROVE FALSE
        <5>1. First' = h
          BY <1>1, <1>5, <4>1 DEF First
        <5> QED BY <1>4, <2>1, <2>3, <5>1
      <4>2. ASSUME delivered = << >>, startHeight # Latest PROVE FALSE
        <5>1. cursor = startHeight /\ First' = startHeight
          BY <1>1, <4>2 DEF Feed, Resumed, First
        <5> QED BY <1>3, <2>1, <3>1, <5>1
      <4> QED BY <4>1, <4>2
    <3>3. e <= lastBlockHeight
      BY <1>3, <2>1, <3>1, <3>2 DEF Feed, Resumed
    <3>4. First' = First
      <4>1. 1 \in 1 .. Len(delivered)
        BY <1>2, <3>2
      <4> QED BY <1>1, <1>5, <4>1 DEF First
    <3>5. PICK i \in 1 .. Len(delivered) : delivered[i] = e
      BY <3>2, <3>3, <3>4 DEF Feed, Complete
    <3>6. i \in 1 .. Len(delivered')
      BY <1>5, <2>1
    <3> QED BY <1>5, <3>5, <3>6
  <2> QED BY <2>2, <2>3
<1> QED BY <1>6, <1>7, <1>8 DEF Feed

LEMMA StepFeed == Above0 /\ WsIInv /\ Feed /\ [SeNext]_allVars => Feed'
<1> SUFFICES ASSUME Above0, WsIInv, Feed, [SeNext]_allVars PROVE Feed'
  OBVIOUS
<1>1. CASE BlockSealed
  <2>1. UNCHANGED <<wsVars, startHeight, lastBlockHeight, cursor, delivered>> /\ chain' = chain + 1
    BY <1>1 DEF BlockSealed
  <2>2. Resumed'
    BY <2>1 DEF Feed, Resumed, wsVars, Last
  <2> QED BY <2>1, <2>2, StepQuiet
<1>2. CASE Resumes
  <2>1. /\ UNCHANGED <<startHeight, chain, lastBlockHeight, delivered>> /\ cursor' = ResumeHeight
        /\ Reconnects
    BY <1>2 DEF Resumes
  <2>2. sockets'[Last'].state = "connecting"
    BY <2>1, Added DEF WsIInv, Last, NewSocket
  <2>3. ASSUME delivered = << >>
        PROVE  cursor' = startHeight /\ lastBlockHeight = Null /\ startHeight \in Nat \cup {Latest}
    BY <2>1, <2>3, SubscribeEventsAssumption DEF Feed, Resumed, ResumeHeight, Sent, Null, Above0
  <2>4. ASSUME delivered # << >>
        PROVE  cursor' = lastBlockHeight + 1
    BY <2>1, <2>4 DEF Feed, Resumed, ResumeHeight
  <2>5. Resumed'
    BY <2>1, <2>2, <2>3, <2>4 DEF Feed, Resumed
  <2> QED BY <2>1, <2>5, StepQuiet
<1>3. CASE StreamOpens
  <2>1. /\ UNCHANGED <<startHeight, chain, lastBlockHeight, delivered>>
        /\ cursor' = IF cursor = Latest THEN chain ELSE cursor
    BY <1>3 DEF StreamOpens
  <2>2. cursor' # Latest
    BY <2>1 DEF Feed, Resumed, Latest
  <2>3. delivered # << >> => cursor # Latest
    <3>1. delivered # << >> => delivered[Len(delivered)] \in Nat
      BY DEF Feed, Resumed
    <3> QED BY <3>1 DEF Feed, Resumed, Latest
  <2>4. Resumed'
    BY <2>1, <2>2, <2>3 DEF Feed, Resumed
  <2> QED BY <2>1, <2>4, StepQuiet
<1>4. CASE ConnectionStep
  <2>1. UNCHANGED seVars
    BY <1>4 DEF ConnectionStep
  <2>2. sockets'[Last'].state = "open" => sockets[Last].state = "open"
    BY <1>4, StepSocket
  <2>3. Resumed'
    BY <2>1, <2>2 DEF seVars, Feed, Resumed
  <2> QED BY <2>1, <2>3, StepQuiet DEF seVars
<1>5. ASSUME NEW h \in 0 .. MaxHeight, BlockArrives(h) PROVE Feed'
  BY <1>5, StepDelivers
<1>6. CASE UNCHANGED allVars
  <2>1. Resumed'
    BY <1>6 DEF allVars, wsVars, seVars, Feed, Resumed, Last
  <2> QED BY <1>6, <2>1, StepQuiet DEF allVars, seVars
<1> QED BY <1>1, <1>2, <1>3, <1>4, <1>5, <1>6 DEF SeNext

LEMMA FeedInductive == ASSUME Above0 PROVE SeSpec => []Feed
<1>1. SeInit => Feed
  BY InitFeed
<1>2. WsIInv /\ Feed /\ [SeNext]_allVars => Feed'
  BY StepFeed
<1> QED BY <1>1, <1>2, WsInductive, PTL DEF SeSpec

(* Over any number of reconnections blocks are delivered in their order,   *)
(* none of them twice (connect-subscribe-events.ts).                       *)
THEOREM BlocksComeInOrder == ASSUME Above0 PROVE SeSpec => []DeliveredInOrder
<1>1. Feed => DeliveredInOrder
  BY DEF Feed
<1> QED BY <1>1, FeedInductive, PTL

(* No block with events is left out by a reconnection: all of them from    *)
(* the start asked for, or from the first block delivered                  *)
(* (connect-subscribe-events.ts, getParams).                               *)
THEOREM NoBlockIsSkipped == ASSUME Above0 PROVE SeSpec => []NoEventMissed
<1>1. Feed => NoEventMissed
  BY DEF Feed, Complete, First, NoEventMissed
<1> QED BY <1>1, FeedInductive, PTL
=============================================================================
