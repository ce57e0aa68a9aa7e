--------------------------- MODULE ChatPagesProofs ---------------------------
(***************************************************************************)
(* Theorems about ChatPages, for any pages and any bounds.                 *)
(***************************************************************************)
EXTENDS ChatPages, TLAPS

\* A socket is a page and a number.
LEMMA SocketPair ==
  ASSUME NEW s \in Sockets
  PROVE  s[1] \in Pages /\ s[2] \in 1 .. MaxSockets[s[1]] /\ s = <<s[1], s[2]>>
<1>1. PICK p \in Pages : s \in {p} \X (1 .. MaxSockets[p])
  BY DEF Sockets
<1> QED
  BY <1>1

\* A page and one of its numbers are a socket.
LEMMA PairSocket ==
  ASSUME NEW p \in Pages, NEW n \in 1 .. MaxSockets[p]
  PROVE  <<p, n>> \in Sockets
<1>1. <<p, n>> \in {p} \X (1 .. MaxSockets[p])
  OBVIOUS
<1> QED
  BY <1>1 DEF Sockets

\* The bounds are numbers, and null is no socket.
LEMMA Bounds ==
  /\ \A p \in Pages : MaxSockets[p] \in Nat /\ MaxSockets[p] > 0
  /\ None \notin Sockets
  BY PagesAssumption DEF Sockets

\* The socket that a page opens next exists.
LEMMA NextSocket ==
  ASSUME TypeOK, NEW p \in Pages, ws[p] < MaxSockets[p]
  PROVE  ws[p] + 1 \in 1 .. MaxSockets[p] /\ <<p, ws[p] + 1>> \in Sockets
<1>1. ws[p] + 1 \in 1 .. MaxSockets[p]
  BY Bounds DEF TypeOK
<1> QED
  BY <1>1, PairSocket

\* The current socket of a page that has connected exists.
LEMMA WsSocket ==
  ASSUME TypeOK, NEW p \in Pages, ws[p] > 0
  PROVE  Ws(p) \in Sockets
<1>1. ws[p] \in 1 .. MaxSockets[p]
  BY Bounds DEF TypeOK
<1> QED
  BY <1>1, PairSocket DEF Ws

-----------------------------------------------------------------------------
\* The sockets a page has not opened yet are untouched.
Fresh == \A p \in Pages : \A n \in 1 .. MaxSockets[p] : n > ws[p] => ready[<<p, n>>] = "none"

TypeInv == TypeOK /\ Fresh

\* A socket can be opened: no trace of it is left in the page or on the network.
LEMMA NewSocketType ==
  ASSUME TypeInv, NEW p \in Pages, NewSocket(p)
  PROVE  /\ ws' \in [Pages -> Nat] /\ \A q \in Pages : ws'[q] <= MaxSockets[q]
         /\ ready' \in [Sockets -> {"none", "connecting", "open", "closed"}]
         /\ closing \subseteq {s \in Sockets : ready'[s] = "closed"}
         /\ link \subseteq {s \in Sockets : session[s] = "open" /\ ready'[s] \in {"connecting", "open"}}
         /\ Fresh'
<1> DEFINE next == <<p, ws[p] + 1>>
<1>1. next \in Sockets /\ ready[next] = "none" /\ ws[p] + 1 \in 1 .. MaxSockets[p]
  BY NextSocket DEF TypeInv, TypeOK, Fresh, NewSocket
<1>2. ws' \in [Pages -> Nat] /\ \A q \in Pages : ws'[q] <= MaxSockets[q]
  BY <1>1, Bounds DEF TypeInv, TypeOK, NewSocket
<1>3. ready' \in [Sockets -> {"none", "connecting", "open", "closed"}]
  BY <1>1 DEF TypeInv, TypeOK, NewSocket
<1>4. \A s \in Sockets : s # next => ready'[s] = ready[s]
  BY <1>1 DEF TypeInv, TypeOK, NewSocket
<1>5. ready'[next] = "connecting"
  BY <1>1 DEF TypeInv, TypeOK, NewSocket
<1>6. closing \subseteq {s \in Sockets : ready'[s] = "closed"}
  BY <1>1, <1>4 DEF TypeInv, TypeOK
<1>7. link \subseteq {s \in Sockets : session[s] = "open" /\ ready'[s] \in {"connecting", "open"}}
  BY <1>1, <1>4 DEF TypeInv, TypeOK
<1>8. Fresh'
  <2> SUFFICES ASSUME NEW q \in Pages, NEW n \in 1 .. MaxSockets[q], n > ws'[q]
               PROVE  ready'[<<q, n>>] = "none"
    BY DEF Fresh
  <2>1. <<q, n>> \in Sockets
    BY PairSocket
  <2>2. n > ws[q] /\ <<q, n>> # next
    BY <1>1 DEF TypeInv, TypeOK, NewSocket
  <2> QED
    BY <1>4, <2>1, <2>2 DEF TypeInv, Fresh
<1> QED
  BY <1>2, <1>3, <1>6, <1>7, <1>8

\* A socket that closes keeps the types.
LEMMA DidCloseType ==
  ASSUME TypeInv, NEW s \in Sockets, ready[s] \in {"connecting", "open"}, DidClose(s), ws' = ws,
         session' = session
  PROVE  /\ ready' \in [Sockets -> {"none", "connecting", "open", "closed"}]
         /\ closing' \subseteq {t \in Sockets : ready'[t] = "closed"}
         /\ link' \subseteq {t \in Sockets : session'[t] = "open" /\ ready'[t] \in {"connecting", "open"}}
         /\ ping' \subseteq link' /\ crossed' \subseteq link'
         /\ mail' \in [Sockets -> Seq(Frames)]
         /\ \A t \in Sockets : mail'[t] # <<>> => t \in link'
         /\ Fresh'
<1> USE DEF TypeInv, TypeOK, DidClose, CutLink
<1>1. ready' \in [Sockets -> {"none", "connecting", "open", "closed"}]
  OBVIOUS
<1>2. \A t \in Sockets : ready'[t] = IF t = s THEN "closed" ELSE ready[t]
  OBVIOUS
<1>3. mail' \in [Sockets -> Seq(Frames)] /\ \A t \in Sockets : mail'[t] # <<>> => t \in link'
  OBVIOUS
<1>4. Fresh'
  <2> SUFFICES ASSUME NEW q \in Pages, NEW n \in 1 .. MaxSockets[q], n > ws[q]
               PROVE  ready'[<<q, n>>] = "none"
    BY DEF Fresh
  <2>1. <<q, n>> \in Sockets /\ ready[<<q, n>>] = "none"
    BY PairSocket DEF Fresh
  <2> QED
    BY <1>2, <2>1
<1> QED
  BY <1>1, <1>2, <1>3, <1>4

\* What a session is sent arrives only over a path that works.
LEMMA DeliverType ==
  ASSUME TypeOK, NEW s \in Sockets, NEW f \in Frames, mail' = Deliver(s, f, mail)
  PROVE  /\ mail' \in [Sockets -> Seq(Frames)]
         /\ \A t \in Sockets : mail'[t] # <<>> => t \in link
  BY DEF TypeOK, Deliver

\* Steps that do not touch the sockets of the page leave Fresh alone.
LEMMA FreshKept == ASSUME Fresh, ws' = ws, ready' = ready PROVE Fresh'
  BY DEF Fresh

-----------------------------------------------------------------------------
\* Every step keeps the types.
LEMMA TypeStep == TypeInv /\ [Next]_vars => TypeInv'
<1> SUFFICES ASSUME TypeInv, [Next]_vars PROVE TypeInv'
  OBVIOUS
<1> USE DEF socketVars, retryVars, uiVars, timerVars, mapVars, serverVars, pathVars, netVars, countVars
<1>1. ASSUME NEW p \in Pages, Connect(p) PROVE TypeInv'
  BY <1>1, NewSocketType DEF TypeInv, TypeOK, Connect
<1>2. ASSUME NEW p \in Pages, ReconnectTimer(p) PROVE TypeInv'
  <2>1. waiting' \in [Pages -> Nat]
    BY <1>2 DEF TypeInv, TypeOK, ReconnectTimer
  <2>2. NewSocket(p)
    BY <1>2 DEF ReconnectTimer
  <2> QED
    BY <1>2, <2>1, <2>2, NewSocketType DEF TypeInv, TypeOK, ReconnectTimer
<1>3. ASSUME NEW p \in Pages, Beat(p) PROVE TypeInv'
  BY <1>3, FreshKept DEF TypeInv, TypeOK, Beat
<1>4. ASSUME NEW p \in Pages, ReplyTimeout(p) PROVE TypeInv'
  <2>1. CASE Connecting(p) \/ IsOpen(p)
    <3>1. Ws(p) \in Sockets /\ ready[Ws(p)] \in {"connecting", "open"}
      BY <2>1, WsSocket DEF TypeInv, Connecting, IsOpen
    <3>2. DidClose(Ws(p))
      BY <1>4, <2>1 DEF ReplyTimeout
    <3> QED
      BY <1>4, <3>1, <3>2, DidCloseType DEF TypeInv, TypeOK, ReplyTimeout
  <2>2. CASE ~ (Connecting(p) \/ IsOpen(p))
    BY <1>4, <2>2, FreshKept DEF TypeInv, TypeOK, ReplyTimeout
  <2> QED
    BY <2>1, <2>2
<1>5. ASSUME NEW s \in Sockets, OnClose(s) PROVE TypeInv'
  <2>1. waiting' \in [Pages -> Nat]
    <3>1. s[1] \in Pages /\ waiting[s[1]] + 1 \in Nat
      BY SocketPair DEF TypeInv, TypeOK
    <3> QED
      BY <1>5, <3>1 DEF TypeInv, TypeOK, OnClose, Reconnect
  <2>2. lock' \subseteq Pages /\ banner' \subseteq Pages
    BY <1>5, SocketPair DEF TypeInv, TypeOK, OnClose, Reconnect
  <2>3. closing' \subseteq closing
    BY <1>5 DEF OnClose
  <2> QED
    BY <1>5, <2>1, <2>2, <2>3, FreshKept DEF TypeInv, TypeOK, OnClose
<1>6. ASSUME NEW s \in Sockets, Receive(s) PROVE TypeInv'
  <2>1. mail' \in [Sockets -> Seq(Frames)] /\ \A t \in Sockets : mail'[t] # <<>> => mail[t] # <<>>
    BY <1>6 DEF TypeInv, TypeOK, Receive
  <2>2. s \in link /\ ready[s] \in {"connecting", "open"}
    BY <1>6 DEF TypeInv, TypeOK, Receive
  <2>3. /\ ready' \in [Sockets -> {"none", "connecting", "open", "closed"}]
        /\ \A t \in Sockets : ready'[t] = ready[t] \/ (t = s /\ ready'[t] = "open")
    BY <1>6 DEF TypeInv, TypeOK, Receive
  <2>4. Fresh'
    <3> SUFFICES ASSUME NEW q \in Pages, NEW n \in 1 .. MaxSockets[q], n > ws[q]
                 PROVE  ready'[<<q, n>>] = "none"
      BY <1>6 DEF Fresh, Receive
    <3>1. <<q, n>> \in Sockets /\ ready[<<q, n>>] = "none"
      BY PairSocket DEF TypeInv, Fresh
    <3> QED
      BY <2>2, <2>3, <3>1
  <2>5. closing \subseteq {t \in Sockets : ready'[t] = "closed"}
    BY <2>2, <2>3 DEF TypeInv, TypeOK
  <2>6. link \subseteq {t \in Sockets : session[t] = "open" /\ ready'[t] \in {"connecting", "open"}}
    BY <2>3 DEF TypeInv, TypeOK
  <2>7. /\ beat' \subseteq Pages /\ reply' \subseteq Pages /\ banner' \subseteq Pages
        /\ disable' \subseteq Pages /\ ignored' \subseteq Pages
    BY <1>6, SocketPair DEF TypeInv, TypeOK, Receive, Restart
  <2>8. UNCHANGED <<ws, closing, waiting, lock, serverVars, pathVars, ping, breaks, msgs>>
    BY <1>6 DEF Receive
  <2> QED
    BY <2>1, <2>3, <2>4, <2>5, <2>6, <2>7, <2>8 DEF TypeInv, TypeOK
<1>7. ASSUME NEW s \in Sockets, Accept(s) PROVE TypeInv'
  <2> DEFINE told == IF registered = None THEN mail
                     ELSE Deliver(registered, "notHeartBeat", mail)
  <2>1. told \in [Sockets -> Seq(Frames)] /\ \A t \in Sockets : told[t] # <<>> => t \in link
    BY DEF TypeInv, TypeOK, Deliver, Frames
  <2>2. <<"open">> \in Seq(Frames)
    BY DEF Frames
  <2>3. mail' \in [Sockets -> Seq(Frames)] /\ \A t \in Sockets : mail'[t] # <<>> => t \in link'
    BY <1>7, <2>1, <2>2 DEF Accept
  <2>4. session' \in [Sockets -> {"none", "open", "closed"}]
        /\ \A t \in Sockets : session'[t] = IF t = s THEN "open" ELSE session[t]
    BY <1>7 DEF Accept, TypeInv, TypeOK
  <2>5. link' \subseteq {t \in Sockets : session'[t] = "open" /\ ready'[t] \in {"connecting", "open"}}
    BY <1>7, <2>4 DEF Accept, TypeInv, TypeOK
  <2>6. ping' \subseteq link' /\ crossed' \subseteq link'
    BY <1>7 DEF Accept, TypeInv, TypeOK
  <2>7. UNCHANGED <<ws, ready, closing, waiting, lock, banner, disable, ignored, beat, reply, mapVars, breaks, msgs>>
    BY <1>7 DEF Accept
  <2>8. saving' \in [Sockets -> {"no", "get", "install", "put", "obsolete"}]
    BY <1>7 DEF Accept, GoSave, TypeInv, TypeOK
  <2> QED
    BY <2>8, <2>3, <2>4, <2>5, <2>6, <2>7, FreshKept DEF TypeInv, TypeOK
<1>8. ASSUME NEW s \in Sockets, HeartBeat(s) PROVE TypeInv'
  <2>1. mail' \in [Sockets -> Seq(Frames)] /\ \A t \in Sockets : mail'[t] # <<>> => t \in link
    BY <1>8, DeliverType DEF TypeInv, TypeOK, HeartBeat, Frames
  <2> QED
    BY <1>8, <2>1, FreshKept DEF TypeInv, TypeOK, HeartBeat
<1>9. CASE SendMsg
  <2>1. mail' \in [Sockets -> Seq(Frames)] /\ \A t \in Sockets : mail'[t] # <<>> => t \in link
    BY <1>9, DeliverType DEF TypeInv, TypeOK, SendMsg, Frames
  <2>2. msgs' \in 0 .. MaxMsgs
    BY <1>9, PagesAssumption DEF TypeInv, TypeOK, SendMsg
  <2> QED
    BY <1>9, <2>1, <2>2, FreshKept DEF TypeInv, TypeOK, SendMsg
<1>10. ASSUME NEW s \in Sockets, SessionCloses(s) PROVE TypeInv'
  BY <1>10, FreshKept DEF TypeInv, TypeOK, SessionCloses
<1>11. ASSUME NEW s \in Sockets, Break(s) PROVE TypeInv'
  <2>1. breaks' \in 0 .. MaxBreaks
    BY <1>11, PagesAssumption DEF TypeInv, TypeOK, Break
  <2>2. /\ mail' \in [Sockets -> Seq(Frames)]
        /\ \A t \in Sockets : mail'[t] # <<>> => t \in link'
    BY <1>11 DEF TypeInv, TypeOK, Break, CutLink
  <2> QED
    BY <1>11, <2>1, <2>2, FreshKept DEF TypeInv, TypeOK, Break, CutLink
<1>12. ASSUME NEW s \in Sockets, SocketCloses(s) PROVE TypeInv'
  <2>1. DidClose(s) /\ ready[s] \in {"connecting", "open"} /\ ws' = ws /\ session' = session
    BY <1>12 DEF SocketCloses
  <2> QED
    BY <1>12, <2>1, DidCloseType DEF TypeInv, TypeOK, SocketCloses
<1>13. ASSUME NEW s \in Sockets, ConnectFails(s) PROVE TypeInv'
  <2>1. DidClose(s) /\ ready[s] \in {"connecting", "open"} /\ ws' = ws /\ session' = session
    BY <1>13 DEF ConnectFails
  <2>2. breaks' \in 0 .. MaxBreaks
    BY <1>13, PagesAssumption DEF TypeInv, TypeOK, ConnectFails
  <2> QED
    BY <1>13, <2>1, <2>2, DidCloseType DEF TypeInv, TypeOK, ConnectFails
<1>14. ASSUME NEW s \in Sockets, AcceptThrows(s) PROVE TypeInv'
  <2>1. s \notin link /\ registered \notin link
    BY <1>14 DEF TypeInv, TypeOK, AcceptThrows
  <2>2. /\ session' \in [Sockets -> {"none", "open", "closed"}]
        /\ \A t \in Sockets \ {s, registered} : session'[t] = session[t]
    BY <1>14 DEF TypeInv, TypeOK, AcceptThrows
  <2> QED
    BY <1>14, <2>1, <2>2, FreshKept DEF TypeInv, TypeOK, AcceptThrows
<1>15. ASSUME NEW s \in Sockets, Save(s) PROVE TypeInv'
  <2>1. saving' \in [Sockets -> {"no", "get", "install", "put", "obsolete"}]
    BY <1>15 DEF TypeInv, TypeOK, Save, LookupMap, InstallMap, PutSession, GoSave
  <2>2. registered' \in Sockets \cup {None} /\ mapped' \in BOOLEAN
    BY <1>15 DEF TypeInv, TypeOK, Save, LookupMap, InstallMap, PutSession
  <2>3. UNCHANGED <<socketVars, retryVars, uiVars, timerVars, session, netVars, countVars>>
    BY <1>15 DEF Save, LookupMap, InstallMap, PutSession
  <2> QED
    BY <2>1, <2>2, <2>3, FreshKept DEF TypeInv, TypeOK
<1>16. CASE Look
  BY <1>16, FreshKept DEF TypeInv, TypeOK, Look
<1>17. CASE UNCHANGED vars
  BY <1>17, FreshKept DEF TypeInv, TypeOK, vars
<1> QED
  BY <1>1, <1>2, <1>3, <1>4, <1>5, <1>6, <1>7, <1>8, <1>9, <1>10, <1>11, <1>12, <1>13, <1>14,
     <1>15, <1>16, <1>17
  DEF Next

\* The initial state has the types.
LEMMA InitType == Init => TypeInv
<1> SUFFICES ASSUME Init PROVE TypeInv
  OBVIOUS
<1>1. mail \in [Sockets -> Seq(Frames)] /\ \A t \in Sockets : mail[t] = <<>>
  BY DEF Init
<1>2. Fresh
  BY PairSocket DEF Init, Fresh
<1>3. /\ ws \in [Pages -> Nat] /\ \A p \in Pages : ws[p] <= MaxSockets[p]
      /\ waiting \in [Pages -> Nat]
  BY Bounds DEF Init
<1>4. /\ ready \in [Sockets -> {"none", "connecting", "open", "closed"}]
      /\ session \in [Sockets -> {"none", "open", "closed"}]
      /\ saving \in [Sockets -> {"no", "get", "install", "put", "obsolete"}]
      /\ mapped \in BOOLEAN /\ registered \in Sockets \cup {None}
  BY DEF Init
<1>5. /\ closing = {} /\ lock = {} /\ banner = Pages /\ disable = {} /\ ignored = {}
      /\ beat = {} /\ reply = {} /\ crossed = {} /\ link = {} /\ ping = {}
      /\ breaks \in 0 .. MaxBreaks /\ msgs \in 0 .. MaxMsgs
  BY PagesAssumption DEF Init
<1> QED
  BY <1>1, <1>2, <1>3, <1>4, <1>5 DEF TypeInv, TypeOK

\* Type correctness: among others, frames and heartbeats travel only between a
\* session the server holds and a socket that its page has not closed.
THEOREM TypeCorrect == Spec => []TypeOK
<1>1. TypeInv => TypeOK
  BY DEF TypeInv
<1> QED
  BY <1>1, InitType, TypeStep, PTL DEF Spec

-----------------------------------------------------------------------------
(* A page has exactly one way back.  Only the socket a page calls _ws is    *)
(* not closed or has its close event to come (LiveIsCurrent); so one close  *)
(* event at most comes per connection, and lockReconnect is held exactly    *)
(* while a reconnection timer is set (Locked).                              *)

Live(s) == ready[s] \in {"connecting", "open"} \/ s \in closing

LiveIsCurrent == \A s \in Sockets : Live(s) => s[2] = ws[s[1]]

OneOrTheOther ==
  \A p \in Pages :
    waiting[p] = IF ws[p] = 0 THEN 0 ELSE IF Live(Ws(p)) THEN 0 ELSE 1

Locked == \A p \in Pages : p \in lock <=> waiting[p] # 0

WayInv == LiveIsCurrent /\ OneOrTheOther /\ Locked

\* A live socket is the _ws of its page.
LEMMA LiveWs ==
  ASSUME TypeOK, LiveIsCurrent, NEW s \in Sockets, Live(s)
  PROVE  s = Ws(s[1]) /\ ws[s[1]] > 0 /\ s[1] \in Pages
<1>1. s[1] \in Pages /\ s[2] \in 1 .. MaxSockets[s[1]] /\ s = <<s[1], s[2]>>
  BY SocketPair
<1>2. s[2] = ws[s[1]]
  BY DEF LiveIsCurrent
<1> QED
  BY <1>1, <1>2 DEF Ws

\* The invariant is what OneWayBack says.
LEMMA WayInvImplies == TypeOK /\ WayInv => OneWayBack
<1> SUFFICES ASSUME TypeOK, WayInv, NEW p \in Pages, ws[p] > 0
             PROVE  /\ \A s, t \in Pending(p) : s = t
                    /\ waiting[p] = IF Pending(p) = {} THEN 1 ELSE 0
  BY DEF OneWayBack
<1>1. \A s \in Pending(p) : s = Ws(p) /\ Live(Ws(p))
  <2> SUFFICES ASSUME NEW s \in Pending(p) PROVE s = Ws(p) /\ Live(Ws(p))
    OBVIOUS
  <2>1. s \in Sockets /\ s[1] = p /\ Live(s)
    BY DEF Pending, Live
  <2> QED
    BY <2>1, LiveWs DEF WayInv
<1>2. Live(Ws(p)) => Ws(p) \in Pending(p)
  BY WsSocket DEF Pending, Live, Ws
<1>3. waiting[p] = IF Live(Ws(p)) THEN 0 ELSE 1
  BY DEF WayInv, OneOrTheOther, TypeOK
<1> QED
  BY <1>1, <1>2, <1>3

\* Steps that neither connect nor handle a close event.
LEMMA LiveKept ==
  ASSUME TypeOK, WayInv, ws' = ws, waiting' = waiting, lock' = lock,
         \A s \in Sockets : Live(s)' <=> Live(s)
  PROVE  WayInv'
<1>1. LiveIsCurrent'
  BY DEF WayInv, LiveIsCurrent
<1>2. \A p \in Pages : ws[p] # 0 => (Live(Ws(p))' <=> Live(Ws(p)))
  <2> SUFFICES ASSUME NEW p \in Pages, ws[p] # 0 PROVE Live(Ws(p))' <=> Live(Ws(p))
    OBVIOUS
  <2>1. ws[p] > 0
    BY DEF TypeOK
  <2> QED
    BY <2>1, WsSocket DEF Live, Ws
<1>3. OneOrTheOther'
  BY <1>2 DEF WayInv, OneOrTheOther
<1>4. Locked'
  BY DEF WayInv, Locked
<1> QED
  BY <1>1, <1>3, <1>4 DEF WayInv

\* A closing socket's event is yet to come: it stays live.
LEMMA DidCloseLive ==
  ASSUME TypeOK, NEW s \in Sockets, ready[s] \in {"connecting", "open"}, DidClose(s)
  PROVE  \A t \in Sockets : Live(t)' <=> Live(t)
  BY DEF TypeOK, DidClose, Live

\* A page connects only when it has no live socket.
LEMMA NewSocketWay ==
  ASSUME TypeInv, WayInv, NEW p \in Pages, NewSocket(p), closing' = closing,
         ws[p] = 0 \/ ~ Live(Ws(p)),
         waiting' = [waiting EXCEPT ![p] = 0], lock' = lock \ {p}
  PROVE  WayInv'
<1> DEFINE next == <<p, ws[p] + 1>>
<1>1. next \in Sockets /\ ready[next] = "none" /\ ws[p] + 1 \in 1 .. MaxSockets[p]
  BY NextSocket DEF TypeInv, TypeOK, Fresh, NewSocket
<1>2. \A s \in Sockets : Live(s)' <=> Live(s) \/ s = next
  BY <1>1 DEF TypeInv, TypeOK, NewSocket, Live
<1>3. \A q \in Pages : ws'[q] = IF q = p THEN ws[p] + 1 ELSE ws[q]
  BY DEF TypeInv, TypeOK, NewSocket
<1>4. \A s \in Sockets : Live(s) => s[1] # p
  BY LiveWs DEF TypeInv, WayInv, TypeOK
<1>5. LiveIsCurrent'
  <2> SUFFICES ASSUME NEW s \in Sockets, Live(s)' PROVE s[2] = ws'[s[1]]
    BY DEF LiveIsCurrent
  <2>1. CASE s = next
    BY <1>3, <2>1
  <2>2. CASE s # next
    <3>1. Live(s) /\ s[1] # p /\ s[1] \in Pages
      BY <1>2, <1>4, <2>2, SocketPair
    <3> QED
      BY <1>3, <3>1 DEF WayInv, LiveIsCurrent
  <2> QED
    BY <2>1, <2>2
<1>6. OneOrTheOther'
  <2> SUFFICES ASSUME NEW q \in Pages
               PROVE  waiting'[q] = IF ws'[q] = 0 THEN 0 ELSE IF Live(Ws(q))' THEN 0 ELSE 1
    BY DEF OneOrTheOther
  <2>1. CASE q = p
    <3>1. Ws(q)' = next
      BY <1>3, <2>1 DEF Ws
    <3>2. Live(Ws(q))'
      BY <1>1, <1>2, <3>1 DEF Live
    <3> QED
      BY <1>3, <2>1, <3>2 DEF TypeInv, TypeOK
  <2>2. CASE q # p
    <3>1. ws'[q] = ws[q] /\ waiting'[q] = waiting[q] /\ Ws(q)' = Ws(q)
      BY <1>3, <2>2 DEF TypeInv, TypeOK, Ws
    <3>2. Ws(q) # next
      BY <2>2 DEF Ws
    <3>3. ws[q] # 0 => (Live(Ws(q))' <=> Live(Ws(q)))
      <4> SUFFICES ASSUME ws[q] # 0 PROVE Live(Ws(q))' <=> Live(Ws(q))
        OBVIOUS
      <4>1. Ws(q) \in Sockets
        BY WsSocket DEF TypeInv, TypeOK
      <4> QED
        BY <1>2, <3>1, <3>2, <4>1 DEF Live
    <3> QED
      BY <3>1, <3>3 DEF WayInv, OneOrTheOther
  <2> QED
    BY <2>1, <2>2
<1>7. Locked'
  BY DEF WayInv, Locked, TypeInv, TypeOK
<1> QED
  BY <1>5, <1>6, <1>7 DEF WayInv

\* Every step keeps the one way back.
LEMMA WayStep == TypeInv /\ WayInv /\ [Next]_vars => WayInv'
<1> SUFFICES ASSUME TypeInv, WayInv, [Next]_vars PROVE WayInv'
  OBVIOUS
<1>a. TypeOK
  BY DEF TypeInv
<1> USE DEF socketVars, retryVars, uiVars, timerVars, mapVars, serverVars, pathVars, netVars, countVars
<1>1. ASSUME NEW p \in Pages, Connect(p) PROVE WayInv'
  <2>1. NewSocket(p) /\ closing' = closing /\ ws[p] = 0
    BY <1>1 DEF Connect
  <2>2. waiting[p] = 0 /\ p \notin lock
    BY <2>1 DEF WayInv, OneOrTheOther, Locked
  <2>3. waiting' = [waiting EXCEPT ![p] = 0] /\ lock' = lock \ {p}
    BY <1>1, <1>a, <2>2 DEF Connect, TypeOK
  <2> QED
    BY <2>1, <2>3, NewSocketWay
<1>2. ASSUME NEW p \in Pages, ReconnectTimer(p) PROVE WayInv'
  <2>1. NewSocket(p) /\ closing' = closing /\ waiting[p] > 0
    BY <1>2 DEF ReconnectTimer
  <2>2. waiting[p] = 1 /\ ~ Live(Ws(p))
    BY <1>a, <2>1 DEF WayInv, OneOrTheOther, TypeOK
  <2>3. waiting' = [waiting EXCEPT ![p] = 0] /\ lock' = lock \ {p}
    BY <1>2, <2>2 DEF ReconnectTimer
  <2> QED
    BY <2>1, <2>2, <2>3, NewSocketWay
<1>3. ASSUME NEW s \in Sockets, OnClose(s) PROVE WayInv'
  <2> DEFINE p == s[1]
  <2>1. Live(s) /\ ready[s] = "closed"
    BY <1>3, <1>a DEF OnClose, Live, TypeOK
  <2>2. s = Ws(p) /\ ws[p] > 0 /\ p \in Pages
    BY <1>a, <2>1, LiveWs DEF WayInv
  <2>3. waiting[p] = 0 /\ p \notin lock
    BY <1>a, <2>1, <2>2 DEF WayInv, OneOrTheOther, Locked, TypeOK
  <2>4. waiting' = [waiting EXCEPT ![p] = 1] /\ lock' = lock \cup {p}
        /\ ws' = ws /\ ready' = ready /\ closing' = closing \ {s}
    BY <1>3, <2>3 DEF OnClose, Reconnect
  <2>5. \A t \in Sockets : Live(t)' <=> Live(t) /\ t # s
    BY <2>1, <2>4 DEF Live
  <2>6. LiveIsCurrent'
    BY <2>4, <2>5 DEF WayInv, LiveIsCurrent
  <2>7. OneOrTheOther'
    <3> SUFFICES ASSUME NEW q \in Pages
                 PROVE  waiting'[q] = IF ws'[q] = 0 THEN 0 ELSE IF Live(Ws(q))' THEN 0 ELSE 1
      BY DEF OneOrTheOther
    <3>0. Ws(q)' = Ws(q)
      BY <2>4 DEF Ws
    <3>1. CASE q = p
      <4>1. ~ Live(Ws(q))'
        BY <2>1, <2>2, <2>4, <3>0, <3>1 DEF Live
      <4> QED
        BY <1>a, <2>2, <2>4, <3>1, <4>1 DEF TypeOK
    <3>2. CASE q # p
      <4>1. waiting'[q] = waiting[q] /\ ws'[q] = ws[q]
        BY <1>a, <2>4, <3>2 DEF TypeOK
      <4>2. Ws(q) # s
        BY <2>2, <3>2 DEF Ws
      <4>3. ws[q] # 0 => (Live(Ws(q))' <=> Live(Ws(q)))
        BY <2>4, <3>0, <4>2 DEF Live
      <4> QED
        BY <4>1, <4>3 DEF WayInv, OneOrTheOther
    <3> QED
      BY <3>1, <3>2
  <2>8. Locked'
    BY <1>a, <2>2, <2>4 DEF WayInv, Locked, TypeOK
  <2> QED
    BY <2>6, <2>7, <2>8 DEF WayInv
<1>4. ASSUME NEW s \in Sockets, Receive(s) PROVE WayInv'
  <2>1. ready[s] \in {"connecting", "open"}
    BY <1>4, <1>a DEF Receive, TypeOK
  <2>2. \A t \in Sockets : Live(t)' <=> Live(t)
    BY <1>4, <1>a, <2>1 DEF Receive, Live, TypeOK
  <2> QED
    BY <1>4, <1>a, <2>2, LiveKept DEF Receive
<1>5. ASSUME NEW p \in Pages, ReplyTimeout(p) PROVE WayInv'
  <2>1. CASE Connecting(p) \/ IsOpen(p)
    <3>1. Ws(p) \in Sockets /\ ready[Ws(p)] \in {"connecting", "open"} /\ DidClose(Ws(p))
      BY <1>5, <1>a, <2>1, WsSocket DEF Connecting, IsOpen, ReplyTimeout
    <3>2. \A t \in Sockets : Live(t)' <=> Live(t)
      BY <1>a, <3>1, DidCloseLive
    <3> QED
      BY <1>5, <1>a, <3>2, LiveKept DEF ReplyTimeout
  <2>2. CASE ~ (Connecting(p) \/ IsOpen(p))
    <3>1. \A t \in Sockets : Live(t)' <=> Live(t)
      BY <1>5, <2>2 DEF ReplyTimeout, Live
    <3> QED
      BY <1>5, <1>a, <3>1, LiveKept DEF ReplyTimeout
  <2> QED
    BY <2>1, <2>2
<1>6. ASSUME NEW s \in Sockets, SocketCloses(s) \/ ConnectFails(s) PROVE WayInv'
  <2>1. ready[s] \in {"connecting", "open"} /\ DidClose(s)
    BY <1>6 DEF SocketCloses, ConnectFails
  <2>2. \A t \in Sockets : Live(t)' <=> Live(t)
    BY <1>a, <2>1, DidCloseLive
  <2> QED
    BY <1>6, <1>a, <2>2, LiveKept DEF SocketCloses, ConnectFails
<1>7. ASSUME UNCHANGED <<ws, ready, closing, waiting, lock>> PROVE WayInv'
  <2>1. \A t \in Sockets : Live(t)' <=> Live(t)
    BY <1>7 DEF Live
  <2> QED
    BY <1>7, <1>a, <2>1, LiveKept
<1>8. ASSUME NEW p \in Pages, Beat(p) PROVE WayInv'
  BY <1>7, <1>8 DEF Beat
<1>9. ASSUME NEW s \in Sockets,
             \/ Accept(s) \/ AcceptThrows(s) \/ Save(s)
             \/ HeartBeat(s) \/ SessionCloses(s) \/ Break(s)
      PROVE  WayInv'
  BY <1>7, <1>9 DEF Accept, AcceptThrows, Save, LookupMap, InstallMap, PutSession,
     HeartBeat, SessionCloses, Break
<1>10. CASE SendMsg \/ Look
  BY <1>7, <1>10 DEF SendMsg, Look
<1>11. CASE UNCHANGED vars
  BY <1>7, <1>11 DEF vars
<1> QED
  BY <1>1, <1>2, <1>3, <1>4, <1>5, <1>6, <1>8, <1>9, <1>10, <1>11 DEF Next

\* So the invariant holds in every state.
LEMMA WayAlways == Spec => [](TypeInv /\ WayInv)
<1>1. Init => TypeInv /\ WayInv
  <2> SUFFICES ASSUME Init PROVE TypeInv /\ WayInv
    OBVIOUS
  <2>1. TypeInv
    BY InitType
  <2>2. WayInv
    BY DEF Init, WayInv, LiveIsCurrent, OneOrTheOther, Locked, Live
  <2> QED
    BY <2>1, <2>2
<1>2. TypeInv /\ WayInv /\ [Next]_vars => (TypeInv /\ WayInv)'
  BY TypeStep, WayStep
<1> QED
  BY <1>1, <1>2, PTL DEF Spec

\* A page never has two connections, nor one without a way back: the reconnection of
\* chat-core.js cannot get stuck or run twice, however its timers are interleaved.
THEOREM OneWayBackCorrect == Spec => []OneWayBack
<1>1. TypeInv /\ WayInv => OneWayBack
  BY WayInvImplies DEF TypeInv
<1> QED
  BY <1>1, WayAlways, PTL

-----------------------------------------------------------------------------
(* What a page shows.  A page that hides the banner has a socket that is    *)
(* open, or whose close event is queued (Shown); it connects again only     *)
(* when it has neither, and then the banner is there.                       *)

Shown(p) == IsOpen(p) \/ Ws(p) \in closing

\* A socket that closes is shown until its close event.
LEMMA DidCloseShown ==
  ASSUME TypeOK, NEW s \in Sockets, DidClose(s), ws' = ws, NEW p \in Pages, Shown(p)
  PROVE  Shown(p)'
<1>1. ws[p] > 0 => Ws(p) \in Sockets
  BY WsSocket
<1>2. Ws(p)' = Ws(p)
  BY DEF Ws
<1>3. CASE Ws(p) \in closing
  BY <1>2, <1>3 DEF Shown, DidClose
<1>4. CASE IsOpen(p) /\ Ws(p) = s
  BY <1>2, <1>4 DEF Shown, DidClose
<1>5. CASE IsOpen(p) /\ Ws(p) # s
  <2>1. ready'[Ws(p)] = ready[Ws(p)]
    BY <1>1, <1>5 DEF TypeOK, DidClose, IsOpen
  <2> QED
    BY <1>2, <1>5, <2>1 DEF Shown, IsOpen
<1> QED
  BY <1>3, <1>4, <1>5 DEF Shown

\* A page that connects was neither open nor closing, and other pages do not change.
LEMMA NewSocketShown ==
  ASSUME TypeInv, NEW p \in Pages, NewSocket(p), closing' = closing, ~ Shown(p),
         NEW q \in Pages, Shown(q)
  PROVE  Shown(q)'
<1>1. q # p
  OBVIOUS
<1>2. ws'[q] = ws[q] /\ Ws(q)' = Ws(q)
  BY <1>1 DEF TypeInv, TypeOK, NewSocket, Ws
<1>3. Ws(q) # <<p, ws[p] + 1>>
  BY <1>1 DEF Ws
<1>4. IsOpen(q) => IsOpen(q)'
  <2> SUFFICES ASSUME IsOpen(q) PROVE IsOpen(q)'
    OBVIOUS
  <2>1. Ws(q) \in Sockets
    BY WsSocket DEF IsOpen, TypeInv
  <2>2. ready'[Ws(q)] = ready[Ws(q)]
    BY <1>3, <2>1 DEF TypeInv, TypeOK, NewSocket
  <2> QED
    BY <1>2, <2>2 DEF IsOpen
<1> QED
  BY <1>2, <1>4 DEF Shown

\* Every step keeps the banner honest.
LEMMA BannerStep ==
  TypeInv /\ WayInv /\ BannerHonest /\ [Next]_vars => BannerHonest'
<1> SUFFICES ASSUME TypeInv, WayInv, BannerHonest, [Next]_vars,
                    NEW q \in Pages, q \notin banner'
             PROVE  Shown(q)'
  BY DEF BannerHonest, Shown
<1>a. TypeOK
  BY DEF TypeInv
<1>b. q \notin banner => Shown(q)
  BY DEF BannerHonest, Shown
<1> USE DEF socketVars, retryVars, uiVars, timerVars, mapVars, serverVars, pathVars, netVars, countVars
<1>1. ASSUME NEW p \in Pages, Connect(p) PROVE Shown(q)'
  <2>1. NewSocket(p) /\ closing' = closing /\ ws[p] = 0 /\ banner' = banner
    BY <1>1 DEF Connect
  <2>2. ~ Shown(p)
    BY <1>a, <2>1, SocketPair DEF Shown, IsOpen, Ws, TypeOK
  <2> QED
    BY <1>b, <2>1, <2>2, NewSocketShown
<1>2. ASSUME NEW p \in Pages, ReconnectTimer(p) PROVE Shown(q)'
  <2>1. NewSocket(p) /\ closing' = closing /\ waiting[p] > 0 /\ banner' = banner
    BY <1>2 DEF ReconnectTimer
  <2>2. ~ Live(Ws(p))
    BY <1>a, <2>1 DEF WayInv, OneOrTheOther, TypeOK
  <2>3. ~ Shown(p)
    BY <2>2 DEF Shown, IsOpen, Live
  <2> QED
    BY <1>b, <2>1, <2>3, NewSocketShown
<1>3. ASSUME NEW s \in Sockets, OnClose(s) PROVE Shown(q)'
  <2>1. /\ ws' = ws /\ ready' = ready /\ closing' = closing \ {s}
        /\ banner' = banner \cup {s[1]}
    BY <1>3 DEF OnClose, Reconnect
  <2>2. q # s[1] /\ Ws(q) # s
    BY <2>1 DEF Ws
  <2> QED
    BY <1>b, <2>1, <2>2 DEF Shown, IsOpen, Ws
<1>4. ASSUME NEW s \in Sockets, Receive(s) PROVE Shown(q)'
  <2>1. ready[s] \in {"connecting", "open"} /\ ws' = ws /\ closing' = closing
    BY <1>4, <1>a DEF Receive, TypeOK
  <2>2. s = Ws(s[1]) /\ ws[s[1]] > 0
    BY <1>a, <2>1, LiveWs DEF WayInv, Live
  <2>3. CASE Head(mail[s]) = "open"
    <3>1. ready' = [ready EXCEPT ![s] = "open"] /\ banner' = banner \ {s[1]}
      BY <1>4, <2>3 DEF Receive
    <3>2. ready'[s] = "open" /\ \A t \in Sockets \ {s} : ready'[t] = ready[t]
      BY <1>a, <3>1 DEF TypeOK
    <3>3. CASE q = s[1]
      BY <2>1, <2>2, <3>2, <3>3 DEF Shown, IsOpen, Ws
    <3>4. CASE q # s[1]
      <4>1. Shown(q) /\ Ws(q) # s
        BY <1>b, <3>1, <3>4 DEF Ws
      <4>2. IsOpen(q) => IsOpen(q)'
        <5> SUFFICES ASSUME IsOpen(q) PROVE IsOpen(q)'
          OBVIOUS
        <5>1. Ws(q) \in Sockets
          BY <1>a, WsSocket DEF IsOpen
        <5> QED
          BY <2>1, <3>2, <4>1, <5>1 DEF IsOpen, Ws
      <4> QED
        BY <2>1, <4>1, <4>2 DEF Shown, Ws
    <3> QED
      BY <3>3, <3>4
  <2>4. CASE Head(mail[s]) # "open"
    <3>1. ready' = ready /\ banner \subseteq banner'
      BY <1>4, <2>4 DEF Receive
    <3> QED
      BY <1>b, <2>1, <3>1 DEF Shown, IsOpen, Ws
  <2> QED
    BY <2>3, <2>4
<1>5. ASSUME UNCHANGED <<ws, ready, closing, banner>> PROVE Shown(q)'
  BY <1>b, <1>5 DEF Shown, IsOpen, Ws
<1>6. ASSUME NEW p \in Pages, ReplyTimeout(p) PROVE Shown(q)'
  <2>1. CASE Connecting(p) \/ IsOpen(p)
    <3>1. Ws(p) \in Sockets /\ DidClose(Ws(p)) /\ ws' = ws /\ banner' = banner
      BY <1>6, <1>a, <2>1, WsSocket DEF Connecting, IsOpen, ReplyTimeout
    <3> QED
      BY <1>a, <1>b, <3>1, DidCloseShown
  <2>2. CASE ~ (Connecting(p) \/ IsOpen(p))
    BY <1>5, <1>6, <2>2 DEF ReplyTimeout
  <2> QED
    BY <2>1, <2>2
<1>7. ASSUME NEW s \in Sockets, SocketCloses(s) \/ ConnectFails(s) PROVE Shown(q)'
  <2>1. DidClose(s) /\ ws' = ws /\ banner' = banner
    BY <1>7 DEF SocketCloses, ConnectFails
  <2> QED
    BY <1>a, <1>b, <2>1, DidCloseShown
<1>8. ASSUME NEW p \in Pages, Beat(p) PROVE Shown(q)'
  BY <1>5, <1>8 DEF Beat
<1>9. ASSUME NEW s \in Sockets,
             \/ Accept(s) \/ AcceptThrows(s) \/ Save(s)
             \/ HeartBeat(s) \/ SessionCloses(s) \/ Break(s)
      PROVE  Shown(q)'
  BY <1>5, <1>9 DEF Accept, AcceptThrows, Save, LookupMap, InstallMap, PutSession,
     HeartBeat, SessionCloses, Break
<1>10. CASE SendMsg \/ Look
  BY <1>5, <1>10 DEF SendMsg, Look
<1>11. CASE UNCHANGED vars
  BY <1>5, <1>11 DEF vars
<1> QED
  BY <1>1, <1>2, <1>3, <1>4, <1>6, <1>7, <1>8, <1>9, <1>10, <1>11 DEF Next

\* A page that hides "you are offline" has an open socket, or is about to handle the
\* close of one: onopen hides the text, and no other handler or timer can come
\* between the loss of a socket and reconnect, which shows it.
THEOREM BannerHonestCorrect == Spec => []BannerHonest
<1>1. Init => BannerHonest
  BY DEF Init, BannerHonest
<1> QED
  BY <1>1, BannerStep, WayAlways, PTL DEF Spec

-----------------------------------------------------------------------------
(***************************************************************************)
(* The frame "open" is the first one on a socket, and the page has not     *)
(* opened the socket until it came (OpenIsFirst): so onopen runs once, and *)
(* onmessage only on an open socket.                                       *)
(***************************************************************************)
OpenFrameFirst(s, m, r) ==
  \A i \in 1 .. Len(m) : m[i] = "open" <=> i = 1 /\ r = "connecting"

OpenIsFirst ==
  \A s \in Sockets :
    /\ OpenFrameFirst(s, mail[s], ready[s])
    /\ s \in link /\ ready[s] = "connecting" => mail[s] # <<>>

\* A path that is cut carries nothing.
LEMMA CutOpen ==
  ASSUME TypeOK, OpenIsFirst, NEW s \in Sockets, CutLink(s),
         \A t \in Sockets : t # s => ready'[t] = ready[t]
  PROVE  OpenIsFirst'
<1>1. /\ mail'[s] = <<>> /\ s \notin link' /\ link' \subseteq link
      /\ \A t \in Sockets : t # s => mail'[t] = mail[t]
  BY DEF TypeOK, CutLink
<1> SUFFICES ASSUME NEW t \in Sockets
             PROVE  /\ OpenFrameFirst(t, mail'[t], ready'[t])
                    /\ t \in link' /\ ready'[t] = "connecting" => mail'[t] # <<>>
  BY DEF OpenIsFirst, OpenFrameFirst
<1>2. CASE t = s
  BY <1>1, <1>2 DEF OpenFrameFirst
<1>3. CASE t # s
  BY <1>1, <1>3 DEF OpenIsFirst
<1> QED
  BY <1>2, <1>3

\* A frame other than "open" comes after it.
LEMMA DeliverOpen ==
  ASSUME TypeOK, OpenIsFirst, NEW s \in Sockets, NEW f \in Frames \ {"open"}, NEW t \in Sockets
  PROVE  /\ OpenFrameFirst(t, Deliver(s, f, mail)[t], ready[t])
         /\ t \in link /\ ready[t] = "connecting" => Deliver(s, f, mail)[t] # <<>>
<1>1. mail[t] \in Seq(Frames)
  BY DEF TypeOK
<1>2. CASE t = s /\ s \in link
  <2>1. Deliver(s, f, mail)[t] = Append(mail[t], f)
    BY <1>2 DEF Deliver, TypeOK
  <2>2. Append(mail[t], f) # <<>>
    BY <1>1
  <2>3. Len(Append(mail[t], f)) = Len(mail[t]) + 1 /\ Len(mail[t]) \in Nat
    BY <1>1
  <2>4. ASSUME NEW i \in 1 .. Len(mail[t]) + 1
        PROVE  Append(mail[t], f)[i] = "open" <=> i = 1 /\ ready[t] = "connecting"
    <3>1. CASE i \in 1 .. Len(mail[t])
      <4>1. Append(mail[t], f)[i] = mail[t][i]
        BY <1>1, <3>1
      <4> QED
        BY <3>1, <4>1 DEF OpenIsFirst, OpenFrameFirst
    <3>2. CASE i = Len(mail[t]) + 1
      <4>1. Append(mail[t], f)[i] = f
        BY <1>1, <3>2
      <4>2. ~ (i = 1 /\ ready[t] = "connecting")
        <5>1. ready[t] = "connecting" => mail[t] # <<>>
          BY <1>2 DEF OpenIsFirst
        <5> QED
          BY <1>1, <3>2, <5>1
      <4> QED
        BY <4>1, <4>2
    <3> QED
      BY <2>3, <3>1, <3>2
  <2> QED
    BY <2>1, <2>2, <2>3, <2>4 DEF OpenFrameFirst
<1>3. CASE ~ (t = s /\ s \in link)
  <2>1. Deliver(s, f, mail)[t] = mail[t]
    BY <1>3 DEF Deliver, TypeOK
  <2> QED
    BY <2>1 DEF OpenIsFirst
<1> QED
  BY <1>2, <1>3

\* Every step keeps the order.
LEMMA OpenStep == TypeInv /\ OpenIsFirst /\ [Next]_vars => OpenIsFirst'
<1> SUFFICES ASSUME TypeInv, OpenIsFirst, [Next]_vars PROVE OpenIsFirst'
  OBVIOUS
<1>a. TypeOK
  BY DEF TypeInv
<1> USE DEF socketVars, retryVars, uiVars, timerVars, mapVars, serverVars, pathVars, netVars, countVars
<1>1. ASSUME UNCHANGED <<ready, mail, link>> PROVE OpenIsFirst'
  BY <1>1 DEF OpenIsFirst, OpenFrameFirst
<1>2. ASSUME NEW p \in Pages, NewSocket(p), UNCHANGED <<mail, link>> PROVE OpenIsFirst'
  <2> DEFINE next == <<p, ws[p] + 1>>
  <2>1. next \in Sockets /\ ready[next] = "none"
    BY <1>2, <1>a, NextSocket DEF TypeInv, TypeOK, Fresh, NewSocket
  <2>2. \A s \in Sockets : s # next => ready'[s] = ready[s]
    BY <1>2, <1>a, <2>1 DEF TypeOK, NewSocket
  <2>3. next \notin link /\ mail[next] = <<>>
    BY <1>a, <2>1 DEF TypeOK
  <2> SUFFICES ASSUME NEW s \in Sockets
               PROVE  /\ OpenFrameFirst(s, mail[s], ready'[s])
                      /\ s \in link /\ ready'[s] = "connecting" => mail[s] # <<>>
    BY <1>2 DEF OpenIsFirst, OpenFrameFirst
  <2>4. CASE s = next
    BY <2>3, <2>4 DEF OpenFrameFirst
  <2>5. CASE s # next
    BY <2>2, <2>5 DEF OpenIsFirst
  <2> QED
    BY <2>4, <2>5
<1>3. ASSUME NEW p \in Pages, Connect(p) \/ ReconnectTimer(p) PROVE OpenIsFirst'
  BY <1>2, <1>3 DEF Connect, ReconnectTimer
<1>4. ASSUME NEW s \in Sockets, DidClose(s) PROVE OpenIsFirst'
  <2>1. \A t \in Sockets : t # s => ready'[t] = ready[t]
    BY <1>4, <1>a DEF TypeOK, DidClose
  <2> QED
    BY <1>4, <1>a, <2>1, CutOpen DEF DidClose
<1>5. ASSUME NEW p \in Pages, ReplyTimeout(p) PROVE OpenIsFirst'
  <2>1. CASE Connecting(p) \/ IsOpen(p)
    BY <1>4, <1>5, <1>a, <2>1, WsSocket DEF Connecting, IsOpen, ReplyTimeout
  <2>2. CASE ~ (Connecting(p) \/ IsOpen(p))
    BY <1>1, <1>5, <2>2 DEF ReplyTimeout
  <2> QED
    BY <2>1, <2>2
<1>6. ASSUME NEW s \in Sockets, SocketCloses(s) \/ ConnectFails(s) PROVE OpenIsFirst'
  BY <1>4, <1>6 DEF SocketCloses, ConnectFails
<1>7. ASSUME NEW s \in Sockets, Break(s) PROVE OpenIsFirst'
  BY <1>7, <1>a, CutOpen DEF Break
<1>8. ASSUME NEW s \in Sockets, Receive(s) PROVE OpenIsFirst'
  <2>1. /\ mail[s] \in Seq(Frames) /\ mail[s] # <<>> /\ link' = link
        /\ mail'[s] = Tail(mail[s])
        /\ \A t \in Sockets : t # s => mail'[t] = mail[t] /\ ready'[t] = ready[t]
    BY <1>8, <1>a DEF Receive, TypeOK
  <2>2. Head(mail[s]) = mail[s][1] /\ 1 \in 1 .. Len(mail[s])
    BY <2>1
  <2>3. Head(mail[s]) = "open" <=> ready[s] = "connecting"
    BY <2>2 DEF OpenIsFirst, OpenFrameFirst
  <2>4. ready'[s] # "connecting"
    BY <1>8, <1>a, <2>3 DEF Receive, TypeOK
  <2>5. OpenFrameFirst(s, Tail(mail[s]), ready'[s])
    <3> SUFFICES ASSUME NEW i \in 1 .. Len(Tail(mail[s])) PROVE Tail(mail[s])[i] # "open"
      BY <2>4 DEF OpenFrameFirst
    <3>1. Tail(mail[s])[i] = mail[s][i + 1] /\ i + 1 \in 1 .. Len(mail[s]) /\ i + 1 # 1
      BY <2>1
    <3> QED
      BY <3>1 DEF OpenIsFirst, OpenFrameFirst
  <2> SUFFICES ASSUME NEW t \in Sockets
               PROVE  /\ OpenFrameFirst(t, mail'[t], ready'[t])
                      /\ t \in link /\ ready'[t] = "connecting" => mail'[t] # <<>>
    BY <2>1 DEF OpenIsFirst, OpenFrameFirst
  <2>6. CASE t = s
    BY <2>1, <2>4, <2>5, <2>6
  <2>7. CASE t # s
    BY <2>1, <2>7 DEF OpenIsFirst
  <2> QED
    BY <2>6, <2>7
<1>9. ASSUME NEW s \in Sockets, Accept(s) PROVE OpenIsFirst'
  <2> DEFINE told == IF registered = None THEN mail
                     ELSE Deliver(registered, "notHeartBeat", mail)
  <2>1. ready' = ready /\ session[s] = "none" /\ s \notin link
    BY <1>9, <1>a DEF Accept, TypeOK
  <2>2. \A t \in Sockets :
          /\ OpenFrameFirst(t, told[t], ready[t])
          /\ t \in link /\ ready[t] = "connecting" => told[t] # <<>>
    <3>1. CASE registered = None
      BY <3>1 DEF OpenIsFirst
    <3>2. CASE registered # None
      <4>1. registered \in Sockets /\ "notHeartBeat" \in Frames \ {"open"}
        BY <1>a, <3>2 DEF TypeOK, Frames
      <4> QED
        BY <1>a, <3>2, <4>1, DeliverOpen
    <3> QED
      BY <3>1, <3>2
  <2>3. told \in [Sockets -> Seq(Frames)]
    BY <1>a DEF TypeOK, Deliver, Frames
  <2> SUFFICES ASSUME NEW t \in Sockets
               PROVE  /\ OpenFrameFirst(t, mail'[t], ready[t])
                      /\ t \in link' /\ ready[t] = "connecting" => mail'[t] # <<>>
    BY <2>1 DEF OpenIsFirst, OpenFrameFirst
  <2>4. CASE ready[s] = "connecting" /\ t = s
    <3>1. mail'[t] = <<"open">>
      BY <1>9, <2>3, <2>4 DEF Accept
    <3> QED
      BY <2>4, <3>1 DEF OpenFrameFirst
  <2>5. CASE ready[s] = "connecting" /\ t # s
    <3>1. mail'[t] = told[t] /\ (t \in link' => t \in link)
      BY <1>9, <2>3, <2>5 DEF Accept
    <3> QED
      BY <2>2, <3>1
  <2>6. CASE ready[s] # "connecting"
    <3>1. mail' = told /\ link' = link
      BY <1>9, <2>6 DEF Accept
    <3> QED
      BY <2>2, <3>1
  <2> QED
    BY <2>4, <2>5, <2>6
<1>10. ASSUME NEW s \in Sockets, NEW f \in Frames \ {"open"}, mail' = Deliver(s, f, mail),
              ready' = ready, link' = link
       PROVE  OpenIsFirst'
  BY <1>10, <1>a, DeliverOpen DEF OpenIsFirst, OpenFrameFirst
<1>11. ASSUME NEW s \in Sockets, HeartBeat(s) PROVE OpenIsFirst'
  <2>1. {"HeartBeat", "notHeartBeat"} \subseteq Frames \ {"open"}
    BY DEF Frames
  <2>2. ready' = ready /\ link' = link
    BY <1>11 DEF HeartBeat
  <2>3. CASE registered = None
    BY <1>1, <1>11, <2>2, <2>3 DEF HeartBeat
  <2>4. CASE registered = s
    BY <1>10, <1>11, <1>a, <2>1, <2>2, <2>4, Bounds DEF HeartBeat, TypeOK
  <2>5. CASE registered \notin {s, None}
    BY <1>10, <1>11, <2>1, <2>2, <2>5 DEF HeartBeat
  <2> QED
    BY <2>3, <2>4, <2>5
<1>12. CASE SendMsg
  <2>1. /\ registered \in Sockets /\ "msg" \in Frames \ {"open"}
        /\ mail' = Deliver(registered, "msg", mail) /\ ready' = ready /\ link' = link
    BY <1>12, <1>a DEF SendMsg, TypeOK, Frames
  <2> QED
    BY <1>10, <2>1
<1>13. ASSUME NEW p \in Pages, Beat(p) PROVE OpenIsFirst'
  BY <1>1, <1>13 DEF Beat
<1>14. ASSUME NEW s \in Sockets, OnClose(s) \/ AcceptThrows(s) \/ Save(s) \/ SessionCloses(s)
       PROVE  OpenIsFirst'
  BY <1>1, <1>14 DEF OnClose, AcceptThrows, Save, LookupMap, InstallMap, PutSession, SessionCloses
<1>15. CASE Look \/ UNCHANGED vars
  BY <1>1, <1>15 DEF Look, vars
<1> QED
  BY <1>3, <1>5, <1>6, <1>7, <1>8, <1>9, <1>11, <1>12, <1>13, <1>14, <1>15 DEF Next

-----------------------------------------------------------------------------
(* The refinement of PageLink. *)
PageView == <<Phases, banner>>

\* What the phase of a page is.
LEMMA PhaseIs ==
  ASSUME TypeOK, NEW p \in Pages
  PROVE  /\ ws[p] = 0 => Phases[p] = "loaded"
         /\ Connecting(p) => Phases[p] = "trying"
         /\ IsOpen(p) => Phases[p] = "open"
         /\ ws[p] > 0 /\ ready[Ws(p)] = "closed" /\ Ws(p) \in closing => Phases[p] = "lost"
         /\ ws[p] > 0 /\ ~ Live(Ws(p)) => Phases[p] = "waiting"
  BY DEF TypeOK, Phases, Connecting, IsOpen, Live

\* The phase of a page depends on nothing but its _ws, the state of that socket, and
\* whether its close event is queued.
LEMMA PhaseKept ==
  ASSUME TypeOK, NEW p \in Pages, ws'[p] = ws[p],
         ws[p] > 0 => /\ ready'[Ws(p)] = ready[Ws(p)]
                      /\ Ws(p) \in closing' <=> Ws(p) \in closing
  PROVE  Phases'[p] = Phases[p]
<1>1. Ws(p)' = Ws(p)
  BY DEF Ws
<1>2. ws[p] = 0 \/ ws[p] > 0
  BY DEF TypeOK
<1> QED
  BY <1>1, <1>2 DEF Phases, Connecting, IsOpen

\* A step that changes the current socket of one page changes the phase of that page only.
LEMMA PhaseOfOne ==
  ASSUME TypeOK, NEW p \in Pages, NEW x, Phases'[p] = x,
         \A q \in Pages : q # p => ws'[q] = ws[q],
         \A q \in Pages : q # p /\ ws[q] > 0 =>
             /\ ready'[Ws(q)] = ready[Ws(q)]
             /\ Ws(q) \in closing' <=> Ws(q) \in closing
  PROVE  Phases' = [Phases EXCEPT ![p] = x]
<1>1. \A q \in Pages : q # p => Phases'[q] = Phases[q]
  BY PhaseKept
<1>2. Phases = [q \in Pages |-> Phases[q]] /\ Phases' = [q \in Pages |-> Phases'[q]]
  BY Zenon DEF Phases
<1> QED
  BY <1>1, <1>2

\* A page that connects tries.
LEMMA TryPhase ==
  ASSUME TypeInv, NEW p \in Pages, NewSocket(p), closing' = closing
  PROVE  Phases' = [Phases EXCEPT ![p] = "trying"]
<1> DEFINE next == <<p, ws[p] + 1>>
<1>1. next \in Sockets /\ ws[p] + 1 \in 1 .. MaxSockets[p]
  BY NextSocket DEF TypeInv, NewSocket
<1>2. ws'[p] = ws[p] + 1 /\ ready'[next] = "connecting"
  BY <1>1 DEF TypeInv, TypeOK, NewSocket
<1>3. Phases'[p] = "trying"
  BY <1>1, <1>2 DEF Phases, Connecting, Ws
<1>4. ASSUME NEW q \in Pages, q # p
      PROVE  ws'[q] = ws[q] /\ (ws[q] > 0 => ready'[Ws(q)] = ready[Ws(q)])
  <2>1. ws[q] > 0 => Ws(q) \in Sockets
    BY WsSocket DEF TypeInv
  <2>2. Ws(q) # next
    BY <1>4 DEF Ws
  <2> QED
    BY <1>4, <2>1, <2>2 DEF TypeInv, TypeOK, NewSocket
<1> QED
  BY <1>3, <1>4, PhaseOfOne DEF TypeInv

\* A socket that closes is the one its page has or tries: the page loses it.
LEMMA LosePhase ==
  ASSUME TypeInv, WayInv, NEW s \in Sockets, ready[s] \in {"connecting", "open"}, DidClose(s),
         ws' = ws, banner' = banner
  PROVE  Link!Next
<1> DEFINE p == s[1]
<1>a. TypeOK
  BY DEF TypeInv
<1>1. s = Ws(p) /\ ws[p] > 0 /\ p \in Pages
  BY <1>a, LiveWs DEF WayInv, Live
<1>2. Phases[p] \in {"trying", "open"}
  BY <1>a, <1>1, PhaseIs DEF Connecting, IsOpen
<1>3. ready'[s] = "closed" /\ s \in closing' /\ Ws(p)' = s
  BY <1>a, <1>1 DEF TypeOK, DidClose, Ws
<1>4. Phases'[p] = "lost"
  BY <1>1, <1>3 DEF Phases, Connecting, IsOpen
<1>5. ASSUME NEW q \in Pages, q # p, ws[q] > 0
      PROVE  ready'[Ws(q)] = ready[Ws(q)] /\ (Ws(q) \in closing' <=> Ws(q) \in closing)
  <2>1. Ws(q) \in Sockets /\ Ws(q) # s
    BY <1>a, <1>1, <1>5, WsSocket DEF Ws
  <2> QED
    BY <1>a, <2>1 DEF TypeOK, DidClose
<1>6. Phases' = [Phases EXCEPT ![p] = "lost"]
  BY <1>a, <1>1, <1>4, <1>5, PhaseOfOne
<1>7. Link!Loses(p)
  BY <1>2, <1>6 DEF Link!Loses, Link!Go
<1> QED
  BY <1>1, <1>7 DEF Link!Next

\* Every step of a page is a step of PageLink, or one it does not see.
LEMMA LinkStep ==
  TypeInv /\ WayInv /\ OpenIsFirst /\ [Next]_vars => [Link!Next]_PageView
<1> SUFFICES ASSUME TypeInv, WayInv, OpenIsFirst, [Next]_vars
             PROVE  Link!Next \/ UNCHANGED PageView
  BY DEF PageView
<1>a. TypeOK
  BY DEF TypeInv
<1> USE DEF socketVars, retryVars, uiVars, timerVars, mapVars, serverVars, pathVars, netVars, countVars
<1>1. ASSUME UNCHANGED <<ws, ready, closing, banner>> PROVE UNCHANGED PageView
  BY <1>1 DEF PageView, Phases, Connecting, IsOpen, Ws
<1>2. ASSUME NEW p \in Pages, Connect(p) PROVE Link!Next
  <2>1. Phases[p] = "loaded" /\ banner' = banner
    BY <1>2, <1>a, PhaseIs DEF Connect
  <2>2. Phases' = [Phases EXCEPT ![p] = "trying"]
    BY <1>2, TryPhase DEF Connect
  <2>3. Link!Try(p)
    BY <2>1, <2>2 DEF Link!Try, Link!Go
  <2> QED
    BY <2>3 DEF Link!Next
<1>3. ASSUME NEW p \in Pages, ReconnectTimer(p) PROVE Link!Next
  <2>1. ~ Live(Ws(p)) /\ ws[p] > 0
    BY <1>3, <1>a DEF ReconnectTimer, WayInv, OneOrTheOther, TypeOK
  <2>2. Phases[p] = "waiting" /\ banner' = banner
    BY <1>3, <1>a, <2>1, PhaseIs DEF ReconnectTimer
  <2>3. Phases' = [Phases EXCEPT ![p] = "trying"]
    BY <1>3, TryPhase DEF ReconnectTimer
  <2>4. Link!Try(p)
    BY <2>2, <2>3 DEF Link!Try, Link!Go
  <2> QED
    BY <2>4 DEF Link!Next
<1>4. ASSUME NEW s \in Sockets, OnClose(s) PROVE Link!Next
  <2> DEFINE p == s[1]
  <2>1. Live(s) /\ ready[s] = "closed" /\ s \in closing
    BY <1>4, <1>a DEF OnClose, Live, TypeOK
  <2>2. s = Ws(p) /\ ws[p] > 0 /\ p \in Pages
    BY <1>a, <2>1, LiveWs DEF WayInv
  <2>3. Phases[p] = "lost"
    BY <1>a, <2>1, <2>2, PhaseIs
  <2>4. ws' = ws /\ ready' = ready /\ closing' = closing \ {s} /\ banner' = banner \cup {p}
    BY <1>4 DEF OnClose, Reconnect
  <2>5. Phases'[p] = "waiting"
    BY <2>1, <2>2, <2>4 DEF Phases, Connecting, IsOpen, Ws
  <2>6. \A q \in Pages : q # p => Ws(q) # s
    BY <2>2 DEF Ws
  <2>7. Phases' = [Phases EXCEPT ![p] = "waiting"]
    BY <1>a, <2>2, <2>4, <2>5, <2>6, PhaseOfOne
  <2>8. Link!Notices(p)
    BY <2>3, <2>4, <2>7 DEF Link!Notices, Link!Go
  <2> QED
    BY <2>2, <2>8 DEF Link!Next
<1>5. ASSUME NEW s \in Sockets, Receive(s) PROVE Link!Next \/ UNCHANGED PageView
  <2> DEFINE p == s[1]
  <2>1. /\ ready[s] \in {"connecting", "open"} /\ ws' = ws /\ closing' = closing
        /\ mail[s] \in Seq(Frames) /\ mail[s] # <<>>
    BY <1>5, <1>a DEF Receive, TypeOK
  <2>2. s = Ws(p) /\ ws[p] > 0 /\ p \in Pages
    BY <1>a, <2>1, LiveWs DEF WayInv, Live
  <2>3. Head(mail[s]) = "open" <=> ready[s] = "connecting"
    <3>1. Head(mail[s]) = mail[s][1] /\ 1 \in 1 .. Len(mail[s])
      BY <2>1
    <3> QED
      BY <3>1 DEF OpenIsFirst, OpenFrameFirst
  <2>4. CASE Head(mail[s]) = "open"
    <3>1. ready' = [ready EXCEPT ![s] = "open"] /\ banner' = banner \ {p}
      BY <1>5, <2>4 DEF Receive
    <3>2. ready'[s] = "open" /\ \A t \in Sockets \ {s} : ready'[t] = ready[t]
      BY <1>a, <3>1 DEF TypeOK
    <3>3. Phases[p] = "trying"
      BY <1>a, <2>2, <2>3, <2>4, PhaseIs DEF Connecting
    <3>4. Phases'[p] = "open"
      BY <2>1, <2>2, <3>2 DEF Phases, Connecting, IsOpen, Ws
    <3>5. \A q \in Pages : q # p /\ ws[q] > 0 => Ws(q) \in Sockets \ {s}
      BY <1>a, <2>2, WsSocket DEF Ws
    <3>6. Phases' = [Phases EXCEPT ![p] = "open"]
      BY <1>a, <2>1, <2>2, <3>2, <3>4, <3>5, PhaseOfOne
    <3>7. Link!Opens(p)
      BY <3>1, <3>3, <3>6 DEF Link!Opens, Link!Go
    <3> QED
      BY <2>2, <3>7 DEF Link!Next
  <2>5. CASE Head(mail[s]) # "open"
    <3>1. ready' = ready /\ banner' \in {banner, banner \cup {p}}
      BY <1>5, <2>5 DEF Receive
    <3>2. Phases' = Phases
      BY <2>1, <3>1 DEF Phases, Connecting, IsOpen, Ws
    <3>3. Phases[p] = "open"
      BY <1>a, <2>1, <2>2, <2>3, <2>5, PhaseIs DEF IsOpen
    <3>4. CASE banner' = banner
      BY <3>2, <3>4 DEF PageView
    <3>5. CASE banner' = banner \cup {p}
      <4>1. Link!Warn(p)
        BY <3>2, <3>3, <3>5 DEF Link!Warn
      <4> QED
        BY <2>2, <4>1 DEF Link!Next
    <3> QED
      BY <3>1, <3>4, <3>5
  <2> QED
    BY <2>4, <2>5
<1>6. ASSUME NEW p \in Pages, ReplyTimeout(p) PROVE Link!Next \/ UNCHANGED PageView
  <2>1. CASE Connecting(p) \/ IsOpen(p)
    <3>1. /\ Ws(p) \in Sockets /\ ready[Ws(p)] \in {"connecting", "open"} /\ DidClose(Ws(p))
          /\ ws' = ws /\ banner' = banner
      BY <1>6, <1>a, <2>1, WsSocket DEF Connecting, IsOpen, ReplyTimeout
    <3> QED
      BY <3>1, LosePhase
  <2>2. CASE ~ (Connecting(p) \/ IsOpen(p))
    BY <1>1, <1>6, <2>2 DEF ReplyTimeout
  <2> QED
    BY <2>1, <2>2
<1>7. ASSUME NEW s \in Sockets, SocketCloses(s) \/ ConnectFails(s) PROVE Link!Next
  <2>1. ready[s] \in {"connecting", "open"} /\ DidClose(s) /\ ws' = ws /\ banner' = banner
    BY <1>7 DEF SocketCloses, ConnectFails
  <2> QED
    BY <2>1, LosePhase
<1>8. ASSUME NEW p \in Pages, Beat(p) PROVE UNCHANGED PageView
  BY <1>1, <1>8 DEF Beat
<1>9. ASSUME NEW s \in Sockets, \/ Accept(s) \/ AcceptThrows(s) \/ Save(s)
                                \/ HeartBeat(s) \/ SessionCloses(s) \/ Break(s)
      PROVE  UNCHANGED PageView
  BY <1>1, <1>9 DEF Accept, AcceptThrows, Save, LookupMap, InstallMap, PutSession,
     HeartBeat, SessionCloses, Break
<1>10. ASSUME SendMsg \/ Look \/ UNCHANGED vars PROVE UNCHANGED PageView
  BY <1>1, <1>10 DEF SendMsg, Look, vars
<1> QED
  BY <1>2, <1>3, <1>4, <1>5, <1>6, <1>7, <1>8, <1>9, <1>10 DEF Next

\* A page goes round: it tries, opens, loses, notices and waits, in this order, and it
\* hides "you are offline" only when the socket it is trying opens.
THEOREM LinkCorrect == Spec => GoesRound
<1>1. Init => Link!Init
  BY DEF Init, Link!Init, Phases
<1>2. Init => OpenIsFirst
  BY DEF Init, OpenIsFirst, OpenFrameFirst
<1>3. TypeInv /\ OpenIsFirst /\ [Next]_vars => OpenIsFirst'
  BY OpenStep
<1> QED
  BY <1>1, <1>2, <1>3, InitType, TypeStep, WayAlways, LinkStep, PTL
  DEF Spec, GoesRound, Link!Spec, PageView

-----------------------------------------------------------------------------
(* StrangerIsTold.  While any saveSession is at work, every session that it *)
(* can take the place of knows already (EarlierKnow); a session that is     *)
(* reachable and shares saveSession with another counts as crossed          *)
(* (OverlapsCross), and so does one whose inner map was replaced, because   *)
(* only another saveSession replaces it (ObsoleteCross).                    *)

Told(m) == \E i \in 1 .. Len(m) : m[i] = "notHeartBeat"

\* The page of t was told, or will read it.
Known(t) == t[1] \in disable \/ Told(mail[t])

EarlierKnow ==
  Saving # {} => \A t \in link : saving[t] = "no" /\ t \notin crossed => Known(t)

OverlapsCross == \A s, t \in Saving : s # t /\ t \in link => t \in crossed

ObsoleteCross == \A t \in link : saving[t] = "obsolete" => t \in crossed

StrangerInv == StrangerIsTold /\ EarlierKnow /\ OverlapsCross /\ ObsoleteCross

\* Steps that leave saveSession alone: paths may go, pages may learn more, and a session
\* without a path may lose its place.
LEMMA StrangerKept ==
  ASSUME TypeOK, StrangerInv, saving' = saving, link' \subseteq link,
         \A t \in link' : /\ t \in crossed' <=> t \in crossed
                          /\ t = registered => t = registered'
                          /\ Known(t) => Known(t)'
  PROVE  StrangerInv'
<1>1. Saving' = Saving
  BY DEF Saving
<1>2. StrangerIsTold'
  BY DEF StrangerInv, StrangerIsTold, Known, Told
<1>3. EarlierKnow'
  BY <1>1 DEF StrangerInv, EarlierKnow
<1>4. OverlapsCross' /\ ObsoleteCross'
  BY <1>1 DEF StrangerInv, OverlapsCross, ObsoleteCross
<1> QED
  BY <1>2, <1>3, <1>4 DEF StrangerInv

\* A frame that is sent takes no other frame away.
LEMMA DeliverTold ==
  ASSUME TypeOK, NEW s \in Sockets, NEW f \in Frames, NEW t \in Sockets
  PROVE  /\ Told(mail[t]) => Told(Deliver(s, f, mail)[t])
         /\ t = s /\ s \in link /\ f = "notHeartBeat" => Told(Deliver(s, f, mail)[t])
<1>1. mail[t] \in Seq(Frames)
  BY DEF TypeOK
<1>2. CASE t = s /\ s \in link
  <2>1. Deliver(s, f, mail)[t] = Append(mail[t], f)
    BY <1>2 DEF Deliver, TypeOK
  <2>2. /\ Len(Append(mail[t], f)) = Len(mail[t]) + 1 /\ Len(mail[t]) \in Nat
        /\ Append(mail[t], f)[Len(mail[t]) + 1] = f
        /\ \A i \in 1 .. Len(mail[t]) : Append(mail[t], f)[i] = mail[t][i]
    BY <1>1
  <2> QED
    BY <2>1, <2>2 DEF Told
<1>3. CASE ~ (t = s /\ s \in link)
  <2>1. Deliver(s, f, mail)[t] = mail[t]
    BY <1>3 DEF Deliver, TypeOK
  <2> QED
    BY <1>3, <2>1
<1> QED
  BY <1>2, <1>3

\* A new session tells the registered one: then everybody before it knows.
LEMMA AcceptStranger ==
  ASSUME TypeOK, StrangerInv, NEW s \in Sockets, Accept(s)
  PROVE  StrangerInv'
<1> USE DEF mapVars
<1> DEFINE told == IF registered = None THEN mail
                   ELSE Deliver(registered, "notHeartBeat", mail)
<1>1. /\ disable' = disable /\ link' \subseteq link \cup {s} /\ link \subseteq Sockets
      /\ crossed \subseteq crossed' /\ s \notin link
  BY DEF Accept, TypeOK, uiVars
<1>2. /\ saving[s] = "no" /\ saving'[s] = "get"
      /\ \A t \in Sockets : t # s => saving'[t] = saving[t]
  BY DEF Accept, GoSave, TypeOK
<1>3. Saving' = Saving \cup {s} /\ s \notin Saving
  BY <1>2 DEF Saving
<1>4. ASSUME NEW t \in link', saving'[t] = "no", t \notin crossed' PROVE Known(t)'
  <2>1. t \in link /\ t \in Sockets /\ t # s /\ saving[t] = "no" /\ t \notin crossed
    BY <1>1, <1>2, <1>4
  <2>2. "notHeartBeat" \in Frames
    BY DEF Frames
  <2>3. told \in [Sockets -> Seq(Frames)]
    BY <2>2 DEF TypeOK, Deliver
  <2>4. mail'[t] = told[t]
    BY <2>1, <2>3 DEF Accept
  <2>5. CASE t = registered
    <3>1. Told(Deliver(t, "notHeartBeat", mail)[t]) /\ t # None
      BY <2>1, <2>2, DeliverTold, Bounds
    <3> QED
      BY <2>4, <2>5, <3>1 DEF Known
  <2>6. CASE t # registered
    <3>1. Known(t)
      BY <2>1, <2>6 DEF StrangerInv, StrangerIsTold, Known, Told
    <3>2. Told(mail[t]) => Told(told[t])
      <4>1. CASE registered = None
        BY <4>1
      <4>2. CASE registered \in Sockets
        BY <2>1, <2>2, <4>2, DeliverTold
      <4> QED
        BY <4>1, <4>2 DEF TypeOK
    <3> QED
      BY <1>1, <2>4, <3>1, <3>2 DEF Known
  <2> QED
    BY <2>5, <2>6
<1>5. StrangerIsTold' /\ EarlierKnow'
  BY <1>4 DEF StrangerIsTold, EarlierKnow, Known, Told
<1>6. OverlapsCross'
  <2> SUFFICES ASSUME NEW u \in Saving', NEW t \in Saving', u # t, t \in link'
               PROVE  t \in crossed'
    BY DEF OverlapsCross
  <2>1. Saving # {} /\ t \in Saving \cup {s}
    BY <1>3
  <2> QED
    BY <2>1 DEF Accept
<1>7. ObsoleteCross'
  <2> SUFFICES ASSUME NEW t \in link', saving'[t] = "obsolete" PROVE t \in crossed'
    BY DEF ObsoleteCross
  <2>1. t \in link /\ saving[t] = "obsolete"
    BY <1>1, <1>2
  <2> QED
    BY <1>1, <2>1 DEF StrangerInv, ObsoleteCross
<1> QED
  BY <1>5, <1>6, <1>7 DEF StrangerInv

\* saveSession takes a place only from sessions that know, or that it overlaps.
LEMMA SaveStranger ==
  ASSUME TypeOK, StrangerInv, NEW s \in Sockets, Save(s)
  PROVE  StrangerInv'
<1>1. UNCHANGED <<disable, mail, link, crossed>> /\ link \subseteq Sockets
  BY DEF Save, LookupMap, InstallMap, PutSession, TypeOK, uiVars, netVars, pathVars
<1>2. s \in Saving
  BY DEF Save, LookupMap, InstallMap, PutSession, GoSave, Saving
<1>3. \A t \in Sockets : t # s =>
        /\ saving'[t] = "no" <=> saving[t] = "no"
        /\ saving'[t] = "obsolete" => saving[t] \in {"put", "obsolete"}
  BY DEF Save, LookupMap, InstallMap, PutSession, GoSave, TypeOK
<1>4. saving'[s] # "obsolete"
  BY DEF Save, LookupMap, InstallMap, PutSession, GoSave, TypeOK
<1>5. Saving' \subseteq Saving
  BY <1>2, <1>3 DEF Saving
<1>6. ASSUME NEW t \in link', t # s, saving'[t] = "no", t \notin crossed' PROVE Known(t)'
  BY <1>1, <1>2, <1>3, <1>6 DEF StrangerInv, EarlierKnow, Known
<1>7. ASSUME s \in link', saving'[s] = "no", s \notin crossed' PROVE registered' = s /\ Saving' = {}
  <2>1. s \in link /\ s \notin crossed
    BY <1>1, <1>7
  <2>2. \A u \in Saving : u = s
    BY <1>2, <2>1 DEF StrangerInv, OverlapsCross
  <2>3. saving[s] # "obsolete"
    BY <2>1 DEF StrangerInv, ObsoleteCross
  <2>4. ~ \E u \in Sockets \ {s} : saving[u] = "put"
    BY <2>2 DEF Saving
  <2>5. PutSession(s)
    BY <1>7 DEF Save, LookupMap, InstallMap, GoSave, TypeOK
  <2>6. registered' = s
    BY <2>3, <2>4, <2>5 DEF PutSession, GoSave
  <2>7. Saving' = {}
    BY <1>5, <1>7, <2>2 DEF Saving
  <2> QED
    BY <2>6, <2>7
<1>8. StrangerIsTold'
  BY <1>6, <1>7 DEF StrangerIsTold, Known, Told
<1>9. EarlierKnow'
  BY <1>6, <1>7 DEF EarlierKnow
<1>10. OverlapsCross'
  BY <1>1, <1>5 DEF StrangerInv, OverlapsCross
<1>11. ObsoleteCross'
  <2> SUFFICES ASSUME NEW t \in link, saving'[t] = "obsolete" PROVE t \in crossed
    BY <1>1 DEF ObsoleteCross
  <2>1. t # s /\ t \in Sockets /\ saving[t] \in {"put", "obsolete"}
    BY <1>1, <1>3, <1>4
  <2>2. t \in Saving
    BY <2>1 DEF Saving
  <2> QED
    BY <1>2, <2>1, <2>2 DEF StrangerInv, OverlapsCross
<1> QED
  BY <1>8, <1>9, <1>10, <1>11 DEF StrangerInv

\* Every step keeps the invariant.
LEMMA StrangerStep == TypeOK /\ StrangerInv /\ [Next]_vars => StrangerInv'
<1> SUFFICES ASSUME TypeOK, StrangerInv, [Next]_vars PROVE StrangerInv'
  OBVIOUS
<1> USE DEF socketVars, retryVars, uiVars, timerVars, mapVars, serverVars, pathVars, netVars, countVars
<1>a. link \subseteq Sockets
  BY DEF TypeOK
<1>1. ASSUME UNCHANGED <<saving, link, crossed, registered, disable, mail>>
      PROVE  StrangerInv'
  BY <1>1, StrangerKept DEF Known
<1>2. ASSUME NEW s \in Sockets, CutLink(s), UNCHANGED <<saving, registered, disable>>
      PROVE  StrangerInv'
  <2>1. \A t \in link' : t \in Sockets /\ t # s /\ mail'[t] = mail[t]
    BY <1>2, <1>a DEF CutLink, TypeOK
  <2>2. link' \subseteq link /\ crossed' = crossed \ {s}
    BY <1>2 DEF CutLink
  <2> QED
    BY <1>2, <2>1, <2>2, StrangerKept DEF Known
<1>3. ASSUME NEW s \in Sockets, NEW f \in Frames, mail' = Deliver(s, f, mail),
             UNCHANGED <<saving, link, crossed, registered, disable>>
      PROVE  StrangerInv'
  <2>1. \A t \in link : Told(mail[t]) => Told(mail'[t])
    BY <1>3, <1>a, DeliverTold
  <2> QED
    BY <1>3, <2>1, StrangerKept DEF Known
<1>4. ASSUME NEW p \in Pages, Connect(p) \/ ReconnectTimer(p) \/ Beat(p) PROVE StrangerInv'
  BY <1>1, <1>4 DEF Connect, ReconnectTimer, Beat
<1>5. ASSUME NEW p \in Pages, ReplyTimeout(p) PROVE StrangerInv'
  <2>1. CASE Connecting(p) \/ IsOpen(p)
    BY <1>2, <1>5, <2>1, WsSocket DEF Connecting, IsOpen, ReplyTimeout, DidClose
  <2>2. CASE ~ (Connecting(p) \/ IsOpen(p))
    BY <1>1, <1>5, <2>2 DEF ReplyTimeout
  <2> QED
    BY <2>1, <2>2
<1>6. ASSUME NEW s \in Sockets, OnClose(s) \/ AcceptThrows(s) \/ SessionCloses(s)
      PROVE  StrangerInv'
  BY <1>1, <1>6 DEF OnClose, Reconnect, AcceptThrows, SessionCloses
<1>7. ASSUME NEW s \in Sockets, Break(s) \/ SocketCloses(s) \/ ConnectFails(s)
      PROVE  StrangerInv'
  BY <1>2, <1>7 DEF Break, SocketCloses, ConnectFails, DidClose
<1>8. ASSUME NEW s \in Sockets, Receive(s) PROVE StrangerInv'
  <2>1. /\ mail[s] \in Seq(Frames) /\ mail[s] # <<>>
        /\ UNCHANGED <<saving, link, crossed, registered>> /\ disable \subseteq disable'
        /\ mail'[s] = Tail(mail[s])
        /\ \A u \in Sockets : u # s => mail'[u] = mail[u]
    BY <1>8 DEF Receive, TypeOK
  <2>2. ASSUME Told(mail[s]), Head(mail[s]) # "notHeartBeat" PROVE Told(mail'[s])
    <3>1. PICK i \in 1 .. Len(mail[s]) : mail[s][i] = "notHeartBeat"
      BY <2>2 DEF Told
    <3>2. i # 1 /\ Len(mail[s]) \in Nat
      BY <2>1, <2>2, <3>1
    <3>3. i - 1 \in 1 .. Len(Tail(mail[s])) /\ Tail(mail[s])[i - 1] = mail[s][i]
      BY <2>1, <3>2
    <3> QED
      BY <2>1, <3>1, <3>3 DEF Told
  <2>3. Head(mail[s]) = "notHeartBeat" => s[1] \in disable'
    BY <1>8 DEF Receive
  <2>4. \A t \in link' : Known(t) => Known(t)'
    BY <1>a, <2>1, <2>2, <2>3 DEF Known
  <2> QED
    BY <2>1, <2>4, StrangerKept
<1>9. ASSUME NEW s \in Sockets, HeartBeat(s) PROVE StrangerInv'
  <2>1. {"HeartBeat", "notHeartBeat"} \subseteq Frames
    BY DEF Frames
  <2> QED
    BY <1>1, <1>3, <1>9, <2>1 DEF HeartBeat
<1>10. CASE SendMsg
  <2>1. registered \in Sockets /\ "msg" \in Frames
    BY <1>10 DEF SendMsg, TypeOK, Frames
  <2> QED
    BY <1>3, <1>10, <2>1 DEF SendMsg
<1>11. CASE Look
  <2>1. registered \notin link /\ UNCHANGED <<saving, link, crossed, disable, mail>>
    BY <1>11 DEF Look, TypeOK
  <2> QED
    BY <2>1, StrangerKept DEF Known
<1>12. CASE UNCHANGED vars
  BY <1>1, <1>12 DEF vars
<1> QED
  BY <1>4, <1>5, <1>6, <1>7, <1>8, <1>9, <1>10, <1>11, <1>12, AcceptStranger, SaveStranger
  DEF Next

\* A reachable page that the server does not take for the current one was told so, or
\* is about to read it, unless its saveSession overlapped another.
THEOREM StrangerIsToldCorrect == Spec => []StrangerIsTold
<1>1. Init => StrangerInv
  BY DEF Init, StrangerInv, StrangerIsTold, EarlierKnow, OverlapsCross, ObsoleteCross, Saving
<1>2. StrangerInv => StrangerIsTold
  BY DEF StrangerInv
<1> QED
  BY <1>1, <1>2, StrangerStep, TypeCorrect, PTL DEF Spec

-----------------------------------------------------------------------------
\* Every step keeps OpenIsWatched.
LEMMA WatchStep == TypeInv /\ OpenIsWatched /\ [Next]_vars => OpenIsWatched'
<1> SUFFICES ASSUME TypeInv, OpenIsWatched, [Next]_vars, NEW p \in Pages, IsOpen(p)'
             PROVE  p \in beat' \/ p \in reply'
  BY DEF OpenIsWatched
<1> USE DEF socketVars, retryVars, uiVars, timerVars, mapVars, serverVars, pathVars, netVars, countVars
<1>a. TypeOK /\ Fresh
  BY DEF TypeInv
<1>b. IsOpen(p) => p \in beat \/ p \in reply
  BY DEF OpenIsWatched
<1>1. ASSUME UNCHANGED <<ws, ready, beat, reply>>
      PROVE  p \in beat' \/ p \in reply'
  BY <1>1, <1>b DEF IsOpen, Ws
<1>2. ASSUME NEW q \in Pages, Connect(q) \/ ReconnectTimer(q)
      PROVE  p \in beat' \/ p \in reply'
  <2>1. NewSocket(q) /\ UNCHANGED <<beat, reply>>
    BY <1>2 DEF Connect, ReconnectTimer
  <2>2. <<q, ws[q] + 1>> \in Sockets /\ ws[q] \in Nat
    BY <1>a, <2>1, NextSocket DEF NewSocket, TypeOK
  <2>3. p # q
    BY <1>a, <2>1, <2>2 DEF NewSocket, IsOpen, Ws, TypeOK
  <2>4. ws'[p] = ws[p] /\ ws[p] > 0
    BY <1>a, <2>1, <2>3 DEF NewSocket, IsOpen, TypeOK
  <2>5. Ws(p) \in Sockets /\ Ws(p) # <<q, ws[q] + 1>> /\ Ws(p)' = Ws(p)
    BY <1>a, <2>3, <2>4, WsSocket DEF Ws
  <2>6. ready'[Ws(p)] = ready[Ws(p)]
    BY <1>a, <2>1, <2>2, <2>5 DEF NewSocket, TypeOK
  <2>7. IsOpen(p)
    BY <2>4, <2>5, <2>6 DEF IsOpen
  <2> QED
    BY <1>b, <2>1, <2>7
<1>3. ASSUME NEW q \in Pages, Beat(q)
      PROVE  p \in beat' \/ p \in reply'
  <2>1. IsOpen(p)
    BY <1>3 DEF Beat, IsOpen, Ws
  <2>2. ~ Connecting(p)
    BY <2>1 DEF IsOpen, Connecting
  <2> QED
    BY <1>3, <1>b, <2>1, <2>2 DEF Beat
<1>4. ASSUME NEW s \in Sockets, DidClose(s), ws' = ws
      PROVE  IsOpen(p) /\ Ws(p) # s
  <2>1. Ws(p)' = Ws(p) /\ ws[p] > 0
    BY <1>4 DEF Ws, IsOpen
  <2>2. Ws(p) \in Sockets
    BY <1>a, <2>1, WsSocket
  <2>3. ready'[Ws(p)] = "open"
    BY <2>1 DEF IsOpen
  <2> QED
    BY <1>4, <1>a, <2>1, <2>2, <2>3 DEF DidClose, IsOpen, TypeOK
<1>5. ASSUME NEW q \in Pages, ReplyTimeout(q)
      PROVE  p \in beat' \/ p \in reply'
  <2>1. ws' = ws /\ beat' = beat /\ reply' = reply \ {q}
    BY <1>5 DEF ReplyTimeout
  <2>2. CASE Connecting(q) \/ IsOpen(q)
    <3>1. Ws(q) \in Sockets /\ DidClose(Ws(q))
      BY <1>5, <1>a, <2>2, WsSocket DEF Connecting, IsOpen, ReplyTimeout
    <3>2. IsOpen(p) /\ p # q
      BY <1>4, <2>1, <3>1
    <3> QED
      BY <1>b, <2>1, <3>2
  <2>3. CASE ~ (Connecting(q) \/ IsOpen(q))
    <3>1. IsOpen(p)
      BY <1>5, <2>1, <2>3 DEF ReplyTimeout, IsOpen, Ws
    <3> QED
      BY <1>b, <2>1, <2>3, <3>1
  <2> QED
    BY <2>2, <2>3
<1>6. ASSUME NEW s \in Sockets, SocketCloses(s) \/ ConnectFails(s)
      PROVE  p \in beat' \/ p \in reply'
  BY <1>4, <1>6, <1>b DEF SocketCloses, ConnectFails
<1>7. ASSUME NEW s \in Sockets, Receive(s)
      PROVE  p \in beat' \/ p \in reply'
  <2>1. s[1] \in Pages /\ beat' = beat \cup {s[1]} /\ reply' = reply \ {s[1]} /\ ws' = ws
    BY <1>7, SocketPair DEF Receive, Restart
  <2>2. CASE p = s[1]
    BY <2>1, <2>2
  <2>3. CASE p # s[1]
    <3>1. Ws(p)' = Ws(p) /\ Ws(p) # s
      BY <2>1, <2>3 DEF Ws
    <3>2. ready'[Ws(p)] = ready[Ws(p)]
      BY <1>7, <1>a, <3>1 DEF Receive, TypeOK
    <3>3. IsOpen(p)
      BY <2>1, <3>1, <3>2 DEF IsOpen
    <3> QED
      BY <1>b, <2>1, <2>3, <3>3
  <2> QED
    BY <2>2, <2>3
<1>8. ASSUME NEW s \in Sockets,
             \/ OnClose(s) \/ Accept(s) \/ AcceptThrows(s) \/ Save(s)
             \/ HeartBeat(s) \/ SessionCloses(s) \/ Break(s)
      PROVE  p \in beat' \/ p \in reply'
  BY <1>1, <1>8 DEF OnClose, Accept, AcceptThrows, Save, LookupMap, InstallMap, PutSession,
     HeartBeat, SessionCloses, Break
<1>9. CASE SendMsg \/ Look
  BY <1>1, <1>9 DEF SendMsg, Look
<1>10. CASE UNCHANGED vars
  BY <1>1, <1>10 DEF vars
<1> QED
  BY <1>2, <1>3, <1>5, <1>6, <1>7, <1>8, <1>9, <1>10 DEF Next

\* A page never stops watching an open socket: one of the two timers of heartCheck is
\* always set.
THEOREM OpenIsWatchedCorrect == Spec => []OpenIsWatched
<1>1. Init => OpenIsWatched
  BY DEF Init, OpenIsWatched, IsOpen
<1> QED
  BY <1>1, WatchStep, WayAlways, PTL DEF Spec

=============================================================================
