------------------------------ MODULE ChatPages ------------------------------
(***************************************************************************)
(* The chat pages an agent has open (chat-core.js): each page opens SockJS *)
(* sockets one after the other, keeps two heartbeat timers, and reconnects *)
(* when a socket closes.  The server's side is the PC session that it has  *)
(* registered, with the steps of saveSession as in CustomerWindows, the    *)
(* look of the close callbacks, and the text frames it sends.              *)
(*                                                                         *)
(* A page runs one handler at a time.  Between handlers, timers fire,      *)
(* frames arrive and the network breaks in any order.                      *)
(***************************************************************************)
EXTENDS Naturals, Sequences

CONSTANTS
  Pages,       \* the pages of the agent
  None,        \* null
  SlowServer,  \* may a timer of a page go off while saveSession is at work?
  MaxSockets,  \* MaxSockets[p]: bound on the sockets that p opens
  MaxBreaks,   \* bound on the network failures
  MaxMsgs      \* bound on the chat messages for the agent

ASSUME PagesAssumption ==
  /\ SlowServer \in BOOLEAN
  /\ MaxSockets \in [Pages -> Nat \ {0}]
  /\ MaxBreaks \in Nat /\ MaxMsgs \in Nat
  /\ None \notin UNION {{p} \X (1 .. MaxSockets[p]) : p \in Pages}

Sockets == UNION {{p} \X (1 .. MaxSockets[p]) : p \in Pages}
Frames  == {"open", "HeartBeat", "notHeartBeat", "msg"}

VARIABLES
  ws,         \* ws[p]: the number of p's global _ws; 0 before the page connects
  ready,      \* ready[s]: readyState of the socket in the page
  closing,    \* sockets whose close event is queued
  waiting,    \* waiting[p]: reconnection timers that are set
  lock,       \* pages whose lockReconnect is true
  banner,     \* pages that show #onlineStatus: "you are offline, please refresh"
  disable,    \* pages whose disable flag is true
  beat,       \* pages whose timeoutObj is set
  reply,      \* pages whose serverTimeoutObj is set
  ignored,    \* pages that dropped a chat message while #onlineStatus was hidden
  session,    \* session[s]: the server's session of the socket
  saving,     \* saving[s]: where saveSession is for s
  mapped,     \* does the outer map hold an inner map for the agent?
  registered, \* the session that this inner map holds for PC windows, or None
  crossed,    \* history: reachable sessions whose saveSession overlapped another's
  link,       \* sockets whose network path works
  ping,       \* sockets with a heartbeat on its way to the server
  mail,       \* mail[s]: frames on their way to the page
  breaks,     \* how often the network failed
  msgs        \* how many chat messages were sent

socketVars == <<ws, ready, closing>>
retryVars  == <<waiting, lock>>
uiVars     == <<banner, disable, ignored>>
timerVars  == <<beat, reply>>
mapVars    == <<mapped, registered>>
serverVars == <<session, saving, mapVars>>
pathVars   == <<link, crossed>>
netVars    == <<pathVars, ping, mail>>
countVars  == <<breaks, msgs>>
vars == <<socketVars, retryVars, uiVars, timerVars, serverVars, netVars, countVars>>

\* Types; and a path joins a session the server has open to a socket its page has not
\* closed, frames and heartbeats travel on a path, and only closed sockets close.
TypeOK ==
  /\ ws \in [Pages -> Nat] /\ \A p \in Pages : ws[p] <= MaxSockets[p]
  /\ ready \in [Sockets -> {"none", "connecting", "open", "closed"}]
  /\ closing \subseteq {s \in Sockets : ready[s] = "closed"}
  /\ waiting \in [Pages -> Nat]
  /\ lock \subseteq Pages /\ banner \subseteq Pages /\ disable \subseteq Pages
  /\ beat \subseteq Pages /\ reply \subseteq Pages /\ ignored \subseteq Pages
  /\ session \in [Sockets -> {"none", "open", "closed"}]
  /\ saving \in [Sockets -> {"no", "get", "install", "put", "obsolete"}]
  /\ mapped \in BOOLEAN
  /\ registered \in Sockets \cup {None}
  /\ crossed \subseteq link
  /\ link \subseteq {s \in Sockets : session[s] = "open" /\ ready[s] \in {"connecting", "open"}}
  /\ ping \subseteq link
  /\ mail \in [Sockets -> Seq(Frames)]
  /\ \A s \in Sockets : mail[s] # <<>> => s \in link
  /\ breaks \in 0 .. MaxBreaks
  /\ msgs \in 0 .. MaxMsgs

Init ==
  /\ ws = [p \in Pages |-> 0]
  /\ ready = [s \in Sockets |-> "none"]
  /\ closing = {}
  /\ waiting = [p \in Pages |-> 0]
  /\ lock = {} /\ banner = Pages /\ disable = {} /\ ignored = {}
  /\ beat = {} /\ reply = {}
  /\ session = [s \in Sockets |-> "none"]
  /\ saving = [s \in Sockets |-> "no"]
  /\ mapped = FALSE /\ registered = None /\ crossed = {}
  /\ link = {} /\ ping = {}
  /\ mail = [s \in Sockets |-> <<>>]
  /\ breaks = 0 /\ msgs = 0

\* The page's global _ws, once the page has connected
Ws(p) == <<p, ws[p]>>

Connecting(p) == ws[p] > 0 /\ ready[Ws(p)] = "connecting"
IsOpen(p)     == ws[p] > 0 /\ ready[Ws(p)] = "open"

\* Sessions that are in saveSession
Saving == {s \in Sockets : saving[s] # "no"}

-----------------------------------------------------------------------------
(* The page.  Its timers take two and sixty seconds; saveSession makes a few accesses to *)
(* maps. *)

TimersRun == SlowServer \/ Saving = {}

\* new SockJS(...) and initEventHandle.  Bound: MaxSockets.
NewSocket(p) ==
  /\ ws[p] < MaxSockets[p]
  /\ ws' = [ws EXCEPT ![p] = @ + 1]
  /\ ready' = [ready EXCEPT ![<<p, ws[p] + 1>>] = "connecting"]

\* The page is loaded.
Connect(p) ==
  /\ ws[p] = 0
  /\ NewSocket(p)
  /\ UNCHANGED <<closing, retryVars, uiVars, timerVars, serverVars, netVars, countVars>>

\* The path of s is gone, and what was on its way.
CutLink(s) ==
  /\ link' = link \ {s}
  /\ ping' = ping \ {s}
  /\ mail' = [mail EXCEPT ![s] = <<>>]
  /\ crossed' = crossed \ {s}

\* _didClose: the socket is closed now, its close event is dispatched later.
DidClose(s) ==
  /\ ready' = [ready EXCEPT ![s] = "closed"]
  /\ closing' = closing \cup {s}
  /\ CutLink(s)

\* reconnect.  Mutated form: the banner is not shown.
ReconnectSilently(p) ==
  /\ UNCHANGED banner
  /\ lock' = lock \cup {p}
  /\ waiting' = IF p \in lock THEN waiting ELSE [waiting EXCEPT ![p] = @ + 1]
Reconnect(p) ==
  /\ banner' = banner \cup {p}
  /\ lock' = lock \cup {p}
  /\ waiting' = IF p \in lock THEN waiting ELSE [waiting EXCEPT ![p] = @ + 1]

\* onclose.  Mutated form: a page that was told "notHeartBeat" does not reconnect.
OnCloseWhenEnabled(s) ==
  /\ s \in closing
  /\ closing' = closing \ {s}
  /\ IF s[1] \in disable THEN UNCHANGED <<retryVars, banner>> ELSE Reconnect(s[1])
  /\ UNCHANGED <<ws, ready, disable, ignored, timerVars, serverVars, netVars, countVars>>
OnClose(s) ==
  /\ s \in closing
  /\ closing' = closing \ {s}
  /\ Reconnect(s[1])
  /\ UNCHANGED <<ws, ready, disable, ignored, timerVars, serverVars, netVars, countVars>>

\* The two seconds are over.
ReconnectTimer(p) ==
  /\ waiting[p] > 0 /\ TimersRun
  /\ NewSocket(p)
  /\ waiting' = [waiting EXCEPT ![p] = @ - 1]
  /\ lock' = lock \ {p}
  /\ UNCHANGED <<closing, uiVars, timerVars, serverVars, netVars, countVars>>

\* heartCheck.reset().start()
Restart(p) == beat' = beat \cup {p} /\ reply' = reply \ {p}

\* onopen and onmessage.  Mutated forms: any later frame hides the banner; a page that
\* is told "notHeartBeat" only shows the banner.
ReceiveShowsOnline(s) ==
  LET p == s[1]  frame == Head(mail[s]) IN
  /\ mail[s] # <<>>
  /\ mail' = [mail EXCEPT ![s] = Tail(@)]
  /\ Restart(p)
  /\ ready' = IF frame = "open" THEN [ready EXCEPT ![s] = "open"] ELSE ready
  /\ disable' = IF frame = "notHeartBeat" THEN disable \cup {p} ELSE disable
  /\ banner' = IF frame = "notHeartBeat" /\ p \notin disable
                 THEN banner \cup {p} ELSE banner \ {p}
  /\ UNCHANGED <<ws, closing, retryVars, ignored, serverVars, pathVars, ping, countVars>>
ReceiveKeepsOn(s) ==
  LET p == s[1]  frame == Head(mail[s]) IN
  /\ mail[s] # <<>>
  /\ mail' = [mail EXCEPT ![s] = Tail(@)]
  /\ Restart(p)
  /\ ready' = IF frame = "open" THEN [ready EXCEPT ![s] = "open"] ELSE ready
  /\ banner' = CASE frame = "open" -> banner \ {p}
                 [] frame = "notHeartBeat" -> banner \cup {p}
                 [] OTHER -> banner
  /\ UNCHANGED <<ws, closing, retryVars, disable, ignored, serverVars, pathVars, ping, countVars>>
Receive(s) ==
  LET p == s[1]  frame == Head(mail[s]) IN
  /\ mail[s] # <<>>
  /\ mail' = [mail EXCEPT ![s] = Tail(@)]
  /\ Restart(p)
  /\ ready' = IF frame = "open" THEN [ready EXCEPT ![s] = "open"] ELSE ready
  /\ disable' = IF frame = "notHeartBeat" THEN disable \cup {p} ELSE disable
  /\ banner' = CASE frame = "open" -> banner \ {p}
                 [] frame = "notHeartBeat" /\ p \notin disable -> banner \cup {p}
                 [] OTHER -> banner
  /\ ignored' = IF frame = "msg" /\ p \in disable \ banner
                  THEN ignored \cup {p} ELSE ignored
  /\ UNCHANGED <<ws, closing, retryVars, serverVars, pathVars, ping, countVars>>

\* timeoutObj: send throws while _ws is connecting, and drops the frame when it is
\* closed.  Mutated form: serverTimeoutObj is not set.
BeatUnwatched(p) ==
  /\ p \in beat /\ TimersRun
  /\ beat' = beat \ {p}
  /\ ping' = IF IsOpen(p) /\ Ws(p) \in link THEN ping \cup {Ws(p)} ELSE ping
  /\ UNCHANGED <<socketVars, retryVars, uiVars, reply, serverVars, pathVars, mail, countVars>>
Beat(p) ==
  /\ p \in beat /\ TimersRun
  /\ beat' = beat \ {p}
  /\ reply' = IF Connecting(p) THEN reply ELSE reply \cup {p}
  /\ ping' = IF IsOpen(p) /\ Ws(p) \in link THEN ping \cup {Ws(p)} ELSE ping
  /\ UNCHANGED <<socketVars, retryVars, uiVars, serverVars, pathVars, mail, countVars>>

\* serverTimeoutObj: _ws.close(), whatever _ws is by now.  A heartbeat that reached
\* a working server is answered within the sixty seconds.  Mutated form: the page
\* reconnects at once instead of closing.
ReplyReconnects(p) ==
  /\ p \in reply /\ TimersRun
  /\ ~ (Ws(p) \in link /\ (Ws(p) \in ping \/ mail[Ws(p)] # <<>>))
  /\ reply' = reply \ {p}
  /\ Reconnect(p)
  /\ UNCHANGED <<socketVars, disable, ignored, beat, serverVars, netVars, countVars>>
ReplyTimeout(p) ==
  /\ p \in reply /\ TimersRun
  /\ ~ (Ws(p) \in link /\ (Ws(p) \in ping \/ mail[Ws(p)] # <<>>))
  /\ reply' = reply \ {p}
  /\ IF Connecting(p) \/ IsOpen(p)
       THEN DidClose(Ws(p)) ELSE UNCHANGED <<ready, closing, netVars>>
  /\ UNCHANGED <<ws, retryVars, uiVars, beat, serverVars, countVars>>

-----------------------------------------------------------------------------
(* The server. *)

\* A session that is sent a frame gets it if its path works.
Deliver(s, frame, to) == [to EXCEPT ![s] = IF s \in link THEN Append(@, frame) ELSE @]

GoSave(s, from, to) == saving[s] = from /\ saving' = [saving EXCEPT ![s] = to]

\* The server accepts the connection; the page will read the open frame, unless it has
\* given the socket up.  saveSession looks the registered session up and tells it.
\* Mutated form: a socket that was given up is taken for a working one.
AcceptGivenUp(s) ==
  /\ ready[s] # "none" /\ session[s] = "none"
  /\ session' = [session EXCEPT ![s] = "open"]
  /\ GoSave(s, "no", "get")
  /\ link' = link \cup {s}
  /\ mail' = [mail EXCEPT ![s] = <<"open">>]
  /\ UNCHANGED <<socketVars, retryVars, uiVars, timerVars, mapVars, crossed, ping, countVars>>
Accept(s) ==
  /\ ready[s] # "none" /\ session[s] = "none"
  /\ session' = [session EXCEPT ![s] = "open"]
  /\ GoSave(s, "no", "get")
  /\ LET told == IF registered = None THEN mail
                 ELSE Deliver(registered, "notHeartBeat", mail) IN
     IF ready[s] = "connecting"
       THEN link' = link \cup {s} /\ mail' = [told EXCEPT ![s] = <<"open">>]
       ELSE mail' = told /\ UNCHANGED link
  /\ crossed' = IF Saving = {} THEN crossed ELSE crossed \cup ((Saving \cup {s}) \cap link')
  /\ UNCHANGED <<socketVars, retryVars, uiVars, timerVars, mapVars, ping, countVars>>

\* The registered session closes between the test of isOpen and the sendMessage, which
\* throws: saveSession ends there, and Spring closes the session whose callback threw.
AcceptThrows(s) ==
  /\ ready[s] # "none" /\ session[s] = "none"
  /\ registered # None /\ session[registered] = "open" /\ registered \notin link
  /\ session' = [session EXCEPT ![s] = "closed", ![registered] = "closed"]
  /\ UNCHANGED <<socketVars, retryVars, uiVars, timerVars, saving, mapVars, netVars, countVars>>

\* WEB_SOCKET_SESSION_MAP.get(jid)
LookupMap(s) ==
  /\ GoSave(s, "get", IF mapped THEN "put" ELSE "install")
  /\ UNCHANGED <<socketVars, retryVars, uiVars, timerVars, session, mapVars, netVars, countVars>>

\* WEB_SOCKET_SESSION_MAP.put(jid, new HashMap): the sessions about to be put into
\* another inner map will be put into one that nobody reads.
InstallMap(s) ==
  /\ saving[s] = "install"
  /\ saving' = [t \in Sockets |-> IF t = s THEN "put"
                                  ELSE IF saving[t] = "put" THEN "obsolete" ELSE saving[t]]
  /\ mapped' = TRUE
  /\ registered' = None
  /\ UNCHANGED <<socketVars, retryVars, uiVars, timerVars, session, netVars, countVars>>

\* map.put(type, session); of two puts into the empty map, one may be lost.
PutSession(s) ==
  /\ \/ GoSave(s, "put", "no") /\ registered' = s
     \/ /\ GoSave(s, "put", "no") /\ UNCHANGED registered
        /\ registered = None /\ \E t \in Sockets \ {s} : saving[t] = "put"
     \/ GoSave(s, "obsolete", "no") /\ UNCHANGED registered
  /\ UNCHANGED <<socketVars, retryVars, uiVars, timerVars, session, mapped, netVars, countVars>>

\* heartBeat, of a session that is past saveSession; with no session registered it
\* fails without an answer.
HeartBeat(s) ==
  /\ s \in ping /\ saving[s] = "no"
  /\ ping' = ping \ {s}
  /\ mail' = IF registered = None THEN mail
             ELSE Deliver(s, IF registered = s THEN "HeartBeat" ELSE "notHeartBeat", mail)
  /\ UNCHANGED <<socketVars, retryVars, uiVars, timerVars, serverVars, pathVars, countVars>>

\* send: a chat message goes to the registered session.  Bound: MaxMsgs.
SendMsg ==
  /\ msgs < MaxMsgs /\ registered # None /\ session[registered] = "open"
  /\ msgs' = msgs + 1
  /\ mail' = Deliver(registered, "msg", mail)
  /\ UNCHANGED <<socketVars, retryVars, uiVars, timerVars, serverVars, pathVars, ping, breaks>>

\* The server notices that a session is gone;
SessionCloses(s) ==
  /\ session[s] = "open" /\ s \notin link
  /\ session' = [session EXCEPT ![s] = "closed"]
  /\ UNCHANGED <<socketVars, retryVars, uiVars, timerVars, saving, mapVars, netVars, countVars>>

\* a second later a close callback looks for an open session, and drops the registered
\* one if it is closed.  Mutated form: it drops it, open or not.
LookDropsOpen ==
  /\ registered # None /\ \E s \in Sockets : session[s] = "closed"
  /\ registered' = None
  /\ UNCHANGED <<socketVars, retryVars, uiVars, timerVars, session, saving, mapped, netVars,
                 countVars>>
Look ==
  /\ registered # None /\ session[registered] = "closed"
  /\ registered' = None
  /\ UNCHANGED <<socketVars, retryVars, uiVars, timerVars, session, saving, mapped, netVars,
                 countVars>>

-----------------------------------------------------------------------------
(* The network.  Bound: MaxBreaks. *)

\* It breaks a path silently ...
Break(s) ==
  /\ s \in link /\ breaks < MaxBreaks
  /\ breaks' = breaks + 1
  /\ CutLink(s)
  /\ UNCHANGED <<socketVars, retryVars, uiVars, timerVars, serverVars, msgs>>

\* ... or the page may notice,
SocketCloses(s) ==
  /\ ready[s] = "open" /\ s \notin link
  /\ DidClose(s)
  /\ UNCHANGED <<ws, retryVars, uiVars, timerVars, serverVars, countVars>>

\* or the connection is never made, or lost before it opened: SockJS gives up.
ConnectFails(s) ==
  /\ ready[s] = "connecting" /\ s \notin link
  /\ IF session[s] = "none" THEN breaks < MaxBreaks /\ breaks' = breaks + 1
                            ELSE UNCHANGED breaks
  /\ DidClose(s)
  /\ UNCHANGED <<ws, retryVars, uiVars, timerVars, serverVars, msgs>>

-----------------------------------------------------------------------------
Save(s) == LookupMap(s) \/ InstallMap(s) \/ PutSession(s)

Next ==
  \/ \E p \in Pages : Connect(p) \/ ReconnectTimer(p) \/ Beat(p) \/ ReplyTimeout(p)
  \/ \E s \in Sockets : \/ OnClose(s) \/ Receive(s) \/ Accept(s) \/ AcceptThrows(s) \/ Save(s)
                        \/ HeartBeat(s) \/ SessionCloses(s)
                        \/ Break(s) \/ SocketCloses(s) \/ ConnectFails(s)
  \/ Look \/ SendMsg

\* The page's timers and handlers run, frames arrive, and the server answers.
Fairness ==
  /\ \A p \in Pages : WF_vars(ReconnectTimer(p)) /\ WF_vars(Beat(p)) /\ WF_vars(ReplyTimeout(p))
  /\ \A s \in Sockets : /\ WF_vars(OnClose(s)) /\ WF_vars(Receive(s))
                        /\ WF_vars(Accept(s)) /\ WF_vars(ConnectFails(s))
                        /\ WF_vars(Save(s)) /\ WF_vars(HeartBeat(s))

Spec     == Init /\ [][Next]_vars
FairSpec == Spec /\ Fairness

-----------------------------------------------------------------------------
(* Properties. *)

\* Sockets of p that are not closed, or whose close event is still to come
Pending(p) == {s \in Sockets : s[1] = p /\ (ready[s] \in {"connecting", "open"} \/ s \in closing)}

\* A page never has two connections, and never ends up without one and without a
\* way back: it has one socket that is not closed, or a queued close event, or one
\* reconnection timer, and never two of them (lockReconnect, "avoid connecting twice").
OneWayBack ==
  \A p \in Pages : ws[p] > 0 =>
    /\ \A s, t \in Pending(p) : s = t
    /\ waiting[p] = IF Pending(p) = {} THEN 1 ELSE 0

\* The page hides "you are offline" only while its socket is open, up to the close
\* event that is about to show it again.
BannerHonest == \A p \in Pages \ banner : IsOpen(p) \/ Ws(p) \in closing

\* The text of #onlineStatus asks an agent whose page is not current to refresh it: a
\* page must not drop a chat message while it hides that text.  It does: a page that
\* was told "notHeartBeat" and reconnects is registered again, hides the text, and
\* goes on dropping what it is sent.
IgnoringPageShowsBanner == ignored = {}

\* A page that can be reached, and whose socket is not the registered one, was told so
\* or will read it, whichever sockets come, break and close: once its saveSession has
\* run undisturbed, a session loses its place only to one that tells it first.  When two
\* saveSessions overlap, neither may know of the other: then the loser is told by its
\* heartbeat only (OneActiveLeft).
StrangerIsTold ==
  \A s \in link : saving[s] = "no" /\ s \notin crossed =>
    \/ s = registered
    \/ s[1] \in disable
    \/ \E i \in 1 .. Len(mail[s]) : mail[s][i] = "notHeartBeat"

\* As long as its socket is open, a page has one of the two timers of heartCheck
\* running, whichever timers of earlier sockets fired or were cleared meanwhile.
OpenIsWatched == \A p \in Pages : IsOpen(p) => p \in beat \cup reply

\* The heartbeat finds out a path that broke silently, whatever timers were left
\* over from earlier sockets.
DeadLinkNoticed ==
  \A p \in Pages : (IsOpen(p) /\ Ws(p) \notin link) ~> ~ (IsOpen(p) /\ Ws(p) \notin link)

\* A page that lost its socket opens another one (up to the bound on sockets).
PageComesBack ==
  \A p \in Pages : (ws[p] > 0 /\ ~ IsOpen(p)) ~> (IsOpen(p) \/ ws[p] = MaxSockets[p])

Active(p) == IsOpen(p) /\ p \notin disable

\* Two pages of an agent do not both stay active: one is told that it is not the
\* current one, when the other connects or by the answer to its heartbeat.
OneActiveLeft ==
  \A p, q \in Pages : p # q => ((Active(p) /\ Active(q)) ~> ~ (Active(p) /\ Active(q)))

\* How far each page is with its connection
Phases ==
  [p \in Pages |-> IF ws[p] = 0 THEN "loaded"
                   ELSE IF Connecting(p) THEN "trying"
                   ELSE IF IsOpen(p) THEN "open"
                   ELSE IF Ws(p) \in closing THEN "lost" ELSE "waiting"]

\* Through all its sockets, frames, timers and flags, a page goes round PageLink: it
\* never tries twice, never skips the close event, and hides the banner at no other
\* moment than when the socket that it is trying opens.
Link == INSTANCE PageLink WITH phase <- Phases, warned <- banner
GoesRound == Link!Spec

=============================================================================
