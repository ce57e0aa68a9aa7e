--------------------------- MODULE CustomerWindows ---------------------------
(***************************************************************************)
(* One customer-service agent ("customer" in the source): the browser      *)
(* windows of the agent, the SockJS sessions they open, the registry       *)
(* WEB_SOCKET_SESSION_MAP of WebSocketService, and the XMPP connection     *)
(* kept for the agent in XMPP_MAP of XmppServiceImpl.                      *)
(*                                                                         *)
(* Every callback runs on a thread of its own, and the steps below are the *)
(* points where two of them can interleave: afterConnectionEstablished     *)
(* (est), afterConnectionClosed (cls), the logout request of the web page  *)
(* (api), and Smack's reconnection thread.  A session is identified with   *)
(* the one XMPP connection and the one inner HashMap its established       *)
(* callback may create.                                                    *)
(***************************************************************************)
EXTENDS Naturals, FiniteSets

CONSTANTS
  PcWindows,      \* sessions opened on /sockjs/customer/chat
  MobileWindows,  \* sessions opened on /sockjs/mobileCustomer/chat
  None,           \* null
  SlowLogin,      \* may a login outlive the one-second sleep of a close callback?
  Events          \* which of "drop" (the network breaks a connection), "failure"
                  \* (a login fails) and "logout" (a logout request) may happen

Windows == PcWindows \cup MobileWindows
Types   == {"pc", "mobile"}

ASSUME ConstantsAssumption ==
  /\ PcWindows \cap MobileWindows = {}
  /\ None \notin Windows
  /\ SlowLogin \in BOOLEAN
  /\ Events \subseteq {"drop", "failure", "logout"}

TypeOf(w) == IF w \in MobileWindows THEN "mobile" ELSE "pc"

VARIABLES
  est,       \* est[w]: where the established callback of w is
  old,       \* old[w]: the session that saveSession of w is about to tell, or None
  cls,       \* cls[w]: where the closed callback of w is; "none" until w closes
  api,       \* where the customerLogout request is
  registry,  \* the inner map the outer map holds for the agent: the window that made it, or None
  inner,     \* inner[m][type]: the session stored in the inner map made by m
  mapRef,    \* mapRef[w]: the inner map w's established callback is about to write
  xmpp,      \* XMPP_MAP[id]: the window whose connection is stored, or None
  conn,      \* conn[w]: the connection w's established callback made
  broken,    \* connections that the network broke at least once
  told       \* open sessions to which "notHeartBeat" was sent; ChatPages has the rest

registryVars == <<registry, inner, mapRef>>
xmppVars     == <<xmpp, conn, broken>>
vars == <<est, old, cls, api, registryVars, xmppVars, told>>

EstStates  == {"none", "tell", "lookup", "install", "put", "failed", "check", "connect",
               "auth", "online", "disconnect", "remove", "done"}
ClsStates  == {"none", "sleep", "disconnect", "remove", "done"}
ApiStates  == {"idle", "disconnect", "remove", "done"}
ConnStates == {"unused", "connected", "authed", "dropped", "reconnected", "closed"}

\* Types; and a callback is about to tell a session, or to write to an inner map, exactly
\* when it holds a reference to one (the null checks of saveSession).
TypeOK ==
  /\ est \in [Windows -> EstStates]
  /\ old \in [Windows -> Windows \cup {None}]
  /\ \A w \in Windows : est[w] = "tell" <=> old[w] # None
  /\ cls \in [Windows -> ClsStates]
  /\ api \in ApiStates
  /\ registry \in Windows \cup {None}
  /\ inner \in [Windows -> [Types -> Windows \cup {None}]]
  /\ mapRef \in [Windows -> Windows \cup {None}]
  /\ \A w \in Windows : est[w] = "put" <=> mapRef[w] # None
  /\ xmpp \in Windows \cup {None}
  /\ conn \in [Windows -> ConnStates]
  /\ broken \subseteq Windows
  /\ told \subseteq Windows

Init ==
  /\ est = [w \in Windows |-> "none"]
  /\ old = [w \in Windows |-> None]
  /\ cls = [w \in Windows |-> "none"]
  /\ api = "idle"
  /\ registry = None
  /\ inner = [m \in Windows |-> [t \in Types |-> None]]
  /\ mapRef = [w \in Windows |-> None]
  /\ xmpp = None
  /\ conn = [w \in Windows |-> "unused"]
  /\ broken = {}
  /\ told = {}

-----------------------------------------------------------------------------
(* Reading the shared state. *)

\* WebSocketSession.isOpen()
Open(w) == est[w] # "none" /\ cls[w] = "none"

\* getWebSocketSession(jid, type)
Registered(t) == IF registry = None THEN None ELSE inner[registry][t]

OpenRegistered(t) == {w \in Windows : Open(w) /\ Registered(t) = w}

\* isConnected(jid).  Mutated form: any registered session counts, open or not.
ConnectedUnchecked == \E t \in Types : Registered(t) # None
Connected          == \E t \in Types : OpenRegistered(t) # {}

\* XMPPConnection.isConnected(), and isAuthenticated(jid) of XmppServiceImpl
IsConnected(c)  == conn[c] \in {"connected", "authed", "reconnected"}
IsAuthenticated == xmpp # None /\ conn[xmpp] = "authed"

\* The established callback of w goes on; only saveSession's first steps change old.
GoEst(w, from, to) == est[w] = from /\ est' = [est EXCEPT ![w] = to] /\ UNCHANGED old

-----------------------------------------------------------------------------
(* afterConnectionEstablished: save the session, log in, go online. *)

\* The callback starts.  A mobile handler first tells the NEW session when another
\* mobile session is open; saveSession looks for an open session of the pc type.
Establish(w) ==
  /\ est[w] = "none"
  /\ IF OpenRegistered("pc") = {}
       THEN est' = [est EXCEPT ![w] = "lookup"] /\ UNCHANGED old
       ELSE est' = [est EXCEPT ![w] = "tell"] /\ old' = [old EXCEPT ![w] = Registered("pc")]
  /\ told' = told \cup {v \in {w} : TypeOf(w) = "mobile" /\ OpenRegistered("mobile") # {}}
  /\ UNCHANGED <<cls, api, registryVars, xmppVars>>

GoTell(w, to) ==
  /\ est[w] = "tell" /\ est' = [est EXCEPT ![w] = to]
  /\ old' = [old EXCEPT ![w] = None]

\* It is told that it is no longer current ...
Tell(w) ==
  /\ GoTell(w, "lookup")
  /\ Open(old[w]) /\ told' = told \cup {old[w]}
  /\ UNCHANGED <<cls, api, registryVars, xmppVars>>

\* ... or has closed since, and sendMessage throws.  saveSession catches an IOException
\* only: an IllegalStateException ends the callback,
TellThrows(w) ==
  /\ \E to \in {"lookup", "failed"} : GoTell(w, to)
  /\ ~ Open(old[w])
  /\ UNCHANGED <<cls, api, registryVars, xmppVars, told>>

\* and Spring closes the session.
CloseWithError(w) ==
  /\ GoEst(w, "failed", "done")
  /\ cls' = IF Open(w) THEN [cls EXCEPT ![w] = "sleep"] ELSE cls
  /\ told' = told \ {w}
  /\ UNCHANGED <<api, registryVars, xmppVars>>

\* WEB_SOCKET_SESSION_MAP.get(jid).  Mutated form: the null check is dropped.
LookupMapUnchecked(w) ==
  /\ GoEst(w, "lookup", "put")
  /\ mapRef' = [mapRef EXCEPT ![w] = registry]
  /\ UNCHANGED <<cls, api, registry, inner, xmppVars, told>>

LookupMap(w) ==
  /\ GoEst(w, "lookup", IF registry = None THEN "install" ELSE "put")
  /\ mapRef' = [mapRef EXCEPT ![w] = registry]
  /\ UNCHANGED <<cls, api, registry, inner, xmppVars, told>>

\* WEB_SOCKET_SESSION_MAP.put(jid, new HashMap): it replaces a map that another
\* callback installed since the lookup.
InstallMap(w) ==
  /\ GoEst(w, "install", "put")
  /\ registry' = w
  /\ mapRef' = [mapRef EXCEPT ![w] = w]
  /\ UNCHANGED <<cls, api, inner, xmppVars, told>>

\* map.put(type, session).  Mutated form: putIfAbsent.
PutSessionIfAbsent(w) ==
  /\ GoEst(w, "put", "check")
  /\ inner' = [inner EXCEPT ![mapRef[w]][TypeOf(w)] = IF @ = None THEN w ELSE @]
  /\ mapRef' = [mapRef EXCEPT ![w] = None]
  /\ UNCHANGED <<cls, api, registry, xmppVars, told>>

PutSession(w) ==
  /\ GoEst(w, "put", "check")
  /\ inner' = [inner EXCEPT ![mapRef[w]][TypeOf(w)] = w]
  /\ mapRef' = [mapRef EXCEPT ![w] = None]
  /\ UNCHANGED <<cls, api, registry, xmppVars, told>>

\* The inner map is a plain HashMap: of two sessions put into it while it is
\* empty, one may be lost when both threads allocate its table.
PutSessionLost(w) ==
  /\ GoEst(w, "put", "check")
  /\ \A t \in Types : inner[mapRef[w]][t] = None
  /\ \E v \in Windows \ {w} : est[v] = "put" /\ mapRef[v] = mapRef[w]
  /\ mapRef' = [mapRef EXCEPT ![w] = None]
  /\ UNCHANGED <<cls, api, registry, inner, xmppVars, told>>

\* login: nothing to do when the stored connection is authenticated
LoginCheck(w) ==
  /\ GoEst(w, "check", IF IsAuthenticated THEN "online" ELSE "connect")
  /\ UNCHANGED <<cls, api, registryVars, xmppVars, told>>

\* connect() runs the connected listener, which stores the connection
Connect(w) ==
  /\ GoEst(w, "connect", "auth")
  /\ conn' = [conn EXCEPT ![w] = "connected"]
  /\ xmpp' = w
  /\ UNCHANGED <<cls, api, registryVars, broken, told>>

\* login(name, password) runs the authenticated listener, which stores it again
\* under getRealFrom(), the agent's own jid
Authenticate(w) ==
  /\ conn[w] = "connected"
  /\ GoEst(w, "auth", "online")
  /\ conn' = [conn EXCEPT ![w] = "authed"]
  /\ xmpp' = w
  /\ UNCHANGED <<cls, api, registryVars, broken, told>>

\* connect, createAccount or login throws: the callback turns to logout
LoginFails(w) ==
  /\ "failure" \in Events \/ (est[w] = "auth" /\ conn[w] # "connected")
  /\ est[w] \in {"connect", "auth"}
  /\ GoEst(w, est[w], "disconnect")
  /\ UNCHANGED <<cls, api, registryVars, xmppVars, told>>

\* online: pushOfflineMsg throws when the stored connection is not authenticated
Online(w) ==
  /\ IsAuthenticated
  /\ GoEst(w, "online", "done")
  /\ UNCHANGED <<cls, api, registryVars, xmppVars, told>>

OnlineFails(w) ==
  /\ ~ IsAuthenticated
  /\ GoEst(w, "online", "disconnect")
  /\ UNCHANGED <<cls, api, registryVars, xmppVars, told>>

-----------------------------------------------------------------------------
(* XmppServiceImpl.closed(jid), the body of every logout: take the stored   *)
(* connection, disconnect it if it is connected, then remove the KEY.       *)

DisconnectStored ==
  conn' = IF xmpp # None /\ IsConnected(xmpp)
            THEN [conn EXCEPT ![xmpp] = "closed"] ELSE conn

\* Mutated form: the key stays.
KeepKey   == UNCHANGED xmpp
RemoveKey == xmpp' = None

\* A login that failed logs out.  With no connection stored, nothing is removed.
EstDisconnect(w) ==
  /\ GoEst(w, "disconnect", IF xmpp = None THEN "done" ELSE "remove")
  /\ DisconnectStored
  /\ UNCHANGED <<cls, api, registryVars, xmpp, broken, told>>

EstRemove(w) ==
  /\ GoEst(w, "remove", "done")
  /\ RemoveKey
  /\ UNCHANGED <<cls, api, registryVars, conn, broken, told>>

\* The customerLogout request; the windows stay open.  Bound: one request.
ApiLogout ==
  /\ "logout" \in Events /\ api = "idle"
  /\ DisconnectStored
  /\ api' = IF xmpp = None THEN "done" ELSE "remove"
  /\ UNCHANGED <<est, old, cls, registryVars, xmpp, broken, told>>

ApiRemove ==
  /\ api = "remove"
  /\ RemoveKey
  /\ api' = "done"
  /\ UNCHANGED <<est, old, cls, registryVars, conn, broken, told>>

-----------------------------------------------------------------------------
(* A session closes; afterConnectionClosed sleeps, looks, and logs out.     *)

\* The session of w closes: the tab is closed or refreshed, or the network fails.
Close(w) ==
  /\ Open(w)
  /\ cls' = [cls EXCEPT ![w] = "sleep"]
  /\ told' = told \ {w}
  /\ UNCHANGED <<est, old, api, registryVars, xmppVars>>

\* A login faster than the sleep has ended when the sleep does.  Mutated form: the
\* callback does not sleep.
NoSleep(w)     == TRUE
SleptEnough(w) == SlowLogin \/ est[w] = "done"

\* isConnected(jid) drops closed sessions from the registered map as it meets
\* them, up to the first open one; a HashMap's order is left open.  Mutated form:
\* it clears the map.
DropAllRegistered(closed) ==
  inner' = IF registry = None THEN inner ELSE [inner EXCEPT ![registry] = [t \in Types |-> None]]

DropFromRegistered(closed) ==
  inner' = IF registry = None THEN inner
           ELSE [inner EXCEPT ![registry] =
                   [t \in Types |-> IF @[t] \in closed THEN None ELSE @[t]]]

\* "fresh ignore closed": an open session was found
IgnoreClosed(w) ==
  /\ cls[w] = "sleep" /\ SleptEnough(w)
  /\ Connected
  /\ \E met \in SUBSET {v \in Windows : ~ Open(v)} : DropFromRegistered(met)
  /\ cls' = [cls EXCEPT ![w] = "done"]
  /\ UNCHANGED <<est, old, api, registry, mapRef, xmppVars, told>>

\* no open session: isCloseded answers true, and the callback will log out
DecideLogout(w) ==
  /\ cls[w] = "sleep" /\ SleptEnough(w)
  /\ ~ Connected
  /\ DropFromRegistered({v \in Windows : ~ Open(v)})
  /\ cls' = [cls EXCEPT ![w] = "disconnect"]
  /\ UNCHANGED <<est, old, api, registry, mapRef, xmppVars, told>>

\* A session put into the map under the iteration: it may throw
\* ConcurrentModificationException, and the callback ends without a logout.
CloseThrows(w) ==
  /\ cls[w] = "sleep" /\ SleptEnough(w)
  /\ \E t \in Types : Registered(t) # None
  /\ \E v \in Windows : /\ est[v] = "put" /\ mapRef[v] = registry
                        /\ Registered(TypeOf(v)) = None
  /\ \E met \in SUBSET {v \in Windows : ~ Open(v)} : DropFromRegistered(met)
  /\ cls' = [cls EXCEPT ![w] = "done"]
  /\ UNCHANGED <<est, old, api, registry, mapRef, xmppVars, told>>

ClsDisconnect(w) ==
  /\ cls[w] = "disconnect"
  /\ DisconnectStored
  /\ cls' = [cls EXCEPT ![w] = IF xmpp = None THEN "done" ELSE "remove"]
  /\ UNCHANGED <<est, old, api, registryVars, xmpp, broken, told>>

ClsRemove(w) ==
  /\ cls[w] = "remove"
  /\ RemoveKey
  /\ cls' = [cls EXCEPT ![w] = "done"]
  /\ UNCHANGED <<est, old, api, registryVars, conn, broken, told>>

-----------------------------------------------------------------------------
(* The heartbeat of the sixty seconds after the last message.         *)

\* The handler compares the registered PC session with the sender's, whatever
\* the sender's type.  A null there is a swallowed NullPointerException: the
\* page gets no answer and closes the socket after another sixty seconds.
\* Mutated form: every heartbeat of a known agent is answered.
HeartBeatAnswered(w) ==
  /\ Open(w) /\ est[w] = "done" /\ Registered("pc") = None
  /\ cls' = [cls EXCEPT ![w] = "sleep"] /\ told' = told \ {w}
  /\ UNCHANGED <<est, old, api, registryVars, xmppVars>>

HeartBeat(w) ==
  /\ Open(w) /\ est[w] = "done"
  /\ IF Registered("pc") = None
       THEN cls' = [cls EXCEPT ![w] = "sleep"] /\ told' = told \ {w}
       ELSE told' = told \cup {v \in {w} : v # Registered("pc")} /\ UNCHANGED cls
  /\ UNCHANGED <<est, old, api, registryVars, xmppVars>>

-----------------------------------------------------------------------------
(* Smack's side: the network breaks a connection, and ReconnectionManager   *)
(* brings it back.  The listeners store it again.  Bound: each connection   *)
(* breaks at most once.                                                     *)

Drop(c) ==
  /\ "drop" \in Events /\ conn[c] = "authed" /\ c \notin broken
  /\ conn' = [conn EXCEPT ![c] = "dropped"]
  /\ broken' = broken \cup {c}
  /\ UNCHANGED <<est, old, cls, api, registryVars, xmpp, told>>

Reconnect(c) ==
  /\ \/ conn[c] = "dropped" /\ conn' = [conn EXCEPT ![c] = "reconnected"]
     \/ conn[c] = "reconnected" /\ conn' = [conn EXCEPT ![c] = "authed"]
  /\ xmpp' = c
  /\ UNCHANGED <<est, old, cls, api, registryVars, broken, told>>

-----------------------------------------------------------------------------
Established(w) ==
  \/ Tell(w) \/ TellThrows(w) \/ CloseWithError(w)
  \/ LookupMap(w) \/ InstallMap(w) \/ PutSession(w) \/ PutSessionLost(w)
  \/ LoginCheck(w) \/ Connect(w) \/ Authenticate(w) \/ LoginFails(w)
  \/ Online(w) \/ OnlineFails(w) \/ EstDisconnect(w) \/ EstRemove(w)

Closed(w) ==
  \/ IgnoreClosed(w) \/ DecideLogout(w) \/ CloseThrows(w)
  \/ ClsDisconnect(w) \/ ClsRemove(w)

Next ==
  \/ \E w \in Windows : \/ Establish(w)
                        \/ Established(w)
                        \/ Close(w)
                        \/ Closed(w)
                        \/ HeartBeat(w)
                        \/ Drop(w)
                        \/ Reconnect(w)
  \/ ApiLogout
  \/ ApiRemove

\* Callbacks run to their end, and every page's heartbeat timer fires.
Fairness ==
  \A w \in Windows : WF_vars(Established(w)) /\ WF_vars(Closed(w)) /\ WF_vars(HeartBeat(w))

Spec     == Init /\ [][Next]_vars
FairSpec == Spec /\ Fairness

-----------------------------------------------------------------------------
(* Properties. *)

\* The established callback of w is running.
Establishing(w) == est[w] \notin {"none", "done"}

\* Somebody will still use the agent's connection, or is about to take it down.
InUse(w) == Establishing(w) \/ (est[w] = "done" /\ cls[w] # "done")

\* A connection stays in XMPP_MAP only on behalf of a window: when every window
\* is gone and every callback has returned, none is left that would keep the
\* agent online for nobody (VisitorLogin and RecieveMessageApi route visitors by
\* isAuthenticated).  It needs a login that ends before the close callback wakes,
\* and it excepts a connection that broke: Smack may bring that one back after
\* the logout.
OnlineForSomebody ==
  ~ SlowLogin /\ xmpp # None /\ xmpp \notin broken => \E w \in Windows : InUse(w)

\* The session t is about to overwrite the registered session of its type.
Replacing(t) == est[t] = "lookup" \/ (est[t] = "put" /\ mapRef[t] = registry)

\* An agent who uses PC windows only: a session that was told "notHeartBeat" is
\* the registered one only until the session that told it takes its place
\* (saveSession; heartBeat tells only sessions that are not registered).
ToldIsReplaced ==
  MobileWindows = {} =>
    \A w \in told : Registered("pc") = w => \E t \in Windows \ {w} : Replacing(t)

\* The log line of saveSession and heartBeat calls a session that is sent
\* "notHeartBeat" "not the current window".  With a mobile window this fails.
ToldIsNotCurrent ==
  \A w \in told : Registered(TypeOf(w)) = w => \E t \in Windows \ {w} : Replacing(t)

\* isCloseded sleeps "to guard against a refresh": a close callback must not disconnect
\* the agent once the new window has found the agent logged in and gone online, and is
\* registered and open.
RefreshSparesConnection ==
  [][\A w \in Windows :
       cls[w] = "disconnect" /\ cls'[w] = "remove" /\ IsAuthenticated
         => ~ \E t \in Types : \E v \in OpenRegistered(t) : est[v] = "done"]_vars

\* The page says "you have logged out": after that, only a login by a window may
\* bring the agent back online.
OnlyLoginBringsBack ==
  [][api = "done" /\ xmpp = None /\ xmpp' # None => est'[xmpp'] # est[xmpp']]_vars

\* A PC window that was replaced, or whose registration was lost, does not stay
\* a window that looks alive and receives nothing: a heartbeat tells it so, or
\* stays unanswered and makes the page close the socket.
ReplacedWindowLearns ==
  \A w \in PcWindows :
    (Open(w) /\ est[w] = "done" /\ Registered("pc") # w) ~> (~ Open(w) \/ w \in told)

AllClosed == \A w \in Windows : ~ Open(w)

\* When the last window of an agent has closed, and none comes back, the agent goes
\* offline, unless Smack still works at a connection that broke.  As above, it needs a
\* login that ends before the close callback wakes: the one-second sleep does not
\* guarantee it, and a login that ends later leaves a connection for nobody.
ClosedAgentGoesOffline ==
  ~ SlowLogin => (AllClosed ~> (xmpp = None \/ xmpp \in broken \/ ~ AllClosed))

\* How far the registration of each session is, and the registered ones
Stages  == [w \in Windows |->
              CASE est[w] = "none" -> "new"
                [] est[w] \in {"tell", "lookup", "install", "put"} -> "arriving"
                [] OTHER -> "settled"]
Gone    == {w \in Windows : cls[w] # "none"}
Current == [t \in Types |-> Registered(t)]

\* For its own type, a session becomes the registered one once, by its own put, which
\* may get lost; and it is forgotten only when it has closed, or by a callback that
\* installs its own inner map at the same time.
Sessions == INSTANCE CurrentSession WITH
              Sessions <- Windows, Kinds <- Types, KindOf <- [w \in Windows |-> TypeOf(w)],
              stage <- Stages, gone <- Gone, current <- Current
KeepsCurrent == Sessions!Spec

=============================================================================
