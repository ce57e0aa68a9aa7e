# Verification of the customer-service server

This directory holds TLA+ models of the WebSocket customer-service server (`src/`,
package `com.baodanyun.websocket`), the TLC configurations that check them, and
theorems checked by TLAPS. Paths below are relative to
`src/src/main/java/com/baodanyun/websocket/` unless they start with `webapp/`
(`src/src/main/webapp/`).

An *agent* ("customer" in the source) answers *visitors* from a browser page. The
page talks to the server over SockJS; the server talks to an Openfire XMPP server on
the agent's behalf, keeps its bookkeeping in Redis, memcached and MySQL, and moves
work between threads with a Guava event bus whose listeners own thread pools.

## 1. Inventory

| component | state it keeps | operations | talks to |
|---|---|---|---|
| Agent windows and sessions: `CustomerWebSocketHandler`, `MobileCustomerWebSocketHandler`, `WebSocketService` | `WEB_SOCKET_SESSION_MAP`, a field of the one service: jid -> (type -> session), a `ConcurrentHashMap` of plain `HashMap`s, shared by all threads | established, closed (after a 1 s sleep), heartbeat, send | life cycle, page |
| XMPP connection registry: `XmppServiceImpl`, `MUCPacketExtension...InitConnectListener` | `XMPP_MAP`: jid -> Smack connection | connect, login, `closed`, automatic reconnection | Smack |
| Agent life cycle: `UserLifeCycleServiceImpl` and its subclasses | none of its own | `login`, `online`, `logout` | registry, offline messages |
| Chat page: `webapp/resouces/js/chat-core.js`, `chat.jsp` | `_ws`, `lockReconnect`, `disable`, two heartbeat timers, the `#onlineStatus` overlay | connect, reconnect, heartbeat, receive | sessions |
| Agent's desk: `webapp/resouces/js/admin-chat.js`, `util.js`, `scripts/friendAndGroup.js` | `destJid`, `recvMsg`, the conversation list and the open window (DOM), `msg:` and `count:` entries of localStorage | receive, answer, open, close, load the list, load an unknown sender's conversation | page socket, `QueueApi`, `CustomerApi` |
| Uploads: `webapp/resouces/js/webuploader/`, the senders of `chat-core.js` | files and their status, queue, pool, `runing`, `_promise`; one message object per uploader | pick, preview, prepare, send, finish | page socket, upload request |
| Message charging: `MessageFiterServiceImpl`, `MessageArchiveAdapterServiceImpl`, `MsgShowApi`, two event-bus listeners | three Redis switches, the Redis list `computationalCosts`, the table `messagearchiveadapter`, two pools' queues | `filter`, archive, charge, reveal a page | Redis, MySQL, the charging system |
| Visitor windows and agency visitors: `VisitorWebSocketHandler`, `NewVisitorWebSocketHandler`, `AppKeyServiceImpl` | `visitors` (token -> visitor), session and XMPP maps shared with the agents | log in by app key, connect, send | registry |
| Visitor queue, routing, transfer: `UserCacheServer`, `UserServer`, `TransferServer` | memcached maps: visitor -> agent, agent -> set of visitors, all users | add, delete, `joinQueue`, `uninstallVisitor`, `changeVisitorTo` | memcached, life cycle |
| Conversations: `JedisConversationServiceImpl`, `QueueApi`, conversation listeners | Redis hash `Conversation_<agent>` | add, remove, get-then-add | dispatch, page |
| Message dispatch: `UcMessageListener`, `InitChatMessageListener`, `MsgSendControl`, `WebSocketService.produce` | a queue of messages | stanza -> conversation, counters, windows | all of the above |
| Offline messages: `pushOfflineMsg` | the XMPP server's offline store | fetch, produce, delete | dispatch |
| Plugin status: `KeepOnlineApi` | one static map `plugin` for all agents | poll | Redis |
| Counters: `UCMessageEventBusListenerImpl` | total and per-day counts, cached in memory, stored in Redis | `increase` | MySQL, Redis |
| Redis, memcached, database access | none | single calls | |
| Administration, search, upload, login pages | none | one query or upload per request | |
| Superseded node model (`NodeManager`, `Node`, ...) | dead code | | |

What is hard, and what makes each component correct:

* **Windows, sessions, registry.** The established callback of one window runs while
  the closed callback of another sleeps or logs out, on different threads, over
  unsynchronised check-then-act sequences on both maps. Correct means: an agent with a
  working window stays online; an agent without one goes offline; only a window that is
  replaced is told so, and a replaced window learns it.
* **Chat page.** Timers left over from an earlier socket act on the global `_ws`;
  the network can fail silently. Correct means: one connection at a time, always a way
  back, a truthful overlay, dead paths noticed, one active page per agent.
* **Charging.** Check, charge, archive and delete are separate steps in several
  threads and stores, with no transaction. Correct means: nothing maskable is shown
  unpaid, nothing is lost, nothing is charged twice, what is paid for can be read.
* **Desk.** Requests are answered when the page may show something else, overtake each
  other, and change Redis after the page has stopped waiting; the click handlers are
  bound again on every connection; localStorage outlives the page. Correct means: the
  window shows its own conversation, counters equal what came, stored messages are the
  last ones, and a quiet list shows the server's conversations.
* **Uploads.** Overlapping ticks of one loop, timers, previews drawn in the background,
  a message object shared by all files of an uploader, and the agent and the socket
  moving on meanwhile. Correct means: files in order, at most `threads` at a time, none
  forgotten, each with one outcome, and its message in the conversation it was meant for.
* **Agency visitors.** Visitors of one agency share one XMPP key; leaving never logs
  out. Correct means: a visitor gets its own messages, and resources are given back.
* **Queue and transfer.** Read-change-write on memcached, locked per JVM at best; a
  transfer is an unload followed by a join. Correct means: a visitor is in exactly one
  agent's queue, the one it is routed to.
* **Conversations, dispatch.** Get-then-add races with remove. Correct means: a
  removed conversation stays removed, a message reaches every open window.
* **Offline messages, plugin status, counters.** Delete-all inside a loop; one static
  map for all agents; two clock reads. Correct means: no message lost, each change
  reported to its agent, counts equal to what arrived.

`PROJECT.json` lists every hazard at its line.

## 2. Plan

Each later module composes with an earlier one through the constants and actions named.

| # | module | status | content |
|---|---|---|---|
| 1 | `CustomerWindows` | done | windows x callbacks x registry x XMPP connection |
| 2 | `MessageBilling` | done | filter, archive, cost queue, reveal |
| 3 | `ChatPages` | done | the page's side, against the server's registry with the steps of `saveSession` |
| 4 | `AgentDesk` | done | the hash of conversations x requests in flight x the desk of the page |
| 5 | `FileTransfers`, `UploadEngine`, `ChatUploads` | done | an abstract specification; the upload queue; its composition with the page's senders, socket and conversations, which implements the first |
| 6 | `CurrentSession`, `PageLink`, `PaidMessages` | done | abstract specifications: the server's current session, which `CustomerWindows` implements; a page's connection, which `ChatPages` implements; the ledger that `MessageBilling` keeps |
| 7 | `VisitorQueue` | planned | memcached maps, join, unload, transfer; two servers |
| 8 | `MessageDispatch` | planned | stanza to windows and counters; composed with the session registry and `AgentDesk` |
| 9 | `AgencyVisitors` | planned | shared keys, tokens, missing logout |
| 10 | `OfflineMessages`, `PluginStatus`, `Counters` | planned | small sequential modules with failures |

Runs planned: one or two per module, with two or three actors. Theorems planned: type
correctness and the main invariant of each; the refinements of 5 and 6 (done); queue
membership in 7.

## 3. Modules and their correspondence to the code

### CustomerWindows

One agent. A *window* is one SockJS session; a browser refresh is one window that
closes and another that opens.

* `est[w]`, `cls[w]`, `api` are the program counters of `afterConnectionEstablished`,
  `afterConnectionClosed` and the `customerLogout` request. A step ends where another
  thread can see or change what the next one uses: `Establish` looks up the session to
  tell, `Tell` sends it `notHeartBeat`, and `LookupMap`, `InstallMap` and
  `PutSession` are the accesses to the maps of `saveSession`; `LoginCheck`, `Connect`,
  `Authenticate`, `Online` are `login` and `online`; `DisconnectStored` and `RemoveKey`
  the two of `XmppServiceImpl.closed`.
* `old[w]` is the session that `saveSession` has looked up and is about to tell. If it
  closes meanwhile, `sendMessage` throws (`TellThrows`): `saveSession` catches an
  `IOException` and goes on, but not an `IllegalStateException`, which ends the callback
  before the new session is put; Spring then closes that session (`CloseWithError`).
* `registry`, `inner` and `mapRef` are the outer map's entry, the inner maps, and the
  reference a callback holds. A session is identified with the inner map and the
  connection its own callback may create, so all three are indexed by windows.
* The outer map is a `ConcurrentHashMap`, but `saveSession` looks and puts in two steps
  without a lock, and the inner maps are plain `HashMap`s. Two races on them matter beside
  the replaced inner map (`InstallMap`), and are modelled:
  `PutSessionLost` (two puts into an empty map) and `CloseThrows` (a put during the
  iteration of `isConnected`, which ends the close callback by an exception). The
  iteration order is left open, which decides what is dropped before an open session
  is found.
* `told` holds the open sessions that were sent `notHeartBeat`.
* Smack 4.1 is not in `src/`. As the code uses it: listeners run inside `connect()`
  and `login()`; a dropped connection is neither connected nor authenticated; the
  `ReconnectionManager`, which the code enables, tries again until `disconnect()` was
  called, and runs the listeners that store the connection (`Drop`, `Reconnect`).
* A heartbeat with no registered PC session is a `NullPointerException` that the
  handler logs; the page gets no answer and closes the socket. Here that is one step
  (`HeartBeat`); `ChatPages` has the wait.

### MessageBilling

The messages of one friend to one agent, and the agent's reveal requests.

* `due` holds the three switches; `Flip` is the external charging system, which sets
  them at any time. `IsEncrypt` reads them in one step; under the fault "redis" any
  subset reads as missing, as `JedisServiceImpl.getValue` answers null for an error.
* `Filter`, `Mask`/`Charge`, `Send` are `filter` and `send`; `Insert` and `Produce` are
  the pools of the two listeners, five threads each, so their order is open.
* `RevealCheck` ... `RevealReturn` are `selectByFromAndTo` row by row; the order of the
  rows inside the chosen page, and the page chosen, are left open. `RevealFails` and
  `Crash` are exceptions and restarts: the table and Redis survive.
* The table definition is not in the repository; the model assumes that the column
  `ct` is filled in.

### ChatPages

The pages of one agent. A page runs one handler at a time: each action is one handler
or timer callback of `chat-core.js`.

* `ws`, `lock`, `disable`, `banner`, `beat`, `reply`, `waiting` are the page's variables,
  overlay and timers; `ready`, `closing` the state of its SockJS sockets. SockJS (0.3) is
  not modelled beyond its use: `send` throws while connecting and is dropped when
  closed; `close` dispatches the close event later; there are no error events, so
  `onerror` is `onclose`. The initial overlay is shown (`chat.jsp:68-88`).
* The server is the registry of PC sessions with the steps of `saveSession`, as threads
  of different sockets take them: `Accept` looks the registered session up and tells it,
  or fails on a session that closed in between (`AcceptThrows`); `LookupMap`,
  `InstallMap`, `PutSession` are the accesses to the maps, with the lost map and the lost
  put. `SessionCloses` and `Look` are a session's end and the close callback's look at
  the registered one; `HeartBeat` and `SendMsg` the two other senders of frames. The
  lookup and the sending of `notHeartBeat` are one step here; `CustomerWindows` has them
  apart. `crossed` is a history variable: the reachable sessions whose `saveSession`
  overlapped another one's, so that neither may have been told of the other.
* `link`, `ping`, `mail` are the network: frames of one socket stay in order; `Break`
  loses everything on the way, silently.
* A heartbeat that a working server got is answered within the sixty seconds of the
  reply timer: this is the guard of `ReplyTimeout`.
* `SlowServer` says whether a page's timer (two seconds and more) can go off between two
  of `saveSession`'s accesses to the maps. `chat_two` assumes that it cannot, which keeps
  its state space small; no proof of section 6 uses that assumption. `MaxSockets` bounds
  the sockets of each page.

### AgentDesk

The conversations of one agent: the Redis hash, and what the agent's page shows of it.
The page runs one handler at a time; each action is one handler, or one step of a request.

* `conv` is the set of keys of `Conversation_<agent>`. `Message` is the server's side of
  a chat message (`initConversationMsg`, `send`): the conversation is made if it is not
  there, and a page that is not connected does not get the frame.
* `calls` are the page's requests in flight. Each is served by the server's code
  (`InitReads`, `InitWrites`, `OffServes`, `ChatServes`, `ListServes`) and answered to the
  page (`ChatAnswered`, `OffAnswered`, `CloseAnswered`, `ListAnswered`) in any order.
  A request that fails or times out (`Lost`) either never reached the server or goes on
  there without the page (`orphan`), as does every request of a page that is reloaded.
* `visitorOff` tells of a success whatever Redis did: `JedisServiceImpl.removeFromMap`
  logs the exception (`OffServes`, second disjunct).
* `Connects` is a socket whose session the server has saved: frames arrive from then on.
  `InitSuccess` is the later frame of that connection (`greeted`) which loads the list
  and binds the handlers.
* `Receive` is the frame's handler: `recvMsgEvent`, with its synchronous
  `getConversation` for an unknown sender in the middle, then the handler of the type,
  which stores and shows the message.
* `binds` counts how often `initSuccess` has bound the click handlers: `OpenClick` and
  `CloseClick` run as often, and `recvMsg.splice(inArray(id), 1)` with them (`SplicedBy`).
* `store` and `unread` are localStorage: they survive `Reload`; `Keep` is the 80 messages
  of `storage`.
* Messages have numbers that do not repeat. The code takes the time in milliseconds
  (`createMsgId`): two messages of the same millisecond are left out.
* History variables: `log` (what the page got or sent), `missed` (messages since the
  window was open), `slipped` (an opening may have spliced another user off `recvMsg`)
  and `raced` (users whose entry one of the named races or a fault may have made wrong).

### UploadEngine, ChatUploads, FileTransfers

`UploadEngine` is `webuploader.js` as the page configures it: automatic start, no
chunks. Each uploader has one loop, `_tick`; `ticks` counts its scheduled or waiting
calls, `preparing` is `_promise`, `pool` the blocks in transfer, `starts` the timers of
`addFile`. `FinishThrows` is a throwing handler of `uploadSuccess`: the chain of
`_finishFile` breaks, `uploadComplete` is not triggered, and the block never leaves.

`ChatUploads` EXTENDS it with the page: the socket's three states, the conversation that
is open, one message object per uploader (`msgId`, `msgName`), previews, and the five
ways in which an upload ends: `Sends`, `SendsNothing`, `StoreThrows` (localStorage is full
once the message has gone out, or a closed socket has dropped it), `SendThrows` (the
socket is connecting) and `Refused`. Every
`loginSuccess` creates two more uploaders, and the agent picks in the newest ones.
`disturbed` is a history variable: files whose upload another click crossed.

`FileTransfers` is what an agent may rely on: pick, start in order, one outcome.
`ChatUploads` implements it with `line <- queue` and `phase <- Phase`.

### CurrentSession, PageLink, PaidMessages

Abstract specifications without code of their own; the mapping is at the end of the
module that implements them.

* `CurrentSession` is what pages may rely on: per type one session is current; it became
  so once, by its own arrival, and never comes back after it was replaced. An open
  session may be forgotten only while another one arrives: this is `InstallMap`, whose
  `put` of a new inner map throws away the map that another thread installed.
  `CustomerWindows` implements it with `stage`, `gone`, `current` read off `est`, `cls` and
  `Registered`.
* `PageLink` is the cycle of a page's connection: loaded, trying, open, lost, waiting,
  and its warning. A `ChatPages` page is "lost" while a close event is queued and "waiting"
  while the reconnection timer runs.
* `PaidMessages` is a ledger of the messages that can be hidden: charged and left in
  clear, or hidden and charged when revealed; never shown unpaid. `MessageBilling` keeps
  it when nothing fails; with Redis failures and restarts it does not, as a message may
  then be shown without a charge.

## 4. Runs

| run | instance | shows |
|---|---|---|
| `windows_three` | PC windows w1, w2, mobile m1; no events | `OnlineForSomebody`, with logins that end before the close callback wakes: no stored connection without a window that uses it or is taking it down; `KeepsCurrent`: sessions and registry implement `CurrentSession` |
| `windows_events` | w1, w2; failed logins, drops, a logout request; fairness | `OnlineForSomebody`, `ToldIsReplaced`, `ReplacedWindowLearns`, and `ClosedAgentGoesOffline`: an agent without windows goes offline, if logins end before the close callback wakes |
| `windows_refresh` | w1, w2 | violation: a refreshed window that is logged in and online can lose its connection |
| `windows_revival` | w1; drops and logout | violation: a logged-out agent comes back |
| `windows_mobile` | w1, m1 | violation: a mobile window mutes the PC page |
| `billing_fair` | two messages, two reveals, page of one row, two flips | `NoFreeContent`, `ContentKept`, `ChargeBound`, `PaidContentIsShown`, `KeepsLedger` (implements `PaidMessages`) |
| `billing_faults` | two messages, two reveals, Redis, database and restart faults, one failure | `ChargeBound` with failures |
| `billing_file` | a text and a file | violation: a file passes encryption in clear |
| `chat_two` | two pages, two sockets for one and one for the other, one break, one message, no slow server; fairness | `OneWayBack`, `BannerHonest`, `StrangerIsTold`, `OpenIsWatched`, `DeadLinkNoticed`, `PageComesBack`, `OneActiveLeft`; `GoesRound` (implements `PageLink`) |
| `chat_muted` | two pages, two sockets each, slow server | violation: a muted page hides its warning |
| `desk_two` | two users, two requests in flight, two messages, two connections, one break, reload or fault | `WindowShowsItsConversation`, `OpenWindowHasNoUnread`, `WaitingHonest`, `WaitingComplete`, `UnreadCounts`, `HistoryIsSuffix`, `QuietDeskAgrees` |
| `uploads_two` | two files, one conversation, uploaders image 1, attachment 1 and 2, one thread, two logins, two moves; fairness | `AtMostThreads`, `NoFileForgotten`, `UndisturbedUploadArrives`, `ImplementsTransfers`, `EveryFileSettles` |

**Why the bounds are enough.** The races of `CustomerWindows` are between two callbacks
(a third window adds the type that shares the inner map); each window closes once and
each connection drops once, since a reopened window is another window. In
`MessageBilling` a double charge needs two reveals or one failure, a hidden row needs a
page smaller than the table. In `ChatPages` a leftover timer
meets at most the next socket of its page, so two sockets of one page are enough for it;
the other page needs one socket to replace the first or to be replaced by it, and two
callbacks that overlap can be of the two pages or of the two sockets of one.
In `AgentDesk` a race is between two requests, or a request and a message, of one or two
users; `Keep` is 1 instead of 80 so that the second message already drops one; a second
connection binds the handlers twice. In `ChatUploads` two files of one uploader compete
for its message object and, with one thread instead of three, for the pool; two logins
give two generations of uploaders (the second uploader for pictures is like that for
attachments, and is left out); one conversation and none are enough for a message to
miss its addressee. For both modules the theorems of section 6 cover every value of
these bounds.
The bounds on sockets, breaks, messages, flips and failures are constants in guards.
Every run sets `CHECK_DEADLOCK FALSE`: windows that are all closed, messages that are
all shown, and pages whose sockets are used up are quiet by nature.
Symmetry is used only in runs without liveness properties.

**The sleep of a close callback.** `afterConnectionClosed` sleeps a second, looks, and
logs out. Nothing in the code makes a login end within that second. If it does not, the
close callback of a window may run before its own login stores the connection, which then
nobody takes down. `OnlineForSomebody` and `ClosedAgentGoesOffline` therefore carry the
assumption `~ SlowLogin` in their text, `SlowLogin` is `FALSE` in their runs, and the
slow login is listed in `PROJECT.json` as a hazard that no property covers.

**Fairness.** Weak, per thread: a callback, pool task or page handler that can go on
does (JVM threads and the browser's event loop). Page timers fire
(`setTimeout`); an accepted connection opens or fails (TCP does one of them). Nothing is
assumed of users, of the network staying up, of switches changing, or of closing a
window. `PaidContentIsShown` also assumes that the agent goes on asking for what is
archived, and is conditional on the switches settling in the agent's favour.
`ChatUploads` has one weak fairness condition, on `Works`: while a timer, an answer or a
callback of an uploader is due, one of them comes. The event loop runs what is due, a
request is answered or ended by its two-minute timer (`Transport._timeout`), and the
browser finishes with a picture it compresses. Which one comes first is left open, and
nothing is assumed of the agent, the socket or the previews. As an upload has finitely many
steps, `EveryFileSettles` needs no fairness per file. `AgentDesk` has no liveness
property, as the page retries nothing.

## 5. What the violations say

* `RefreshSparesConnection`: `isCloseded` looks after its sleep, and `logout` is a
  separate step. A refreshed window registers in between, finds the stored connection
  authenticated, goes online with it and is done; then the old window's callback
  disconnects it. The page stays connected to the server while its agent is offline. The
  comment "to guard against a refresh, the close has to be delayed"
  (`WebSocketService.java:178`) does not hold in general.
* `OnlyLoginBringsBack`: `closed` does not `disconnect()` a connection that is down at
  that moment; its reconnection brings the agent back after "you have logged out".
* `ToldIsNotCurrent`: `saveSession` asks for the PC session whatever it saves, so a
  mobile window tells the PC page "not the current window" although it stays registered.
* `IgnoringPageShowsBanner`: `onopen` hides "you are offline, please refresh" but never
  resets `disable`. A muted page that reconnects is the registered window again, looks
  healthy, and drops every message.
* `EncryptedIsHidden`: `filter` marks and archives a file, link or attachment as
  encrypted, and sends its content unchanged and uncharged.

Further places where the code departs from what a reader expects. The properties named
allow for them, so that the runs pass:

* `splice(-1, 1)` (`admin-chat.js:767`): opening a user that does not wait takes the last
  waiting user off `recvMsg`. `WaitingComplete` holds up to the first such opening
  (`slipped`), which also covers the handlers that are bound twice.
* The answer to a close acts on whatever window is open by then (`admin-chat.js:130`,
  `:142`), and `conversationInit` writes back a conversation that was removed.
  `QuietDeskAgrees` leaves out the users that such a race touched (`raced`).
* An upload's message goes to the conversation that is open when the upload ends, with
  the id of the last preview (`chat-core.js:247`, `:260`). `UndisturbedUploadArrives`
  says when it goes where it should.
* Two `saveSession`s that overlap may not know of each other: both look up nothing, or the
  same third session, and the one whose put is overwritten, or goes into a replaced map,
  is told by the next heartbeat only. `StrangerIsTold` leaves out sessions of this kind
  (`crossed`); `OneActiveLeft` shows that the heartbeat settles it.
* The success callback may throw: `send` on a socket that is connecting, and
  `localStorage.setItem` on a full storage after the message has gone out
  (`util.js:414`; pictures are stored as data URLs). The block stays in the pool for good.
  `EveryFileSettles` excepts a file whose uploader has lost all its threads to such blocks.
* A message type without an entry in `_events` is counted by `recvMsgEvent` and neither
  stored nor shown. `Receive` models the types that have one.
* `uploadAttachment.js:45` sets `resize: false`, which is no option of this version:
  attachments that are JPEG pictures are compressed, which may fail (`PrepareFails`).
* `updateImageSrc(msg.id, msg.href)` (`chat-core.js:254`) passes a field that is never
  set: the preview stays a preview. No property is about it.

## 6. Proofs

`CustomerWindowsProofs`, `MessageBillingProofs`, `ChatPagesProofs`, `AgentDeskProofs`,
`UploadEngineProofs` (lemmas) and `ChatUploadsProofs` prove theorems for every value of
the constants, from the named assumptions in the modules (`ConstantsAssumption`,
`BillingAssumption`, `PagesAssumption`, `DeskAssumption`, `EngineAssumption`,
`UploadsAssumption`, `MailAssumption`: disjoint sets, natural bounds, `None` outside the
data).

| theorem | argument |
|---|---|
| `CustomerWindowsProofs!TypeCorrect` | inductive as stated: the null check of `saveSession` is what gives a callback at "put" a map |
| `OnlineCorrect` | `OnlineForSomebody` is not inductive: a close callback acts only after the established callback of its own session has ended (`SleepFirst`), so whoever stores a connection is still in use; and only a connection that broke is stored again by Smack (`BrokenFirst`) |
| `ToldCorrect` | a session is told, about to be told or registered only after its own put (`PastPut`), and an inner map is shared only after its maker installed it (`FreshMaps`), so a told session is the registered one only while its teller is on the way to the put |
| `MessageBillingProofs!TypeCorrect` | inductive as stated: only encrypted messages reach archive, page and row |
| `NoFreeContentCorrect` | a message left in clear is charged before it is sent (`ClearCharged`), and a reveal has charged every row of its page that it is past (`PageCharged`) |
| `ContentKeptCorrect` | the rows that a reveal deletes are rows of its page, which it still holds (`PageHolds`) |
| `ChargeBounded` | `BoundInv`, for any number of overlapping reveals: a message is uncharged until it is archived (`Untouched`); a reveal has charged a row or will, never both (`HeldOnce`); so an archived message was charged by the reveals that are about to delete it, a deleted one at most by those that are past it, and both besides before earlier failures (`CountBound`) |
| `LedgerKept` | from `NoFreeContent`'s and `ChargeBound`'s invariants: each step maps to `ChargeInClear`, `Hide`, `ChargeHidden`, `Show` or a stutter; a row that is charged by a reveal is hidden and below the bound |
| `CurrentKeptCorrect` | each step maps to `Arrive`, `Register`, `Miss`, `Leave`, `Forget` or a stutter. `PastPut` and `FreshMaps` show that a put into a map that is installed makes the session the registered one, and into any other changes nothing that is current |
| `StrangerIsToldCorrect` | `StrangerInv`: while a session is in `saveSession`, every reachable one that is past it knows that it is not current (`EarlierKnow`); sessions in `saveSession` at the same time are crossed (`OverlapsCross`), and so is one whose inner map was replaced (`ObsoleteCross`); so a session that is not crossed registers as the only one in `saveSession`, and what replaces it has told it. `disable` is never taken back, and a cut path stays cut. The safety half of `OneActiveLeft` |
| `OpenIsWatchedCorrect` | a socket opens in a handler that sets the heartbeat timer; when that fires, the reply timer follows unless the socket is still connecting, and when that one fires, the socket is closed. The safety half of `DeadLinkNoticed` |
| `LinkCorrect` | `LiveIsCurrent`, `OneOrTheOther` and `Locked` give the phases; `OpenIsFirst` adds that a socket's first frame is its "open", so that no message or reply reaches a page that is still trying |
| `ChatPagesProofs!TypeCorrect` | with `Fresh`: no trace is left of a socket that was not opened yet |
| `OneWayBackCorrect` | only the current `_ws` is alive or closing (`LiveIsCurrent`); it is so, or one timer is set (`OneOrTheOther`); the lock is held exactly while a timer is set (`Locked`) |
| `BannerHonestCorrect` | from the same invariant: a page opens a socket only when it has none that is open or closing, and then the overlay is shown |
| `AgentDeskProofs!TypeCorrect` | inductive as stated: a page that is not connected has no frames on the way and is not greeted, and a greeted one has bound its handlers |
| `NoUnreadInOpenWindow`, `WaitingIsHonest`, `WaitingIsComplete`, `UnreadIsRight` | one invariant, `CountsInv`: the properties themselves need each other, as an opening clears `missed`, `unread` and `recvMsg` together, and a splice keeps the list free of repetitions |
| `HistoryIsKept`, `WindowIsRight` | `StoreInv`: what is stored is a suffix of the log, and what is shown lies between the two |
| `DeskAgrees` | `QuietDeskAgrees` speaks of quiet states only. `ListInv` says for every state and every user outside `raced` (`Agrees`) why list and hash may differ: a close, a frame or an answer on its way to the page; and no answer on its way is out of date |
| `ChatUploadsProofs!TypeCorrect` | with `PlaceInv`: a file is in one queue at most, and in preparation, in a pool or in progress only in its own uploader (`Placed`) |
| `PoolIsBounded` | `Room`: the pool and the file in preparation together never exceed `Threads`, because a tick runs only when nothing is being prepared |
| `NoFileIsForgotten` | `Awake`: a queued file has a running loop, and a loop that runs with something to do has a tick, a preparation or a block that will schedule one |
| `UndisturbedArrives` | `ArriveInv`: an undisturbed file that is still open is the one its uploader's message was last made for (`OwnMessage`), and only attachments put names in it (`NamesOfAttachments`); what is not finished has sent nothing (`UnfinishedUnsent`) |
| `TransfersImplemented` | `Init` maps to `Init`; each step maps to `Pick`, `Start`, `End` or a stutter. `Ordered`, `Room` and `PlaceInv` give the guards of `Start`, and the pool's own file those of `End` |

The engine's four conjuncts are the inductive invariant `EngineInv` of
`UploadEngineProofs`, which `ChatUploadsProofs` uses for the composed specification.

Only model-checked: the liveness properties (`ReplacedWindowLearns`,
`ClosedAgentGoesOffline`, `PaidContentIsShown`, `DeadLinkNoticed`, `PageComesBack`,
`OneActiveLeft`, `EveryFileSettles`), as fairness rests on ENABLED, which this version of
TLAPS cannot reason about. Every invariant and every refinement that a passing run checks is also
a theorem.
The violations are TLC counterexamples.

## 7. Not modelled

* Delivery to each of an agent's windows and the server's counters: planned (8, 10).
* Visitors, agencies, queue and transfer: planned (7, 9).
* Of the page: rendering and templates, quick replies, search, user cards and tags, the
  charging switches' buttons, local history's decryption. They change what is
  displayed and no state another part reads. `waitQueueSuccess` and its kin have handlers
  in the page, but nothing in the server sends them.
* Of `webuploader.js`: pausing, cancelling, retrying, chunks, drag and drop, pasting, the
  flash runtime, md5 and meta data. The page configures or
  calls none of them. This is most of that file.
* Vendored browser libraries (`bootstrap-treeview.js`, `jquery.form.js`, `mustache.js`,
  `niuniucapture.js`): third-party widgets and plug-ins. They are most of the remaining
  JavaScript.
* The visitor's page: the chat windows of the JSP pages share `chat-core.js`, whose
  socket handling `ChatPages` covers.
* The second server of a cluster: sessions and connections are per JVM in the code.
* PageHelper's thread-local page, the format of messages and the HTTP calls to the
  charging system.
* Thin I/O wrappers (Redis, memcached, MyBatis), administration, search, upload and
  login pages: stateless requests around one query. The effects and failures of the
  calls that matter are part of the modules that make them.
* `NodeManager`, `Node` and their subclasses: nothing that runs refers to them.
