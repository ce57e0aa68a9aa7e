----------------------------- MODULE AgentDesk -----------------------------
(***************************************************************************)
(* The conversations of one agent: the hash of conversations the server    *)
(* keeps in Redis, and the desk the agent's page shows (admin-chat.js and  *)
(* util.js): the conversation list, the window of one conversation, the    *)
(* users that wait for an answer, the unread counters, and the messages    *)
(* the browser keeps in localStorage across reloads.                       *)
(*                                                                         *)
(* The page runs one handler at a time, except that it gets the            *)
(* conversation of an unknown sender in the middle of one, by a            *)
(* synchronous request.  Every other request is answered later, when the   *)
(* page may show something else.  Requests overtake each other.            *)
(*                                                                         *)
(* An entry moved from friendList to historyFriendList behaves as before   *)
(* (entries are found by id in the whole document), so the two lists are   *)
(* one set here.                                                           *)
(***************************************************************************)
EXTENDS Naturals, Sequences, SequencesExt

CONSTANTS
  Users,      \* the customers and rooms that write to the agent
  None,       \* no window is open: destJid is undefined or ""
  Keep,       \* messages localStorage keeps of one conversation (80)
  MaxMsgs,    \* bound on the messages
  MaxCalls,   \* bound on the requests in flight
  MaxBinds,   \* bound on initSuccess events within one page load
  MaxTroubles \* bound on broken connections, reloads and requests that fail

ASSUME DeskAssumption ==
  /\ None \notin Users
  /\ Keep \in Nat \ {0}
  /\ MaxMsgs \in Nat /\ MaxCalls \in Nat /\ MaxBinds \in Nat /\ MaxTroubles \in Nat

Numbers == 1 .. MaxMsgs
Frames  == [from : Users, n : Numbers]

\* A request about one user, or about none: the page waits for it unless orphan; found is
\* a list's answer.
Calls ==
  [kind : {"init", "off", "chat"}, user : Users,
   stage : {"sent", "read", "answered"}, orphan : BOOLEAN, found : SUBSET Users]
  \cup
  [kind : {"close", "list"}, user : {None},
   stage : {"sent", "answered"}, orphan : BOOLEAN, found : SUBSET Users]

VARIABLES
  conv,     \* the keys of the hash Conversation_<agent>
  calls,    \* requests in flight, oldest first
  linked,   \* the page's socket is up
  greeted,  \* initSuccess has come on this socket
  inbox,    \* frames on their way to the page
  items,    \* users with an entry in the conversation list
  dest,     \* destJid
  shown,    \* messages in #chatMsgContainer
  recvMsg,  \* xchat.recvMsg: the users that wait for an answer
  binds,    \* how often the click handlers are bound
  store,    \* store[u]: localStorage "msg:" + u
  unread,   \* unread[u]: localStorage "count:" + u
  msgs,     \* number of messages so far
  breaks,   \* number of broken connections and reloads
  faults,   \* number of requests that failed
  log,      \* history: the messages of u the page got or sent, in order
  missed,   \* history: how many messages of u came since its window was open
  slipped,  \* history: an opening may have taken another user off recvMsg
  raced     \* history: users whose entry a race or a fault may have made wrong

pageVars  == <<items, dest, shown, recvMsg, binds>>
localVars == <<store, unread>>
netVars   == <<linked, greeted, inbox>>
countVars == <<msgs, breaks, faults>>
histVars  == <<log, missed, slipped>>
vars == <<conv, calls, netVars, pageVars, localVars, countVars, histVars, raced>>

\* Types; frames travel only to a page whose socket is up, and a page that was told
\* initSuccess is such a page, with its handlers bound.
TypeOK ==
  /\ conv \subseteq Users
  /\ calls \in Seq(Calls)
  /\ linked \in BOOLEAN /\ greeted \in BOOLEAN
  /\ inbox \in Seq(Frames)
  /\ inbox # <<>> \/ greeted => linked
  /\ greeted => binds > 0
  /\ items \subseteq Users
  /\ dest \in Users \cup {None}
  /\ shown \subseteq Numbers
  /\ recvMsg \in Seq(Users)
  /\ binds \in 0 .. MaxBinds
  /\ store \in [Users -> Seq(Numbers)]
  /\ unread \in [Users -> Nat] /\ missed \in [Users -> Nat]
  /\ msgs \in 0 .. MaxMsgs /\ breaks \in 0 .. MaxTroubles /\ faults \in 0 .. MaxTroubles
  /\ log \in [Users -> Seq(Numbers)]
  /\ slipped \in BOOLEAN
  /\ raced \subseteq Users

\* The page is loaded and not connected; the hash may hold earlier conversations.
Init ==
  /\ conv \in SUBSET Users
  /\ calls = <<>>
  /\ linked = FALSE /\ greeted = FALSE /\ inbox = <<>>
  /\ items = {} /\ dest = None /\ shown = {} /\ recvMsg = <<>> /\ binds = 0
  /\ store = [u \in Users |-> <<>>] /\ unread = [u \in Users |-> 0]
  /\ msgs = 0 /\ breaks = 0 /\ faults = 0
  /\ log = [u \in Users |-> <<>>] /\ missed = [u \in Users |-> 0]
  /\ slipped = FALSE /\ raced = {}

Sent(k, u) == [kind |-> k, user |-> u, stage |-> "sent", orphan |-> FALSE, found |-> {}]

\* Bound: MaxCalls.
Issue(cs) ==
  /\ Len(calls) + Len(cs) <= MaxCalls
  /\ calls' = calls \o cs

\* Request i goes on to another stage, or is over.
Advance(i, c) == calls' = [calls EXCEPT ![i] = c]
Done(i)       == calls' = RemoveAt(calls, i)

At(i, k, s) == calls[i].kind = k /\ calls[i].stage = s

\* The page waits for request i.
Expects(i, k, s) == At(i, k, s) /\ ~calls[i].orphan

\* The server goes on with a request, with an effect, when the page no longer waits.
StillServed(c) == c.stage # "answered" /\ c.kind \notin {"list", "close"}

\* Bound: MaxTroubles.
Trouble == breaks + faults < MaxTroubles
Fault   == Trouble /\ faults' = faults + 1

Unanswered == {u \in Users : missed[u] > 0}

-----------------------------------------------------------------------------
(* The server. *)

\* A close has removed u, and the page has not heard of it.
Closing(u) ==
  \E i \in DOMAIN calls : Expects(i, "off", "answered") /\ calls[i].user = u

\* addConversations.  Coming back while the page still has to remove the entry is a race.
Ensure(u) ==
  /\ conv' = conv \cup {u}
  /\ raced' = IF u \notin conv /\ Closing(u) THEN raced \cup {u} ELSE raced

\* A message of u: its conversation is looked up, or made, and the message is pushed.
\* A page that is not connected does not get it.
Message(u) ==
  /\ msgs < MaxMsgs
  /\ msgs' = msgs + 1
  /\ Ensure(u)
  /\ inbox' = IF linked THEN Append(inbox, [from |-> u, n |-> msgs + 1]) ELSE inbox
  /\ UNCHANGED <<calls, linked, greeted, pageVars, localVars, breaks, faults, histVars>>

\* conversationInit: the conversation is read ...
InitReads(i) ==
  /\ At(i, "init", "sent")
  /\ IF calls[i].user \in conv THEN Advance(i, [calls[i] EXCEPT !.stage = "read"]) ELSE Done(i)
  /\ UNCHANGED <<conv, netVars, pageVars, localVars, countVars, histVars, raced>>

\* ... and written back with a new time, even if it was removed in between.
InitWrites(i) ==
  /\ At(i, "init", "read")
  /\ conv' = conv \cup {calls[i].user}
  /\ raced' = raced \cup ({calls[i].user} \ conv)
  /\ Done(i)
  /\ UNCHANGED <<netVars, pageVars, localVars, countVars, histVars>>

\* An answer that will make an entry of u is on its way to the page.
EntryComing(u) ==
  \E i \in DOMAIN calls :
    \/ Expects(i, "chat", "answered") /\ calls[i].user = u
    \/ Expects(i, "list", "answered") /\ u \in calls[i].found

\* visitorOff removes the conversation; removeFromMap hides an error of Redis, so the
\* page is told of a success either way.
OffServes(i) ==
  LET c == calls[i]
  IN  /\ At(i, "off", "sent")
      /\ \/ /\ conv' = conv \ {c.user}
            /\ raced' = IF c.orphan \/ EntryComing(c.user) THEN raced \cup {c.user} ELSE raced
            /\ UNCHANGED faults
         \/ /\ Fault
            /\ raced' = raced \cup {c.user}
            /\ UNCHANGED conv
      /\ IF c.orphan THEN Done(i) ELSE Advance(i, [c EXCEPT !.stage = "answered"])
      /\ UNCHANGED <<netVars, pageVars, localVars, msgs, breaks, histVars>>

\* getConversation makes the conversation that is not there.
ChatServes(i) ==
  LET c == calls[i]
  IN  /\ At(i, "chat", "sent")
      /\ IF c.orphan
         THEN /\ conv' = conv \cup {c.user}
              /\ raced' = raced \cup ({c.user} \ conv)
              /\ Done(i)
         ELSE /\ Ensure(c.user)
              /\ Advance(i, [c EXCEPT !.stage = "answered"])
      /\ UNCHANGED <<netVars, pageVars, localVars, countVars, histVars>>

\* queue/1: all conversations as they are now.
ListServes(i) ==
  LET c == calls[i]
  IN  /\ Expects(i, "list", "sent")
      /\ Advance(i, [c EXCEPT !.stage = "answered", !.found = conv])
      /\ UNCHANGED <<conv, netVars, pageVars, localVars, countVars, histVars, raced>>

-----------------------------------------------------------------------------
(* The page: messages. *)

\* Mutant: one message too many is kept.
StoredOneMore(s, n) == Append(IF Len(s) > Keep THEN Tail(s) ELSE s, n)

\* storage: the oldest message goes when Keep are there.
Stored(s, n) == Append(IF Len(s) >= Keep THEN Tail(s) ELSE s, n)

\* The handler of the message's type shows it if its window is open, and stores it.
File(u, n) ==
  /\ store' = [store EXCEPT ![u] = Stored(@, n)]
  /\ log' = [log EXCEPT ![u] = Append(@, n)]
  /\ shown' = IF u = dest THEN shown \cup {n} ELSE shown

\* Mutant: a user is pushed without looking whether it is there.
WaitAgain(u) ==
  /\ recvMsg' = Append(recvMsg, u)
  /\ missed' = [missed EXCEPT ![u] = @ + 1]

\* recvMsgEvent for a user whose window is not open.
Wait(u) ==
  /\ recvMsg' = IF u \in Range(recvMsg) THEN recvMsg ELSE Append(recvMsg, u)
  /\ missed' = [missed EXCEPT ![u] = @ + 1]

\* changeNewMessageStatus
CountUnread(u) == unread' = [unread EXCEPT ![u] = @ + 1]

\* The window is open: nothing is counted, and no entry is made, not even when the entry
\* is gone because the window is about to be closed.
ReceiveOpen ==
  LET u == Head(inbox).from
  IN  /\ u = dest
      /\ raced' = IF u \in items THEN raced ELSE raced \cup {u}
      /\ UNCHANGED <<conv, items, unread, recvMsg, missed, faults>>

\* Mutant: the sender is not compared with destJid.
ReceiveListedAlways ==
  LET u == Head(inbox).from
  IN  /\ u \in items
      /\ Wait(u)
      /\ CountUnread(u)
      /\ UNCHANGED <<conv, items, faults, raced>>

\* The user has an entry in the list.
ReceiveListed ==
  LET u == Head(inbox).from
  IN  /\ u # dest /\ u \in items
      /\ Wait(u)
      /\ CountUnread(u)
      /\ UNCHANGED <<conv, items, faults, raced>>

\* Mutant: the message that made the entry is not counted.
ReceiveUnlistedUncounted ==
  LET u == Head(inbox).from
  IN  /\ u # dest /\ u \notin items
      /\ Wait(u)
      /\ Ensure(u)
      /\ items' = items \cup {u}
      /\ UNCHANGED <<unread, faults>>

\* The synchronous getConversation: the server makes the conversation if there is none,
\* the page makes the entry.
ReceiveUnlisted ==
  LET u == Head(inbox).from
  IN  /\ u # dest /\ u \notin items
      /\ Wait(u)
      /\ Ensure(u)
      /\ items' = items \cup {u}
      /\ CountUnread(u)
      /\ UNCHANGED faults

\* getConversation fails: no entry, no count.
ReceiveUnlistedFails ==
  LET u == Head(inbox).from
  IN  /\ u # dest /\ u \notin items
      /\ Fault
      /\ Wait(u)
      /\ raced' = raced \cup {u}
      /\ UNCHANGED <<conv, items, unread>>

\* onmessage of a chat message: recvMsgEvent, then the handler of the message's type.
Receive ==
  /\ inbox # <<>>
  /\ inbox' = Tail(inbox)
  /\ ReceiveOpen \/ ReceiveListed \/ ReceiveUnlisted \/ ReceiveUnlistedFails
  /\ File(Head(inbox).from, Head(inbox).n)
  /\ UNCHANGED <<calls, linked, greeted, dest, binds, msgs, breaks, slipped>>

\* sendEvent: the answer goes to the open window's user.
Reply ==
  /\ dest # None
  /\ msgs < MaxMsgs
  /\ msgs' = msgs + 1
  /\ File(dest, msgs + 1)
  /\ UNCHANGED <<conv, calls, netVars, items, dest, recvMsg, binds, unread, breaks, faults,
                 missed, slipped, raced>>

-----------------------------------------------------------------------------
(* The page: windows. *)

\* Mutant: the user who wrote last goes, whoever is opened.
SplicedLast(s, u) == IF s = <<>> THEN s ELSE RemoveAt(s, Len(s))

\* recvMsg.splice(inArray(u), 1): for a user that does not wait, the index is -1 and the
\* last user goes.
Spliced(s, u) ==
  LET at == IF u \in Range(s) THEN CHOOSE i \in DOMAIN s : s[i] = u ELSE Len(s)
  IN  IF s = <<>> THEN s ELSE RemoveAt(s, at)

\* The k handlers of one click splice k times, and after the first u is not there.
SplicedBy(k, s, u) ==
  LET once == Spliced(s, u)
  IN  IF Len(once) < k - 1 THEN <<>> ELSE SubSeq(once, 1, Len(once) - (k - 1))

\* Mutant: the container is not emptied.
OpenWithoutEmptying(u, k) ==
  /\ dest' = u
  /\ shown' = shown \cup Range(store[u])
  /\ unread' = [unread EXCEPT ![u] = 0]
  /\ recvMsg' = SplicedBy(k, recvMsg, u)
  /\ missed' = [missed EXCEPT ![u] = 0]
  /\ slipped' = (slipped \/ (Unanswered \ {u} # {} /\ (missed[u] = 0 \/ k > 1)))

\* openFriendWindow, run by k handlers: the stored messages are shown, the counter is
\* cleared, and the server is asked k times to set the conversation's time.
OpenFriendWindow(u, k) ==
  /\ dest' = u
  /\ shown' = Range(store[u])
  /\ unread' = [unread EXCEPT ![u] = 0]
  /\ recvMsg' = SplicedBy(k, recvMsg, u)
  /\ missed' = [missed EXCEPT ![u] = 0]
  /\ slipped' = (slipped \/ (Unanswered \ {u} # {} /\ (missed[u] = 0 \/ k > 1)))

\* loadChatListEvent: a click on an entry, handled as often as the handler was bound.
OpenClick(u) ==
  /\ u \in items
  /\ binds > 0
  /\ OpenFriendWindow(u, binds)
  /\ Issue([j \in 1 .. binds |-> Sent("init", u)])
  /\ UNCHANGED <<conv, netVars, items, binds, store, countVars, log, raced>>

\* toChat: the agent picks u in the tree of friends and groups.
ToChatListed(u) ==
  /\ u \in items
  /\ OpenFriendWindow(u, 1)
  /\ Issue(<<Sent("init", u)>>)
  /\ UNCHANGED <<conv, netVars, items, binds, store, countVars, log, raced>>

ToChatUnlisted(u) ==
  /\ u \notin items
  /\ Issue(<<Sent("chat", u)>>)
  /\ UNCHANGED <<conv, netVars, pageVars, localVars, countVars, histVars, raced>>

\* The answer makes the entry if there is none by now, and opens the window.
ChatAnswered(i) ==
  LET u == calls[i].user
  IN  /\ Expects(i, "chat", "answered")
      /\ items' = items \cup {u}
      /\ OpenFriendWindow(u, 1)
      /\ Advance(i, Sent("init", u))
      /\ UNCHANGED <<conv, netVars, binds, store, countVars, log, raced>>

\* closeEventBind: a click on #offSession, handled as often as the handler was bound.
CloseClick ==
  /\ dest # None
  /\ binds > 0
  /\ Issue([j \in 1 .. binds |-> Sent("off", dest)])
  /\ UNCHANGED <<conv, netVars, pageVars, localVars, countVars, histVars, raced>>

\* The entry of the window that is open now goes, and the window is to be closed.  Whom
\* the request for that names does not matter, as the server does nothing for it.
OffAnswered(i) ==
  LET u == calls[i].user
  IN  /\ Expects(i, "off", "answered")
      /\ items' = items \ {dest}
      /\ raced' = IF dest = u THEN raced ELSE raced \cup {u} \cup ({dest} \cap Users)
      /\ Advance(i, Sent("close", None))
      /\ UNCHANGED <<conv, netVars, dest, shown, recvMsg, binds, localVars, countVars, histVars>>

\* closeFriendWindow's answer closes the window that is open now.
CloseAnswered(i) ==
  /\ Expects(i, "close", "sent")
  /\ dest' = None
  /\ Done(i)
  /\ UNCHANGED <<conv, netVars, items, shown, recvMsg, binds, localVars, countVars, histVars, raced>>

\* Mutant: the list's answer replaces the entries.
ListReplaces(i) ==
  /\ Expects(i, "list", "answered")
  /\ items' = calls[i].found
  /\ Done(i)
  /\ UNCHANGED <<conv, netVars, dest, shown, recvMsg, binds, localVars, countVars, histVars, raced>>

\* loadChatList's answer adds the entries that are missing.
ListAnswered(i) ==
  /\ Expects(i, "list", "answered")
  /\ items' = items \cup calls[i].found
  /\ Done(i)
  /\ UNCHANGED <<conv, netVars, dest, shown, recvMsg, binds, localVars, countVars, histVars, raced>>

-----------------------------------------------------------------------------
(* Faults, broken connections and reloads. *)

\* The entries a request that fails may leave wrong.
Doubtful(c) ==
  CASE c.kind = "list" -> Users
    [] c.kind \in {"off", "chat"} -> {c.user}
    [] OTHER -> {}

\* A request fails before the server sees it, or the page stops waiting for it.
Lost(i) ==
  LET c == calls[i]
  IN  /\ ~c.orphan
      /\ Fault
      /\ raced' = raced \cup Doubtful(c)
      /\ \/ c.stage # "read" /\ Done(i)
         \/ StillServed(c) /\ Advance(i, [c EXCEPT !.orphan = TRUE])
      /\ UNCHANGED <<conv, netVars, pageVars, localVars, msgs, breaks, histVars>>

\* An answer nobody waits for goes nowhere.
Forgotten(i) ==
  /\ calls[i].orphan /\ ~StillServed(calls[i])
  /\ Done(i)
  /\ UNCHANGED <<conv, netVars, pageVars, localVars, countVars, histVars, raced>>

\* Mutant: the frames of the broken socket still arrive.
UnlinkKeepsFrames ==
  /\ Trouble
  /\ breaks' = breaks + 1
  /\ linked' = FALSE /\ greeted' = FALSE
  /\ UNCHANGED inbox

\* The socket is gone, and with it the frames on their way.  Bound: MaxTroubles.
Unlink ==
  /\ Trouble
  /\ breaks' = breaks + 1
  /\ linked' = FALSE /\ greeted' = FALSE
  /\ inbox' = <<>>

\* The socket breaks; the frames on their way are lost.
Break ==
  /\ linked
  /\ Unlink
  /\ UNCHANGED <<conv, calls, pageVars, localVars, msgs, faults, histVars, raced>>

\* The socket is up, and the server has saved the session: messages may come now.
Connects ==
  /\ ~linked
  /\ linked' = TRUE
  /\ UNCHANGED <<conv, calls, greeted, inbox, pageVars, localVars, countVars, histVars, raced>>

\* initSuccess, later on every connection that logs in: the list is loaded and the handlers
\* are bound once more.  Bound: MaxBinds.
InitSuccess ==
  /\ linked /\ ~greeted
  /\ binds < MaxBinds
  /\ greeted' = TRUE
  /\ binds' = binds + 1
  /\ Issue(<<Sent("list", None)>>)
  /\ UNCHANGED <<conv, linked, inbox, items, dest, shown, recvMsg, localVars, countVars, histVars,
                 raced>>

\* The agent reloads the page: localStorage stays, and what the server has been asked
\* it still does.
Reload ==
  /\ Unlink
  /\ calls' = [i \in DOMAIN calls |-> [calls[i] EXCEPT !.orphan = TRUE]]
  /\ items' = {} /\ dest' = None /\ shown' = {} /\ recvMsg' = <<>> /\ binds' = 0
  /\ slipped' = (Unanswered # {})
  /\ raced' = {}
  /\ UNCHANGED <<conv, localVars, msgs, faults, log, missed>>

-----------------------------------------------------------------------------
Serve(i) ==
  InitReads(i) \/ InitWrites(i) \/ OffServes(i) \/ ChatServes(i) \/ ListServes(i)

Answer(i) == ChatAnswered(i) \/ OffAnswered(i) \/ CloseAnswered(i) \/ ListAnswered(i)

Next ==
  \/ \E u \in Users : Message(u) \/ OpenClick(u) \/ ToChatListed(u) \/ ToChatUnlisted(u)
  \/ Receive \/ Reply \/ CloseClick
  \/ \E i \in DOMAIN calls : Serve(i) \/ Answer(i) \/ Lost(i) \/ Forgotten(i)
  \/ Break \/ Connects \/ InitSuccess \/ Reload

Spec == Init /\ [][Next]_vars

-----------------------------------------------------------------------------
(* Properties. *)

\* The open window shows messages of its own conversation only, and all of them that the
\* browser keeps: whatever was opened before, and whichever frames came meanwhile
\* (openFriendWindow empties the container, recv...MsgHandelEvent compares with destJid).
WindowShowsItsConversation ==
  dest # None => /\ shown \subseteq Range(log[dest])
                 /\ Range(store[dest]) \subseteq shown

\* The user whose window is open has no unread message and does not wait for an answer:
\* opening clears both, and a message for the open window raises neither.
OpenWindowHasNoUnread ==
  dest # None => unread[dest] = 0 /\ missed[dest] = 0 /\ dest \notin Range(recvMsg)

\* recvMsg counts a user once, and only one that wrote since the agent last opened the
\* window: "how many users have no answer yet" is never too high (admin-chat.js:18).
WaitingHonest ==
  /\ Range(recvMsg) \subseteq Unanswered
  /\ \A i, j \in DOMAIN recvMsg : recvMsg[i] = recvMsg[j] => i = j

\* The count is not too low either, unless a window was opened for a user that did not
\* wait, or by several handlers, while others waited, or the page was reloaded.
WaitingComplete == ~slipped => Unanswered \subseteq Range(recvMsg)

\* The unread counter of a user, kept across reloads, is the number of messages that came
\* since the window was last open; it is lower only if a request failed.
UnreadCounts ==
  \A u \in Users : unread[u] <= missed[u] /\ (faults = 0 => unread[u] = missed[u])

\* localStorage keeps the last Keep messages of a conversation in the order the page got or
\* sent them, across reloads and switches between windows.
HistoryIsSuffix ==
  \A u \in Users :
    store[u] = IF Len(log[u]) <= Keep THEN log[u]
               ELSE SubSeq(log[u], Len(log[u]) - Keep + 1, Len(log[u]))

\* When nothing is under way the list shows the conversations the server has, except of
\* users touched by one of the known races: a close answered after the agent opened
\* another window, a conversation that came back while its close was on its way to the page,
\* an answer that was older than a close, a conversationInit that wrote back what a
\* close had removed, or a request that failed.  A reload clears them.
QuietDeskAgrees ==
  greeted /\ calls = <<>> /\ inbox = <<>> =>
    \A u \in Users \ raced : u \in items <=> u \in conv

=============================================================================
