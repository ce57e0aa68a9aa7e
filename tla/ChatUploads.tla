---------------------------- MODULE ChatUploads ----------------------------
(***************************************************************************)
(* How the agent's page sends pictures and attachments (chat-core.js,      *)
(* uploadimg.js, uploadAttachment.js): a picked file is uploaded by an     *)
(* uploader (UploadEngine), and the message with its address is sent when  *)
(* the upload is over, to the conversation that is open then.              *)
(*                                                                         *)
(* Every loginSuccess creates a new uploader for pictures and one for      *)
(* attachments; each has one message object that all its files share.      *)
(***************************************************************************)
EXTENDS UploadEngine

CONSTANTS
  Users,     \* the conversations the agent can open
  None,      \* no conversation is open
  NoMail,    \* no message
  MaxGens,   \* bound on loginSuccess events
  MaxMoves   \* bound on the conversations the agent opens or closes

Kinds == {"image", "attachment"}

ASSUME UploadsAssumption ==
  /\ None \notin Users
  /\ Uploaders \subseteq Kinds \X (1 .. MaxGens)
  /\ {MaxGens, MaxMoves} \subseteq Nat

\* The parts of the message that differ: its id belongs to the file it was made for, or is
\* the one the message object was made with.
Mails == [id : Files \cup {NoFile}, to : Users \cup {None}, name : Files \cup {NoFile}, url : Files]

ASSUME MailAssumption == NoMail \notin Mails

VARIABLES
  gen,        \* loginSuccess events so far; the agent picks in the newest uploaders
  sock,       \* the state of _ws
  dest,       \* destJid
  moves,      \* number of conversations opened or closed
  msgId,      \* msgId[u]: msg.id of the uploader's message
  msgName,    \* msgName[u]: msg.content.filename
  thumb,      \* files whose preview is being made
  sent,       \* sent[f]: the message that went out when f was uploaded
  chosen,     \* history: the conversation that was open when f was picked
  disturbed   \* history: files whose upload another click of the agent crossed

senderVars == <<msgId, msgName, thumb>>
envVars    == <<gen, sock, dest, moves>>
histVars   == <<chosen, disturbed>>
vars == <<engineVars, senderVars, sent, envVars, histVars>>

TypeOK ==
  /\ EngineTypeOK
  /\ gen \in 0 .. MaxGens
  /\ sock \in {"closed", "connecting", "open"}
  /\ dest \in Users \cup {None}
  /\ moves \in 0 .. MaxMoves
  /\ msgId \in [Uploaders -> Files \cup {NoFile}]
  /\ msgName \in [Uploaders -> Files \cup {NoFile}]
  /\ thumb \subseteq Files
  /\ sent \in [Files -> Mails \cup {NoMail}]
  /\ chosen \in [Files -> Users \cup {None}]
  /\ disturbed \subseteq Files

Init ==
  /\ EngineInit
  /\ gen = 0 /\ sock = "closed" /\ dest = None /\ moves = 0
  /\ msgId = [u \in Uploaders |-> NoFile] /\ msgName = [u \in Uploaders |-> NoFile]
  /\ thumb = {}
  /\ sent = [f \in Files |-> NoMail]
  /\ chosen = [f \in Files |-> None]
  /\ disturbed = {}

\* f is picked and its upload is not over.
Open(f) == status[f] \in {"inited", "queued", "progress"}

-----------------------------------------------------------------------------
(* The socket and the agent. *)

\* The socket breaks, or the attempt to connect fails.
SocketCloses ==
  /\ sock # "closed"
  /\ sock' = "closed"
  /\ UNCHANGED <<engineVars, senderVars, sent, gen, dest, moves, histVars>>

\* The page connects, or reconnects two seconds after it lost the connection.
SocketConnects ==
  /\ sock = "closed"
  /\ gen < MaxGens
  /\ sock' = "connecting"
  /\ UNCHANGED <<engineVars, senderVars, sent, gen, dest, moves, histVars>>

\* The connection is made and loginSuccess arrives: two new uploaders.  Bound: MaxGens.
LoginSuccess ==
  /\ sock = "connecting"
  /\ gen < MaxGens
  /\ sock' = "open"
  /\ gen' = gen + 1
  /\ UNCHANGED <<engineVars, senderVars, sent, dest, moves, histVars>>

\* The agent opens another conversation, or the open one is closed.  Bound: MaxMoves.
Move(w) ==
  /\ moves < MaxMoves
  /\ w # dest
  /\ moves' = moves + 1
  /\ dest' = w
  /\ disturbed' = disturbed \cup {f \in Files : Open(f)}
  /\ UNCHANGED <<engineVars, senderVars, sent, gen, sock, chosen>>

\* Mutant: the message keeps its id.
PreviewedSameId(u, f) ==
  /\ msgName' = IF u[1] = "attachment" THEN [msgName EXCEPT ![u] = f] ELSE msgName
  /\ disturbed' = disturbed \cup {g \in Files \ {f} : Open(g) /\ InQueue(u, g)}
  /\ UNCHANGED msgId

\* The thumb callback: the message gets a new id (and an attachment its name), whatever
\* file it was made for before.
Previewed(u, f) ==
  /\ msgId' = [msgId EXCEPT ![u] = f]
  /\ msgName' = IF u[1] = "attachment" THEN [msgName EXCEPT ![u] = f] ELSE msgName
  /\ disturbed' = disturbed \cup {g \in Files \ {f} : Open(g) /\ InQueue(u, g)}

\* The agent picks an attachment; its preview is shown at once.
PickAttachment(u, f) ==
  /\ u = <<"attachment", gen>> /\ dest # None
  /\ AddFile(u, f)
  /\ Previewed(u, f)
  /\ chosen' = [chosen EXCEPT ![f] = dest]
  /\ UNCHANGED <<thumb, sent, envVars>>

\* The agent picks a picture; makeThumb starts to draw its preview.
PickImage(u, f) ==
  /\ u = <<"image", gen>> /\ dest # None
  /\ AddFile(u, f)
  /\ thumb' = thumb \cup {f}
  /\ chosen' = [chosen EXCEPT ![f] = dest]
  /\ UNCHANGED <<msgId, msgName, disturbed, sent, envVars>>

\* The preview of a picture is drawn and shown.
ThumbMade(u, f) ==
  /\ f \in thumb /\ InQueue(u, f)
  /\ thumb' = thumb \ {f}
  /\ Previewed(u, f)
  /\ UNCHANGED <<engineVars, sent, envVars, chosen>>

\* The picture cannot be drawn: no preview, no new id.
ThumbFails(f) ==
  /\ f \in thumb
  /\ thumb' = thumb \ {f}
  /\ disturbed' = disturbed \cup {f}
  /\ UNCHANGED <<engineVars, msgId, msgName, sent, envVars, chosen>>

-----------------------------------------------------------------------------
(* The end of an upload. *)

\* The message as it is when the file's upload is over.
MailOf(u, f) ==
  [id |-> msgId[u], to |-> dest, name |-> msgName[u], url |-> f]

\* The success callback with an open socket; then the browser stores the message.
Sends(u, f) ==
  /\ sock = "open"
  /\ FinishFile(u, f)
  /\ sent' = [sent EXCEPT ![f] = MailOf(u, f)]

\* With a closed socket, send drops the message and the callback goes on.
SendsNothing(u, f) ==
  /\ sock = "closed"
  /\ FinishFile(u, f)
  /\ UNCHANGED sent

\* The storage of the browser is full (messages hold their previews as data URLs): storage
\* throws after the message has gone out, or after a closed socket has dropped it.
StoreThrows(u, f) ==
  /\ sock \in {"open", "closed"}
  /\ FinishThrows(u, f)
  /\ sent' = IF sock = "open" THEN [sent EXCEPT ![f] = MailOf(u, f)] ELSE sent

\* While the socket is connecting, send throws.
SendThrows(u, f) ==
  /\ sock = "connecting"
  /\ FinishThrows(u, f)
  /\ UNCHANGED sent

\* The response says that the server has refused the file: an alert, no message.
Refused(u, f) ==
  /\ FinishFile(u, f)
  /\ UNCHANGED sent

\* The handler of uploadSuccess; a picture without its own preview yet has no own id.
Success(u, f) ==
  /\ \/ Sends(u, f) \/ SendsNothing(u, f) \/ StoreThrows(u, f) \/ SendThrows(u, f)
     \/ Refused(u, f)
  /\ disturbed' = IF f \in thumb THEN disturbed \cup {f} ELSE disturbed
  /\ UNCHANGED <<senderVars, envVars, chosen>>

\* Only the picture widget can fail to prepare a file, and both uploaders have it: the
\* attachments' option resize: false leaves the default compression on.
Engine(u) ==
  /\ \/ StartUpload(u) \/ TickPrepares(u) \/ TickIdles(u) \/ StartSend(u) \/ PrepareFails(u)
     \/ \E f \in Files : DoSend(u, f) \/ Loaded(u, f) \/ SendFails(u, f)
  /\ UNCHANGED <<senderVars, sent, envVars, histVars>>

Next ==
  \/ SocketCloses \/ SocketConnects \/ LoginSuccess
  \/ \E w \in Users \cup {None} : Move(w)
  \/ \E f \in Files : ThumbFails(f)
  \/ \E u \in Uploaders, f \in Files : PickAttachment(u, f) \/ PickImage(u, f) \/ ThumbMade(u, f)
  \/ \E u \in Uploaders, f \in Files : Success(u, f)
  \/ \E u \in Uploaders : Engine(u)

Spec == Init /\ [][Next]_vars

\* While a timer, an answer or a callback of an uploader is due, one of them comes: timers
\* fire, a request is answered or times out after two minutes, and the browser gets done
\* with a picture.  Nothing is assumed of the agent, the socket and the previews.
Works ==
  /\ UNCHANGED <<envVars, thumb>>
  /\ \E u \in Uploaders : Engine(u) \/ \E f \in pool[u] : Success(u, f)

Fairness == WF_vars(Works)

FairSpec == Spec /\ Fairness

-----------------------------------------------------------------------------
(* Properties. *)

\* A file whose upload nothing crossed (no other conversation opened, no other preview
\* of the same uploader, its own preview in time) is sent as one message to the
\* conversation it was picked in, under its own id, name and address.
UndisturbedUploadArrives ==
  \A f \in Files :
    sent[f] # NoMail /\ f \notin disturbed =>
      /\ sent[f].url = f /\ sent[f].id = f /\ sent[f].to = chosen[f]
      /\ sent[f].name \in {f, NoFile}

\* Every thread of the uploader is held by a block that will never leave the pool.
Stuck(u) == Cardinality({f \in pool[u] : step[f] = "wedged"}) = Threads

\* Every picked file is uploaded or fails, unless as many uploads of its uploader as there
\* are threads ended in an error of the success callback (while the socket was connecting,
\* or with a full storage): fewer of them must not hold up the others.
EveryFileSettles ==
  \A f \in Files :
    status[f] # "none" ~> \/ status[f] \in {"complete", "error"}
                         \/ \E u \in Uploaders : InQueue(u, f) /\ Stuck(u)

\* What the agent sees of the file.
Phase ==
  [f \in Files |->
     CASE status[f] = "none" -> "none"
       [] status[f] \in {"inited", "queued"} -> "waiting"
       [] status[f] = "progress" -> "sending"
       [] status[f] = "error" -> "failed"
       [] OTHER -> IF sent[f] # NoMail THEN "sent" ELSE "unsent"]

Transfers == INSTANCE FileTransfers WITH line <- queue, phase <- Phase

\* The uploaders implement FileTransfers: files start in the order they were picked, at
\* most Threads of an uploader at a time, and each has one outcome, once.
ImplementsTransfers == Transfers!Spec

=============================================================================
