------------------------- MODULE ChatUploadsProofs -------------------------
(***************************************************************************)
(* Proofs of the safety properties of ChatUploads, and of the safety part  *)
(* of what it implements, for any files, conversations, uploaders, number  *)
(* of threads and bounds.                                                  *)
(***************************************************************************)
EXTENDS ChatUploads, UploadEngineProofs

\* A step of the page is a step of the upload queues, or leaves them alone.
LEMMA StepsAreEngineSteps == [Next]_vars => EngineStep
<1>1. ASSUME NEW u \in Uploaders, NEW f \in Files, PickAttachment(u, f) \/ PickImage(u, f)
      PROVE  EngineStep
  BY <1>1 DEF PickAttachment, PickImage, EngineStep, FileStep
<1>2. ASSUME NEW u \in Uploaders, NEW f \in Files, Success(u, f) PROVE EngineStep
  BY <1>2 DEF Success, Sends, SendsNothing, StoreThrows, SendThrows, Refused, EngineStep, FileStep
<1>3. ASSUME NEW u \in Uploaders, Engine(u) PROVE EngineStep
  BY <1>3 DEF Engine, EngineStep, FileStep, LoopStep
<1>4. ASSUME UNCHANGED engineVars PROVE EngineStep
  BY <1>4 DEF EngineStep
<1>5. CASE SocketCloses \/ SocketConnects \/ LoginSuccess
  BY <1>4, <1>5 DEF SocketCloses, SocketConnects, LoginSuccess
<1>6. ASSUME NEW w \in Users \cup {None}, Move(w) PROVE EngineStep
  BY <1>4, <1>6 DEF Move
<1>7. ASSUME NEW u \in Uploaders, NEW f \in Files, ThumbMade(u, f) PROVE EngineStep
  BY <1>4, <1>7 DEF ThumbMade
<1>8. ASSUME NEW f \in Files, ThumbFails(f) PROVE EngineStep
  BY <1>4, <1>8 DEF ThumbFails
<1>9. UNCHANGED vars => EngineStep
  BY <1>4 DEF vars
<1> QED
  BY <1>1, <1>2, <1>3, <1>5, <1>6, <1>7, <1>8, <1>9 DEF Next

\* The queues keep their invariant whatever the page does.
LEMMA EngineAlways == Spec => []EngineInv
<1>1. Init => EngineInv
  BY EngineInductive DEF Init
<1>2. EngineInv /\ [Next]_vars => EngineInv'
  BY EngineInductive, StepsAreEngineSteps
<1> QED
  BY <1>1, <1>2, PTL DEF Spec

\* The number of blocks in transfer never exceeds opts.threads.
THEOREM PoolIsBounded == Spec => []AtMostThreads
<1>1. EngineInv => AtMostThreads
  BY RoomSuffices DEF EngineInv
<1> QED
  BY <1>1, EngineAlways, PTL

\* The loop of an uploader never sleeps while one of its files waits.
THEOREM NoFileIsForgotten == Spec => []NoFileForgotten
<1>1. EngineInv => NoFileForgotten
  BY AwakeSuffices DEF EngineInv
<1> QED
  BY <1>1, EngineAlways, PTL

-----------------------------------------------------------------------------
\* The types of the page's own state.
SenderTypeOK ==
  /\ gen \in 0 .. MaxGens
  /\ sock \in {"closed", "connecting", "open"}
  /\ dest \in Users \cup {None}
  /\ moves \in 0 .. MaxMoves
  /\ msgId \in [Uploaders -> Files \cup {NoFile}]
  /\ msgName \in [Uploaders -> Files \cup {NoFile}]
  /\ thumb \subseteq Files
  /\ sent \in [Files -> Mails \cup {NoMail}]
  /\ chosen \in [Files -> Users \cup {None}]
  /\ disturbed \subseteq Files

\* The message of a finished upload is a message.
LEMMA MailType ==
  ASSUME SenderTypeOK, NEW u \in Uploaders, NEW f \in Files
  PROVE  MailOf(u, f) \in Mails /\ MailOf(u, f) # NoMail
<1>1. MailOf(u, f) \in Mails
  BY DEF SenderTypeOK, MailOf, Mails
<1> QED
  BY <1>1, MailAssumption

\* Every step of the page keeps these types.
LEMMA SenderTypeInductive ==
  /\ Init => SenderTypeOK
  /\ SenderTypeOK /\ [Next]_vars => SenderTypeOK'
<1>1. Init => SenderTypeOK
  BY UploadsAssumption DEF Init, SenderTypeOK
<1>2. ASSUME SenderTypeOK, [Next]_vars PROVE SenderTypeOK'
  <2> USE UploadsAssumption
  <2>1. CASE SocketCloses \/ SocketConnects \/ LoginSuccess
    BY <1>2, <2>1 DEF SenderTypeOK, SocketCloses, SocketConnects, LoginSuccess, senderVars,
      histVars
  <2>2. ASSUME NEW w \in Users \cup {None}, Move(w) PROVE SenderTypeOK'
    BY <1>2, <2>2 DEF SenderTypeOK, Move, senderVars
  <2>3. ASSUME NEW u \in Uploaders, NEW f \in Files, PickAttachment(u, f) \/ PickImage(u, f)
        PROVE  SenderTypeOK'
    BY <1>2, <2>3 DEF SenderTypeOK, PickAttachment, PickImage, Previewed, envVars
  <2>4. ASSUME NEW u \in Uploaders, NEW f \in Files, ThumbMade(u, f)
        PROVE  SenderTypeOK'
    BY <1>2, <2>4 DEF SenderTypeOK, ThumbMade, Previewed, envVars
  <2>5. ASSUME NEW f \in Files, ThumbFails(f) PROVE SenderTypeOK'
    BY <1>2, <2>5 DEF SenderTypeOK, ThumbFails, envVars
  <2>6. ASSUME NEW u \in Uploaders, NEW f \in Files, Success(u, f) PROVE SenderTypeOK'
    <3>1. sent' = sent \/ sent' = [sent EXCEPT ![f] = MailOf(u, f)]
      BY <2>6 DEF Success, Sends, SendsNothing, StoreThrows, SendThrows, Refused
    <3>2. sent' \in [Files -> Mails \cup {NoMail}]
      BY <1>2, <3>1, MailType DEF SenderTypeOK
    <3> QED
      BY <1>2, <2>6, <3>2 DEF SenderTypeOK, Success, senderVars, envVars
  <2>7. ASSUME NEW u \in Uploaders, Engine(u) PROVE SenderTypeOK'
    BY <1>2, <2>7 DEF SenderTypeOK, Engine, senderVars, envVars, histVars
  <2>8. CASE UNCHANGED vars
    BY <1>2, <2>8 DEF SenderTypeOK, vars, senderVars, envVars, histVars
  <2> QED
    BY <1>2, <2>1, <2>2, <2>3, <2>4, <2>5, <2>6, <2>7, <2>8 DEF Next
<1> QED
  BY <1>1, <1>2

\* The page's own state has these types in every reachable state.
LEMMA SenderTypeAlways == Spec => []SenderTypeOK
  BY SenderTypeInductive, PTL DEF Spec

\* Type correctness, and with it: a file has a block in a pool exactly while its transfer
\* is under way or wedged.
THEOREM TypeCorrect == Spec => []TypeOK
<1>1. EngineInv /\ SenderTypeOK => TypeOK
  BY DEF EngineInv, PlaceInv, SenderTypeOK, TypeOK
<1> QED
  BY <1>1, EngineAlways, SenderTypeAlways, PTL

-----------------------------------------------------------------------------
\* A file whose upload is not over has no message on the socket.
UnfinishedUnsent == \A f \in Files : Open(f) \/ status[f] = "none" => sent[f] = NoMail

\* Only the callback of a finished upload sends, and a file is picked once.
LEMMA UnsentInductive ==
  /\ Init => UnfinishedUnsent
  /\ EngineInv /\ SenderTypeOK /\ UnfinishedUnsent /\ [Next]_vars => UnfinishedUnsent'
<1>1. Init => UnfinishedUnsent
  BY DEF Init, UnfinishedUnsent
<1>2. ASSUME EngineInv, SenderTypeOK, UnfinishedUnsent, [Next]_vars PROVE UnfinishedUnsent'
  <2>0. /\ status \in [Files -> {"none", "inited", "queued", "progress", "complete", "error"}]
        /\ queue \in [Uploaders -> Seq(Files)]
        /\ sent \in [Files -> Mails \cup {NoMail}]
    BY <1>2 DEF EngineInv, PlaceInv, EngineTypeOK, SenderTypeOK
  <2>1. ASSUME UNCHANGED <<status, sent>> PROVE UnfinishedUnsent'
    BY <1>2, <2>1 DEF UnfinishedUnsent, Open
  <2>2. ASSUME NEW f \in Files, NEW s \in {"inited", "queued", "progress", "complete", "error"},
               Open(f) \/ status[f] = "none", status' = [status EXCEPT ![f] = s], UNCHANGED sent
        PROVE  UnfinishedUnsent'
    BY <1>2, <2>0, <2>2 DEF UnfinishedUnsent, Open
  <2>3. ASSUME NEW u \in Uploaders, NEW f \in Files, Success(u, f) PROVE UnfinishedUnsent'
    <3>1. /\ status' = [status EXCEPT ![f] = "complete"]
          /\ sent' = sent \/ sent' = [sent EXCEPT ![f] = MailOf(u, f)]
      BY <2>3 DEF Success, Sends, SendsNothing, StoreThrows, SendThrows, Refused, FinishFile,
        FinishThrows, SetStatus
    <3> QED
      BY <1>2, <2>0, <3>1 DEF UnfinishedUnsent, Open
  <2>4. ASSUME NEW u \in Uploaders, NEW f \in Files, PickAttachment(u, f) \/ PickImage(u, f)
        PROVE  UnfinishedUnsent'
    <3>1. status[f] = "none" /\ status' = [status EXCEPT ![f] = "inited"] /\ UNCHANGED sent
      BY <2>4 DEF PickAttachment, PickImage, AddFile, SetStatus
    <3> QED
      BY <2>2, <3>1
  <2>5. ASSUME NEW u \in Uploaders, Engine(u) PROVE UnfinishedUnsent'
    <3>0. UNCHANGED sent
      BY <2>5 DEF Engine
    <3>1. CASE StartUpload(u)
      BY <1>2, <3>0, <3>1 DEF StartUpload, UnfinishedUnsent, Open
    <3>2. CASE TickPrepares(u)
      <4>1. PICK i \in DOMAIN queue[u] :
              /\ status[queue[u][i]] = "queued"
              /\ status' = [status EXCEPT ![queue[u][i]] = "progress"]
        BY <3>2 DEF TickPrepares, Fetched, SetStatus
      <4>2. queue[u][i] \in Files
        BY <2>0, <4>1
      <4> QED
        BY <2>2, <3>0, <4>1, <4>2 DEF Open
    <3>3. CASE PrepareFails(u)
      <4>1. /\ status' = [status EXCEPT ![preparing[u]] = "error"]
            /\ preparing[u] # NoFile
        BY <3>3 DEF PrepareFails, SetStatus
      <4>2. preparing[u] \in Files /\ status[preparing[u]] = "progress"
        BY <1>2, <4>1 DEF EngineInv, PlaceInv, EngineTypeOK, Placed
      <4> QED
        BY <2>2, <3>0, <4>1, <4>2 DEF Open
    <3>4. ASSUME NEW f \in Files, SendFails(u, f) PROVE UnfinishedUnsent'
      <4>1. status' = [status EXCEPT ![f] = "error"] /\ step[f] = "sending"
        BY <3>4 DEF SendFails, SetStatus
      <4>2. status[f] = "progress"
        BY <1>2, <4>1 DEF EngineInv, PlaceInv, EngineTypeOK
      <4> QED
        BY <2>2, <3>0, <4>1, <4>2 DEF Open
    <3> QED
      BY <2>1, <2>5, <3>0, <3>1, <3>2, <3>3, <3>4
      DEF Engine, TickIdles, StartSend, DoSend, Loaded
  <2>6. CASE \/ SocketCloses \/ SocketConnects \/ LoginSuccess
             \/ \E w \in Users \cup {None} : Move(w)
             \/ \E f \in Files : ThumbFails(f)
             \/ \E u \in Uploaders, f \in Files : ThumbMade(u, f)
             \/ UNCHANGED vars
    BY <2>1, <2>6 DEF SocketCloses, SocketConnects, LoginSuccess, Move, ThumbFails, ThumbMade,
      vars, engineVars
  <2> QED
    BY <1>2, <2>3, <2>4, <2>5, <2>6 DEF Next
<1> QED
  BY <1>1, <1>2

-----------------------------------------------------------------------------
\* While the upload of a file that nothing crossed is under way, the message of its
\* uploader is the file's own as soon as the preview is made.
OwnMessage ==
  \A u \in Uploaders, f \in Files :
    InQueue(u, f) /\ Open(f) /\ f \notin disturbed =>
      /\ chosen[f] = dest
      /\ f \notin thumb => msgId[u] = f /\ msgName[u] \in {f, NoFile}

\* The message of an uploader for pictures never has a name.
NamesOfAttachments == \A u \in Uploaders : u[1] # "attachment" => msgName[u] = NoFile

ArriveInv == OwnMessage /\ NamesOfAttachments /\ UndisturbedUploadArrives

\* A click that would put another file's id, or another conversation, into the message
\* counts every upload it crosses as disturbed.
LEMMA ArriveInductive ==
  /\ Init => ArriveInv
  /\ EngineInv /\ SenderTypeOK /\ UnfinishedUnsent /\ ArriveInv /\ [Next]_vars => ArriveInv'
<1>1. ASSUME Init PROVE ArriveInv
  <2>1. \A f \in Files : ~Open(f) /\ sent[f] = NoMail
    BY <1>1 DEF Init, EngineInit, Open
  <2>2. NamesOfAttachments
    BY <1>1 DEF Init, NamesOfAttachments
  <2> QED
    BY <2>1, <2>2 DEF ArriveInv, OwnMessage, UndisturbedUploadArrives
<1>2. ASSUME EngineInv, SenderTypeOK, UnfinishedUnsent, ArriveInv, [Next]_vars
      PROVE  ArriveInv'
  <2>0. /\ status \in [Files -> {"none", "inited", "queued", "progress", "complete", "error"}]
        /\ queue \in [Uploaders -> Seq(Files)]
        /\ msgId \in [Uploaders -> Files \cup {NoFile}]
        /\ msgName \in [Uploaders -> Files \cup {NoFile}]
        /\ chosen \in [Files -> Users \cup {None}]
        /\ sent \in [Files -> Mails \cup {NoMail}]
        /\ disturbed \subseteq Files
    BY <1>2 DEF EngineInv, PlaceInv, EngineTypeOK, SenderTypeOK
  <2>1. ASSUME UNCHANGED <<queue, senderVars, chosen, dest, sent>>,
               disturbed \subseteq disturbed',
               \A f \in Files : Open(f)' => Open(f)
        PROVE  ArriveInv'
    <3>1. OwnMessage'
      BY <1>2, <2>1, QueueStays DEF ArriveInv, OwnMessage, senderVars
    <3>2. NamesOfAttachments' /\ UndisturbedUploadArrives'
      BY <1>2, <2>1 DEF ArriveInv, NamesOfAttachments, UndisturbedUploadArrives, senderVars
    <3> QED
      BY <3>1, <3>2 DEF ArriveInv
  <2>2. ASSUME NEW w \in Users \cup {None}, Move(w) PROVE ArriveInv'
    <3>1. /\ disturbed' = disturbed \cup {f \in Files : Open(f)}
          /\ UNCHANGED <<engineVars, msgId, msgName, thumb, sent, chosen>>
      BY <2>2 DEF Move, senderVars
    <3>2. \A f \in Files : Open(f)' => f \in disturbed'
      BY <3>1 DEF Open, engineVars
    <3>3. OwnMessage'
      BY <3>2 DEF OwnMessage
    <3>4. NamesOfAttachments' /\ UndisturbedUploadArrives'
      BY <1>2, <3>1 DEF ArriveInv, NamesOfAttachments, UndisturbedUploadArrives
    <3> QED
      BY <3>3, <3>4 DEF ArriveInv
  <2>3. ASSUME NEW u \in Uploaders, NEW f \in Files, PickAttachment(u, f) \/ PickImage(u, f)
        PROVE  ArriveInv'
    <3>1. /\ status[f] = "none" /\ status' = [status EXCEPT ![f] = "inited"]
          /\ queue' = [queue EXCEPT ![u] = Append(queue[u], f)]
          /\ chosen' = [chosen EXCEPT ![f] = dest]
          /\ UNCHANGED <<dest, sent>>
          /\ disturbed \subseteq disturbed'
          /\ thumb \subseteq thumb' /\ thumb' \subseteq thumb \cup {f}
      BY <2>3 DEF PickAttachment, PickImage, AddFile, SetStatus, Previewed, envVars
    <3>2. \A v \in Uploaders : \A g : InQueue(v, g)' <=> InQueue(v, g) \/ (v = u /\ g = f)
      BY <2>0, <3>1, QueueGrows
    <3>3. \A g \in Files : g # f => (Open(g)' <=> Open(g)) /\ chosen'[g] = chosen[g]
      BY <2>0, <3>1 DEF Open
    <3>4. sent[f] = NoMail
      BY <1>2, <3>1 DEF UnfinishedUnsent
    <3>5. \A v \in Uploaders : ~InQueue(v, f)
      BY <1>2, <3>1 DEF EngineInv, PlaceInv, Placed
    <3>6. \/ /\ u[1] = "attachment"
             /\ msgId' = [msgId EXCEPT ![u] = f] /\ msgName' = [msgName EXCEPT ![u] = f]
             /\ disturbed' = disturbed \cup {g \in Files \ {f} : Open(g) /\ InQueue(u, g)}
          \/ /\ f \in thumb'
             /\ UNCHANGED <<msgId, msgName>>
      BY <2>3 DEF PickAttachment, PickImage, Previewed
    <3>7. ASSUME NEW v \in Uploaders, NEW g \in Files, InQueue(v, g)', Open(g)', g \notin disturbed'
          PROVE  /\ chosen'[g] = dest'
                 /\ g \notin thumb' => msgId'[v] = g /\ msgName'[v] \in {g, NoFile}
      <4>1. CASE g = f
        <5>1. v = u
          BY <3>2, <3>5, <3>7, <4>1
        <5> QED
          BY <2>0, <3>1, <3>6, <4>1, <5>1
      <4>2. CASE g # f
        <5>1. InQueue(v, g) /\ Open(g) /\ g \notin disturbed
          BY <3>1, <3>2, <3>3, <3>7, <4>2
        <5>2. /\ chosen[g] = dest
              /\ g \notin thumb => msgId[v] = g /\ msgName[v] \in {g, NoFile}
          BY <1>2, <5>1 DEF ArriveInv, OwnMessage
        <5>3. UNCHANGED <<msgId, msgName>> \/ v # u
          BY <3>6, <3>7, <4>2, <5>1
        <5>4. msgId'[v] = msgId[v] /\ msgName'[v] = msgName[v]
          BY <2>0, <3>6, <5>3
        <5> QED
          BY <3>1, <3>3, <4>2, <5>2, <5>4
      <4> QED
        BY <4>1, <4>2
    <3>8. NamesOfAttachments'
      BY <1>2, <2>0, <3>6 DEF ArriveInv, NamesOfAttachments
    <3>9. UndisturbedUploadArrives'
      BY <1>2, <3>1, <3>3, <3>4 DEF ArriveInv, UndisturbedUploadArrives
    <3> QED
      BY <3>7, <3>8, <3>9 DEF ArriveInv, OwnMessage
  <2>4. ASSUME NEW u \in Uploaders, NEW f \in Files, ThumbMade(u, f) PROVE ArriveInv'
    <3>1. /\ InQueue(u, f)
          /\ thumb' = thumb \ {f}
          /\ msgId' = [msgId EXCEPT ![u] = f]
          /\ msgName' = IF u[1] = "attachment" THEN [msgName EXCEPT ![u] = f] ELSE msgName
          /\ disturbed' = disturbed \cup {g \in Files \ {f} : Open(g) /\ InQueue(u, g)}
          /\ UNCHANGED <<status, queue, dest, sent, chosen>>
      BY <2>4 DEF ThumbMade, Previewed, engineVars, envVars
    <3>2. ASSUME NEW v \in Uploaders, NEW g \in Files, InQueue(v, g)', Open(g)', g \notin disturbed'
          PROVE  /\ chosen'[g] = dest'
                 /\ g \notin thumb' => msgId'[v] = g /\ msgName'[v] \in {g, NoFile}
      <4>1. InQueue(v, g) /\ Open(g) /\ g \notin disturbed
        BY <3>1, <3>2, QueueStays DEF Open
      <4>2. /\ chosen[g] = dest
            /\ g \notin thumb => msgId[v] = g /\ msgName[v] \in {g, NoFile}
        BY <1>2, <4>1 DEF ArriveInv, OwnMessage
      <4>3. CASE g = f
        <5>1. v = u
          BY <1>2, <3>1, <4>1, <4>3 DEF EngineInv, PlaceInv, Placed
        <5>2. msgId'[u] = f /\ msgName'[u] \in {f, NoFile}
          BY <1>2, <2>0, <3>1 DEF ArriveInv, NamesOfAttachments
        <5> QED
          BY <3>1, <4>2, <4>3, <5>1, <5>2
      <4>4. CASE g # f
        <5>1. v # u
          BY <3>1, <3>2, <4>1, <4>4
        <5>2. msgId'[v] = msgId[v] /\ msgName'[v] = msgName[v]
          BY <2>0, <3>1, <5>1
        <5> QED
          BY <3>1, <4>2, <4>4, <5>2
      <4> QED
        BY <4>3, <4>4
    <3>3. NamesOfAttachments'
      BY <1>2, <2>0, <3>1 DEF ArriveInv, NamesOfAttachments
    <3>4. UndisturbedUploadArrives'
      BY <1>2, <3>1 DEF ArriveInv, UndisturbedUploadArrives
    <3> QED
      BY <3>2, <3>3, <3>4 DEF ArriveInv, OwnMessage
  <2>5. ASSUME NEW f \in Files, ThumbFails(f) PROVE ArriveInv'
    <3>1. /\ thumb' = thumb \ {f} /\ disturbed' = disturbed \cup {f}
          /\ UNCHANGED <<status, queue, dest, msgId, msgName, sent, chosen>>
      BY <2>5 DEF ThumbFails, engineVars, envVars
    <3>2. OwnMessage'
      BY <1>2, <3>1, QueueStays DEF ArriveInv, OwnMessage, Open
    <3>3. NamesOfAttachments' /\ UndisturbedUploadArrives'
      BY <1>2, <3>1 DEF ArriveInv, NamesOfAttachments, UndisturbedUploadArrives
    <3> QED
      BY <3>2, <3>3 DEF ArriveInv
  <2>6. ASSUME NEW u \in Uploaders, NEW f \in Files, Success(u, f) PROVE ArriveInv'
    <3>1. /\ f \in pool[u] /\ step[f] = "answered"
          /\ status' = [status EXCEPT ![f] = "complete"]
          /\ UNCHANGED queue
      BY <2>6 DEF Success, Sends, SendsNothing, StoreThrows, SendThrows, Refused, FinishFile, FinishThrows,
        SetStatus
    <3>2. /\ disturbed' = IF f \in thumb THEN disturbed \cup {f} ELSE disturbed
          /\ UNCHANGED <<msgId, msgName, thumb, dest, chosen>>
          /\ sent' = sent \/ sent' = [sent EXCEPT ![f] = MailOf(u, f)]
      BY <2>6 DEF Success, Sends, SendsNothing, StoreThrows, SendThrows, Refused, senderVars, envVars
    <3>3. \A g \in Files : Open(g)' => Open(g)
      BY <2>0, <3>1 DEF Open
    <3>4. CASE sent' = sent
      BY <2>1, <3>1, <3>2, <3>3, <3>4 DEF senderVars
    <3>5. CASE sent' = [sent EXCEPT ![f] = MailOf(u, f)]
      <4>1. InQueue(u, f) /\ Open(f)
        BY <1>2, <3>1 DEF EngineInv, PlaceInv, EngineTypeOK, Placed, Open
      <4>2. f \notin disturbed' =>
              /\ chosen[f] = dest /\ msgId[u] = f /\ msgName[u] \in {f, NoFile}
        BY <1>2, <3>2, <4>1 DEF ArriveInv, OwnMessage
      <4>3. MailOf(u, f) = [id |-> msgId[u], to |-> dest, name |-> msgName[u], url |-> f]
        BY DEF MailOf
      <4>4. UndisturbedUploadArrives'
        <5> SUFFICES ASSUME NEW g \in Files, sent'[g] # NoMail, g \notin disturbed'
                     PROVE  /\ sent'[g].url = g /\ sent'[g].id = g /\ sent'[g].to = chosen'[g]
                            /\ sent'[g].name \in {g, NoFile}
          BY DEF UndisturbedUploadArrives
        <5>1. CASE g = f
          BY <2>0, <3>2, <3>5, <4>2, <4>3, <5>1
        <5>2. CASE g # f
          BY <1>2, <2>0, <3>2, <3>5, <5>2 DEF ArriveInv, UndisturbedUploadArrives
        <5> QED
          BY <5>1, <5>2
      <4>5. OwnMessage' /\ NamesOfAttachments'
        BY <1>2, <3>1, <3>2, <3>3, QueueStays DEF ArriveInv, OwnMessage, NamesOfAttachments
      <4> QED
        BY <4>4, <4>5 DEF ArriveInv
    <3> QED
      BY <3>2, <3>4, <3>5
  <2>7. ASSUME NEW u \in Uploaders, Engine(u) PROVE ArriveInv'
    <3>1. UNCHANGED <<queue, senderVars, chosen, dest, sent, disturbed>>
      BY <2>7 DEF Engine, StartUpload, TickPrepares, TickIdles, StartSend, PrepareFails, DoSend,
        Loaded, SendFails, envVars, histVars
    <3>2. ASSUME NEW g \in Files, Open(g)' PROVE Open(g)
      <4>1. CASE StartUpload(u)
        BY <3>2, <4>1 DEF StartUpload, Open
      <4>2. CASE TickPrepares(u)
        <5>1. PICK i \in DOMAIN queue[u] :
                /\ status[queue[u][i]] = "queued"
                /\ status' = [status EXCEPT ![queue[u][i]] = "progress"]
          BY <4>2 DEF TickPrepares, Fetched, SetStatus
        <5> QED
          BY <2>0, <3>2, <5>1 DEF Open
      <4>3. CASE PrepareFails(u)
        BY <2>0, <3>2, <4>3 DEF PrepareFails, SetStatus, Open
      <4>4. ASSUME NEW f \in Files, SendFails(u, f) PROVE Open(g)
        BY <2>0, <3>2, <4>4 DEF SendFails, SetStatus, Open
      <4>5. CASE UNCHANGED status
        BY <3>2, <4>5 DEF Open
      <4> QED
        BY <2>7, <4>1, <4>2, <4>3, <4>4, <4>5 DEF Engine, TickIdles, StartSend, DoSend, Loaded
    <3> QED
      BY <2>1, <3>1, <3>2
  <2>8. CASE SocketCloses \/ SocketConnects \/ LoginSuccess
    <3>1. UNCHANGED <<status, queue, senderVars, chosen, dest, sent, disturbed>>
      BY <2>8 DEF SocketCloses, SocketConnects, LoginSuccess, engineVars, histVars
    <3> QED
      BY <2>1, <3>1 DEF Open
  <2>9. CASE UNCHANGED vars
    <3>1. UNCHANGED <<status, queue, senderVars, chosen, dest, sent, disturbed>>
      BY <2>9 DEF vars, engineVars, envVars, histVars
    <3> QED
      BY <2>1, <3>1 DEF Open
  <2> QED
    BY <1>2, <2>2, <2>3, <2>4, <2>5, <2>6, <2>7, <2>8, <2>9 DEF Next
<1> QED
  BY <1>1, <1>2

\* A file whose upload nothing crossed is sent to the conversation it was picked in, with
\* its own id, name and address.
THEOREM UndisturbedArrives == Spec => []UndisturbedUploadArrives
<1>1. ArriveInv => UndisturbedUploadArrives
  BY DEF ArriveInv
<1> QED
  BY <1>1, ArriveInductive, UnsentInductive, EngineAlways, SenderTypeAlways, PTL DEF Spec

-----------------------------------------------------------------------------
(* The refinement of FileTransfers, without its liveness. *)

\* What the phase of a file is, now and after a step.
LEMMA PhaseIs ==
  ASSUME NEW f \in Files
  PROVE  /\ status[f] = "none" => Phase[f] = "none"
         /\ status[f] \in {"inited", "queued"} => Phase[f] = "waiting"
         /\ status[f] = "progress" => Phase[f] = "sending"
         /\ status[f] = "error" => Phase[f] = "failed"
         /\ status[f] = "complete" => Phase[f] = IF sent[f] # NoMail THEN "sent" ELSE "unsent"
  BY DEF Phase

\* The same of the next state.
LEMMA PhaseWillBe ==
  ASSUME NEW f \in Files
  PROVE  /\ status'[f] \in {"inited", "queued"} => Phase'[f] = "waiting"
         /\ status'[f] = "progress" => Phase'[f] = "sending"
         /\ status'[f] = "error" => Phase'[f] = "failed"
         /\ status'[f] = "complete" => Phase'[f] = IF sent'[f] # NoMail THEN "sent" ELSE "unsent"
         /\ status'[f] = status[f] /\ sent'[f] = sent[f] => Phase'[f] = Phase[f]
  BY DEF Phase

\* A step that changes the status or the message of one file changes its phase only.
LEMMA PhaseOfOne ==
  ASSUME NEW f \in Files, NEW x, Phase'[f] = x,
         \A g \in Files : g # f => status'[g] = status[g] /\ sent'[g] = sent[g]
  PROVE  Phase' = [Phase EXCEPT ![f] = x]
<1>1. \A g \in Files : g # f => Phase'[g] = Phase[g]
  BY PhaseWillBe
<1>2. Phase = [g \in Files |-> Phase[g]] /\ Phase' = [g \in Files |-> Phase'[g]]
  BY Zenon DEF Phase
<1> QED
  BY <1>1, <1>2

\* FileTransfers counts with the same operator.
LEMMA SameCount == \A S : Transfers!Cardinality(S) = Cardinality(S)
  BY DEF Transfers!Cardinality, Cardinality

\* The files that are being sent are those in the pool and the one in preparation.
LEMMA SendingIsPool ==
  ASSUME EngineInv, NEW u \in Uploaders, preparing[u] = NoFile
  PROVE  Transfers!Sending(u) \subseteq pool[u]
<1> SUFFICES ASSUME NEW f \in Files, Phase[f] = "sending", InQueue(u, f) PROVE f \in pool[u]
  BY DEF Transfers!Sending, InQueue
<1>1. status[f] = "progress"
  BY PhaseIs DEF EngineInv, PlaceInv, EngineTypeOK
<1> QED
  BY <1>1, EngineAssumption DEF EngineInv, PlaceInv, Placed

\* The end of an upload is the one outcome of its file.
LEMMA EndsOnce ==
  ASSUME EngineInv, SenderTypeOK, NEW f \in Files, NEW s \in {"error", "complete"},
         status[f] = "progress", status' = [status EXCEPT ![f] = s], UNCHANGED queue,
         \A g \in Files : g # f => sent'[g] = sent[g]
  PROVE  Transfers!Next
<1>0. status \in [Files -> {"none", "inited", "queued", "progress", "complete", "error"}]
  BY DEF EngineInv, PlaceInv, EngineTypeOK
<1>1. Phase[f] = "sending"
  BY PhaseIs
<1>2. status'[f] = s /\ \A g \in Files : g # f => status'[g] = status[g]
  BY <1>0
<1>3. PICK outcome \in {"sent", "unsent", "failed"} : Phase'[f] = outcome
  BY <1>2, PhaseWillBe
<1>4. Phase' = [Phase EXCEPT ![f] = outcome]
  BY <1>2, <1>3, PhaseOfOne
<1>5. Transfers!End(f, outcome)
  BY <1>1, <1>4 DEF Transfers!End
<1> QED
  BY <1>3, <1>5 DEF Transfers!Next, Transfers!Outcomes

\* Every step of the page is a step of FileTransfers, or one it does not see.
LEMMA StepsRefine ==
  EngineInv /\ SenderTypeOK /\ [Next]_vars => [Transfers!Next]_<<queue, Phase>>
<1> SUFFICES ASSUME EngineInv, SenderTypeOK, [Next]_vars
             PROVE  Transfers!Next \/ UNCHANGED <<queue, Phase>>
  OBVIOUS
<1>0. /\ status \in [Files -> {"none", "inited", "queued", "progress", "complete", "error"}]
      /\ queue \in [Uploaders -> Seq(Files)]
      /\ sent \in [Files -> Mails \cup {NoMail}]
      /\ pool \in [Uploaders -> SUBSET Files]
  BY DEF EngineInv, PlaceInv, EngineTypeOK, SenderTypeOK
<1>1. ASSUME UNCHANGED <<status, queue, sent>> PROVE UNCHANGED <<queue, Phase>>
  BY <1>1 DEF Phase
<1>2. ASSUME NEW u \in Uploaders, NEW f \in Files, PickAttachment(u, f) \/ PickImage(u, f)
      PROVE  Transfers!Next
  <2>1. /\ status[f] = "none" /\ status' = [status EXCEPT ![f] = "inited"]
        /\ queue' = [queue EXCEPT ![u] = Append(queue[u], f)]
        /\ UNCHANGED sent
    BY <1>2 DEF PickAttachment, PickImage, AddFile, SetStatus
  <2>2. status'[f] = "inited" /\ \A g \in Files : g # f => status'[g] = status[g]
    BY <1>0, <2>1
  <2>3. Phase[f] = "none" /\ Phase'[f] = "waiting"
    BY <2>1, <2>2, PhaseIs, PhaseWillBe
  <2>4. Phase' = [Phase EXCEPT ![f] = "waiting"]
    BY <2>1, <2>2, <2>3, PhaseOfOne
  <2>5. Transfers!Pick(u, f)
    BY <2>1, <2>3, <2>4 DEF Transfers!Pick
  <2> QED
    BY <2>5 DEF Transfers!Next
<1>3. ASSUME NEW u \in Uploaders, NEW f \in Files, Success(u, f) PROVE Transfers!Next
  <2>1. /\ f \in pool[u] /\ step[f] = "answered"
        /\ status' = [status EXCEPT ![f] = "complete"]
        /\ UNCHANGED queue
    BY <1>3 DEF Success, Sends, SendsNothing, StoreThrows, SendThrows, Refused, FinishFile, FinishThrows,
      SetStatus
  <2>2. status[f] = "progress"
    BY <2>1 DEF EngineInv, PlaceInv, EngineTypeOK
  <2>3. sent' = sent \/ sent' = [sent EXCEPT ![f] = MailOf(u, f)]
    BY <1>3 DEF Success, Sends, SendsNothing, StoreThrows, SendThrows, Refused
  <2>4. \A g \in Files : g # f => sent'[g] = sent[g]
    BY <1>0, <2>3
  <2> QED
    BY <2>1, <2>2, <2>4, EndsOnce
<1>4. ASSUME NEW u \in Uploaders, TickPrepares(u), UNCHANGED sent PROVE Transfers!Next
  <2>1. PICK i \in DOMAIN queue[u] :
          /\ Fetched(u, i)
          /\ status' = [status EXCEPT ![queue[u][i]] = "progress"]
    BY <1>4 DEF TickPrepares, SetStatus
  <2>2. /\ \A j \in DOMAIN queue[u] : queue[u][j] \in Files
        /\ DOMAIN queue[u] = 1 .. Len(queue[u]) /\ Len(queue[u]) \in Nat
    BY <1>0, LenProperties
  <2> DEFINE f == queue[u][i]
  <2>3. f \in Files /\ status[f] = "queued"
    BY <2>1, <2>2 DEF Fetched
  <2>4. Phase[f] = "waiting"
    BY <2>3, PhaseIs
  <2>5. ASSUME NEW j \in 1 .. i - 1 PROVE Phase[queue[u][j]] # "waiting"
    <3>1. j \in DOMAIN queue[u] /\ j < i
      BY <2>2
    <3>2. status[queue[u][j]] # "queued"
      BY <2>1 DEF Fetched
    <3>3. status[queue[u][j]] # "inited"
      BY <2>3, <3>1 DEF EngineInv, Ordered
    <3>4. queue[u][j] \in Files
      BY <2>2, <3>1
    <3>5. status[queue[u][j]] \in {"none", "progress", "complete", "error"}
      BY <1>0, <3>2, <3>3, <3>4
    <3> QED
      BY <3>4, <3>5, PhaseIs
  <2>6. Cardinality(Transfers!Sending(u)) < Threads
    <3>1. preparing[u] = NoFile /\ Cardinality(pool[u]) < Threads
      BY <1>4 DEF TickPrepares, TickRuns, Busy
    <3>2. /\ IsFiniteSet(pool[u])
          /\ Transfers!Sending(u) \subseteq pool[u]
      BY <3>1, SendingIsPool DEF EngineInv, Room
    <3>3. /\ Cardinality(Transfers!Sending(u)) <= Cardinality(pool[u])
          /\ IsFiniteSet(Transfers!Sending(u))
      BY <3>2, FS_Subset
    <3>4. Cardinality(Transfers!Sending(u)) \in Nat /\ Cardinality(pool[u]) \in Nat
      BY <3>2, <3>3, FS_CardinalityType
    <3> QED
      BY <3>1, <3>3, <3>4, EngineAssumption
  <2>7. status'[f] = "progress" /\ \A g \in Files : g # f => status'[g] = status[g]
    BY <1>0, <2>1, <2>3
  <2>8. Phase'[f] = "sending"
    BY <2>3, <2>7, PhaseWillBe
  <2>9. Phase' = [Phase EXCEPT ![f] = "sending"]
    BY <1>4, <2>3, <2>7, <2>8, PhaseOfOne
  <2>10. UNCHANGED queue
    BY <1>4 DEF TickPrepares
  <2>11. Transfers!Start(u, i)
    BY <2>4, <2>5, <2>6, <2>9, <2>10, SameCount DEF Transfers!Start
  <2> QED
    BY <2>11 DEF Transfers!Next
<1>5. ASSUME NEW u \in Uploaders, Engine(u) PROVE Transfers!Next \/ UNCHANGED <<queue, Phase>>
  <2>0. UNCHANGED sent
    BY <1>5 DEF Engine
  <2>1. CASE StartUpload(u)
    <3>1. /\ \A f \in Files : status'[f] = IF status[f] = "inited" /\ InQueue(u, f)
                                           THEN "queued" ELSE status[f]
          /\ UNCHANGED queue
      BY <2>1 DEF StartUpload
    <3>2. \A f \in Files : Phase'[f] = Phase[f]
      BY <2>0, <3>1, PhaseIs, PhaseWillBe
    <3>3. Phase' = Phase
      BY <3>2 DEF Phase
    <3> QED
      BY <3>1, <3>3
  <2>2. CASE TickPrepares(u)
    BY <1>4, <2>0, <2>2
  <2>3. CASE PrepareFails(u)
    <3>1. /\ status' = [status EXCEPT ![preparing[u]] = "error"]
          /\ preparing[u] # NoFile
          /\ UNCHANGED queue
      BY <2>3 DEF PrepareFails, SetStatus
    <3>2. preparing[u] \in Files /\ status[preparing[u]] = "progress"
      BY <3>1 DEF EngineInv, PlaceInv, EngineTypeOK, Placed
    <3> QED
      BY <2>0, <3>1, <3>2, EndsOnce
  <2>4. ASSUME NEW f \in Files, SendFails(u, f) PROVE Transfers!Next
    <3>1. /\ status' = [status EXCEPT ![f] = "error"]
          /\ step[f] = "sending"
          /\ UNCHANGED queue
      BY <2>4 DEF SendFails, SetStatus
    <3>2. status[f] = "progress"
      BY <3>1 DEF EngineInv, PlaceInv, EngineTypeOK
    <3> QED
      BY <2>0, <3>1, <3>2, EndsOnce
  <2>5. CASE \/ TickIdles(u) \/ StartSend(u)
             \/ \E f \in Files : DoSend(u, f) \/ Loaded(u, f)
    BY <1>1, <2>0, <2>5 DEF TickIdles, StartSend, DoSend, Loaded
  <2> QED
    BY <1>5, <2>1, <2>2, <2>3, <2>4, <2>5 DEF Engine
<1>6. CASE \/ SocketCloses \/ SocketConnects \/ LoginSuccess
           \/ \E w \in Users \cup {None} : Move(w)
           \/ \E f \in Files : ThumbFails(f)
           \/ \E u \in Uploaders, f \in Files : ThumbMade(u, f)
           \/ UNCHANGED vars
  BY <1>1, <1>6 DEF SocketCloses, SocketConnects, LoginSuccess, Move, ThumbFails, ThumbMade, vars,
    engineVars
<1> QED
  BY <1>2, <1>3, <1>5, <1>6 DEF Next

\* The uploaders implement FileTransfers: the files of an uploader start in the order they
\* were picked, at most Threads at a time, and each has one outcome, once.
THEOREM TransfersImplemented == Spec => ImplementsTransfers
<1>1. Init => Transfers!Init
  BY DEF Init, EngineInit, Transfers!Init, Phase
<1> QED
  BY <1>1, StepsRefine, EngineAlways, SenderTypeAlways, PTL
  DEF Spec, ImplementsTransfers, Transfers!Spec

=============================================================================
