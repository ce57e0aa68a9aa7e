------------------------- MODULE UploadEngineProofs -------------------------
(***************************************************************************)
(* What the steps of an upload queue keep, for any files, uploaders and    *)
(* number of threads.  The specification ChatUploads takes these steps;    *)
(* ChatUploadsProofs draws the conclusions.                                *)
(***************************************************************************)
EXTENDS UploadEngine, FiniteSetTheorems, SequenceTheorems, TLAPS

\* The steps of an uploader for one file, and for itself.
FileStep(u, f) ==
  \/ AddFile(u, f) \/ DoSend(u, f) \/ Loaded(u, f)
  \/ SendFails(u, f) \/ FinishFile(u, f) \/ FinishThrows(u, f)

LoopStep(u) ==
  \/ StartUpload(u) \/ TickPrepares(u) \/ TickIdles(u) \/ StartSend(u) \/ PrepareFails(u)

EngineStep ==
  \/ \E u \in Uploaders, f \in Files : FileStep(u, f)
  \/ \E u \in Uploaders : LoopStep(u)
  \/ UNCHANGED engineVars

\* A file is in one queue at most; it is in the pool, in preparation or in progress only
\* in its own uploader.
Placed ==
  /\ \A u, v \in Uploaders, f \in Files : InQueue(u, f) /\ InQueue(v, f) => u = v
  /\ \A u \in Uploaders, f \in Files : InQueue(u, f) => status[f] # "none"
  /\ \A u \in Uploaders, f \in Files : f \in pool[u] => InQueue(u, f)
  /\ \A u \in Uploaders :
       preparing[u] # NoFile =>
         /\ InQueue(u, preparing[u])
         /\ status[preparing[u]] = "progress" /\ step[preparing[u]] = "none"
  /\ \A u \in Uploaders, f \in Files :
       InQueue(u, f) /\ status[f] = "progress" => f \in pool[u] \/ preparing[u] = f

PlaceInv == EngineTypeOK /\ Placed

\* A file joins the end of a queue.
LEMMA QueueGrows ==
  ASSUME queue \in [Uploaders -> Seq(Files)], NEW u \in Uploaders, NEW f \in Files,
         queue' = [queue EXCEPT ![u] = Append(@, f)]
  PROVE  /\ queue' \in [Uploaders -> Seq(Files)]
         /\ \A v \in Uploaders : \A g : InQueue(v, g)' <=> InQueue(v, g) \/ (v = u /\ g = f)
         /\ Len(queue'[u]) = Len(queue[u]) + 1 /\ Len(queue[u]) \in Nat
         /\ \A i \in 1 .. Len(queue[u]) : queue'[u][i] = queue[u][i]
         /\ queue'[u][Len(queue[u]) + 1] = f
<1> DEFINE q == queue[u]
           a == Append(q, f)
<1>1. q \in Seq(Files) /\ Len(q) \in Nat /\ DOMAIN q = 1 .. Len(q)
  BY LenProperties
<1>2. /\ a \in Seq(Files) /\ Len(a) = Len(q) + 1
      /\ \A i \in 1 .. Len(q) : a[i] = q[i]
      /\ a[Len(q) + 1] = f
  BY <1>1, AppendProperties
<1>3. DOMAIN a = 1 .. Len(q) + 1
  BY <1>2, LenProperties
<1>4. queue'[u] = a /\ \A v \in Uploaders : v # u => queue'[v] = queue[v]
  OBVIOUS
<1>5. queue' \in [Uploaders -> Seq(Files)]
  BY <1>2
<1> HIDE DEF a
<1>6. \A g : InQueue(u, g)' <=> InQueue(u, g) \/ g = f
  <2> TAKE g
  <2>1. ASSUME NEW i \in DOMAIN a, a[i] = g
        PROVE  (\E j \in DOMAIN q : q[j] = g) \/ g = f
    <3>1. CASE i = Len(q) + 1
      BY <1>2, <2>1, <3>1
    <3>2. CASE i # Len(q) + 1
      <4>1. i \in DOMAIN q /\ a[i] = q[i]
        BY <1>1, <1>2, <1>3, <3>2
      <4> QED
        BY <2>1, <4>1
    <3> QED
      BY <3>1, <3>2
  <2>2. ASSUME NEW i \in DOMAIN q PROVE i \in DOMAIN a /\ a[i] = q[i]
    BY <1>1, <1>2, <1>3
  <2>3. Len(q) + 1 \in DOMAIN a /\ a[Len(q) + 1] = f
    BY <1>1, <1>2, <1>3
  <2>4. (\E i \in DOMAIN a : a[i] = g) <=> (\E i \in DOMAIN q : q[i] = g) \/ g = f
    BY <2>1, <2>2, <2>3
  <2>5. InQueue(u, g)' <=> \E i \in DOMAIN a : a[i] = g
    BY <1>4, Zenon DEF InQueue
  <2> QED
    BY <2>4, <2>5 DEF InQueue
<1>7. \A v \in Uploaders : \A g : v # u => (InQueue(v, g)' <=> InQueue(v, g))
  BY <1>4 DEF InQueue
<1> QED
  BY <1>1, <1>2, <1>4, <1>5, <1>6, <1>7

\* Nothing joins a queue.
LEMMA QueueStays ==
  ASSUME UNCHANGED queue
  PROVE  \A v, g : InQueue(v, g)' <=> InQueue(v, g)
  BY DEF InQueue

\* Every step of an uploader keeps each file in its place.
LEMMA PlaceInductive ==
  /\ EngineInit => PlaceInv
  /\ PlaceInv /\ EngineStep => PlaceInv'
<1>1. ASSUME EngineInit PROVE PlaceInv
  <2>1. \A u \in Uploaders, f \in Files : ~InQueue(u, f)
    BY <1>1 DEF EngineInit, InQueue
  <2>2. EngineTypeOK
    BY <1>1, EngineAssumption DEF EngineInit, EngineTypeOK, Steps
  <2>3. Placed
    BY <1>1, <2>1 DEF EngineInit, Placed
  <2> QED
    BY <2>2, <2>3 DEF PlaceInv
<1>2. ASSUME PlaceInv, EngineStep PROVE PlaceInv'
  <2>1. ASSUME NEW u \in Uploaders, NEW f \in Files, AddFile(u, f) PROVE PlaceInv'
    <3>0. /\ queue' \in [Uploaders -> Seq(Files)]
          /\ \A v \in Uploaders : \A g : InQueue(v, g)' <=> InQueue(v, g) \/ (v = u /\ g = f)
      BY <1>2, <2>1, QueueGrows DEF PlaceInv, EngineTypeOK, AddFile
    <3>1. EngineTypeOK'
      BY <1>2, <2>1, <3>0 DEF PlaceInv, EngineTypeOK, AddFile, SetStatus, Steps
    <3>2. /\ status[f] = "none" /\ status' = [status EXCEPT ![f] = "inited"]
          /\ UNCHANGED <<preparing, pool, step>>
      BY <2>1 DEF AddFile, SetStatus
    <3>3. /\ status \in [Files -> {"none", "inited", "queued", "progress", "complete", "error"}]
          /\ preparing \in [Uploaders -> Files \cup {NoFile}]
          /\ pool \in [Uploaders -> SUBSET Files]
      BY <1>2 DEF PlaceInv, EngineTypeOK
    <3>4. \A v \in Uploaders : ~InQueue(v, f)
      BY <1>2, <3>2 DEF PlaceInv, Placed
    <3>5. Placed'
      <4>1. \A v, w \in Uploaders, g \in Files : InQueue(v, g)' /\ InQueue(w, g)' => v = w
        BY <1>2, <3>0, <3>4 DEF PlaceInv, Placed
      <4>2. \A v \in Uploaders, g \in Files : InQueue(v, g)' => status'[g] # "none"
        BY <1>2, <3>0, <3>2, <3>3 DEF PlaceInv, Placed
      <4>3. \A v \in Uploaders, g \in Files : g \in pool'[v] => InQueue(v, g)'
        BY <1>2, <3>0, <3>2 DEF PlaceInv, Placed
      <4>4. ASSUME NEW v \in Uploaders, preparing'[v] # NoFile
            PROVE  /\ InQueue(v, preparing[v])'
                   /\ status'[preparing'[v]] = "progress" /\ step'[preparing'[v]] = "none"
        <5>1. /\ preparing'[v] = preparing[v] /\ preparing[v] \in Files
              /\ InQueue(v, preparing[v])
              /\ status[preparing[v]] = "progress" /\ step[preparing[v]] = "none"
          BY <1>2, <3>2, <3>3, <4>4 DEF PlaceInv, Placed
        <5>2. preparing[v] # f
          BY <3>2, <5>1
        <5> DEFINE g == preparing[v]
        <5>3. InQueue(v, g)'
          BY <3>0, <5>1
        <5>4. InQueue(v, preparing[v])'
          BY <5>3, <5>1 DEF InQueue
        <5> QED
          BY <3>2, <3>3, <5>1, <5>2, <5>4
      <4>5. \A v \in Uploaders, g \in Files :
              InQueue(v, g)' /\ status'[g] = "progress" => g \in pool'[v] \/ preparing'[v] = g
        BY <1>2, <3>0, <3>2, <3>3 DEF PlaceInv, Placed
      <4> QED
        BY <4>1, <4>2, <4>3, <4>4, <4>5 DEF Placed
    <3> QED
      BY <3>1, <3>5 DEF PlaceInv
  <2>2. ASSUME NEW u \in Uploaders, NEW f \in Files, DoSend(u, f) \/ Loaded(u, f) PROVE PlaceInv'
    <3>0. UNCHANGED queue
      BY <2>2 DEF DoSend, Loaded
    <3>1. EngineTypeOK'
      BY <1>2, <2>2 DEF PlaceInv, EngineTypeOK, DoSend, Loaded, Steps
    <3>2. Placed'
      BY <1>2, <2>2, <3>0, QueueStays DEF PlaceInv, EngineTypeOK, Placed, DoSend, Loaded, Steps
    <3> QED
      BY <3>1, <3>2 DEF PlaceInv
  <2>3. ASSUME NEW u \in Uploaders, NEW f \in Files, SendFails(u, f) \/ FinishFile(u, f)
        PROVE  PlaceInv'
    <3>0. UNCHANGED queue
      BY <2>3 DEF SendFails, FinishFile
    <3>1. /\ f \in pool[u] /\ step[f] \in {"sending", "answered"}
          /\ \E new \in {"error", "complete"} : status' = [status EXCEPT ![f] = new]
          /\ pool' = [pool EXCEPT ![u] = pool[u] \ {f}]
          /\ step' = [step EXCEPT ![f] = "none"]
          /\ ticks' = [ticks EXCEPT ![u] = ticks[u] + 1]
          /\ UNCHANGED <<starts, runing, preparing>>
      BY <2>3 DEF SendFails, FinishFile, PopBlock, NextTick, SetStatus
    <3>2. PICK new \in {"error", "complete"} : status' = [status EXCEPT ![f] = new]
      BY <3>1
    <3>3. InQueue(u, f) /\ status[f] = "progress"
      BY <1>2, <3>1 DEF PlaceInv, Placed, EngineTypeOK
    <3>4. EngineTypeOK'
      <4>1. \A v \in Uploaders : f \in pool[v] => v = u
        BY <1>2, <3>3 DEF PlaceInv, Placed
      <4> QED
        BY <1>2, <3>0, <3>1, <3>2, <4>1 DEF PlaceInv, EngineTypeOK, Steps
    <3>5. Placed'
      BY <1>2, <3>0, <3>1, <3>2, <3>3, QueueStays DEF PlaceInv, EngineTypeOK, Placed
    <3> QED
      BY <3>4, <3>5 DEF PlaceInv
  <2>4. ASSUME NEW u \in Uploaders, NEW f \in Files, FinishThrows(u, f) PROVE PlaceInv'
    <3>0. UNCHANGED queue
      BY <2>4 DEF FinishThrows
    <3>1. EngineTypeOK'
      BY <1>2, <2>4 DEF PlaceInv, EngineTypeOK, FinishThrows, SetStatus, Steps
    <3>2. Placed'
      BY <1>2, <2>4, <3>0, QueueStays
      DEF PlaceInv, EngineTypeOK, Placed, FinishThrows, SetStatus, Steps
    <3> QED
      BY <3>1, <3>2 DEF PlaceInv
  <2>5. ASSUME NEW u \in Uploaders, StartUpload(u) PROVE PlaceInv'
    <3>0. UNCHANGED queue
      BY <2>5 DEF StartUpload
    <3>1. EngineTypeOK'
      BY <1>2, <2>5 DEF PlaceInv, EngineTypeOK, StartUpload, NextTick, Steps
    <3>2. Placed'
      BY <1>2, <2>5, <3>0, QueueStays
      DEF PlaceInv, EngineTypeOK, Placed, StartUpload, Steps
    <3> QED
      BY <3>1, <3>2 DEF PlaceInv
  <2>6. ASSUME NEW u \in Uploaders, TickPrepares(u) PROVE PlaceInv'
    <3>0. UNCHANGED queue
      BY <2>6 DEF TickPrepares
    <3>1. PICK i \in DOMAIN queue[u] :
            /\ Fetched(u, i)
            /\ SetStatus(queue[u][i], "progress")
            /\ preparing' = [preparing EXCEPT ![u] = queue[u][i]]
      BY <2>6 DEF TickPrepares
    <3> DEFINE f == queue[u][i]
    <3>2. f \in Files /\ InQueue(u, f) /\ status[f] = "queued"
      BY <1>2, <3>1 DEF PlaceInv, EngineTypeOK, InQueue, Fetched
    <3>3. status' = [status EXCEPT ![f] = "progress"] /\ preparing' = [preparing EXCEPT ![u] = f]
      BY <3>1 DEF SetStatus
    <3> HIDE DEF f
    <3>4. EngineTypeOK'
      BY <1>2, <2>6, <3>2, <3>3 DEF PlaceInv, EngineTypeOK, TickPrepares, TickRuns, Steps
    <3>5. Placed'
      BY <1>2, <2>6, <3>0, <3>2, <3>3, QueueStays, EngineAssumption
      DEF PlaceInv, EngineTypeOK, Placed, TickPrepares, TickRuns, Steps
    <3> QED
      BY <3>4, <3>5 DEF PlaceInv
  <2>7. ASSUME NEW u \in Uploaders, TickIdles(u) PROVE PlaceInv'
    <3>0. UNCHANGED queue
      BY <2>7 DEF TickIdles
    <3>1. runing' \in [Uploaders -> BOOLEAN]
      BY <1>2, <2>7 DEF PlaceInv, EngineTypeOK, TickIdles
    <3>2. EngineTypeOK'
      BY <1>2, <2>7, <3>1 DEF PlaceInv, EngineTypeOK, TickIdles, TickRuns, Steps
    <3>3. Placed'
      BY <1>2, <2>7, <3>0, QueueStays DEF PlaceInv, Placed, TickIdles
    <3> QED
      BY <3>2, <3>3 DEF PlaceInv
  <2>8. ASSUME NEW u \in Uploaders, StartSend(u) PROVE PlaceInv'
    <3> DEFINE f == preparing[u]
    <3>0. UNCHANGED queue
      BY <2>8 DEF StartSend
    <3>1. f \in Files /\ InQueue(u, f) /\ status[f] = "progress" /\ step[f] = "none"
      BY <1>2, <2>8 DEF PlaceInv, EngineTypeOK, Placed, StartSend
    <3>2. EngineTypeOK'
      BY <1>2, <2>8, <3>1 DEF PlaceInv, EngineTypeOK, StartSend, NextTick, Steps
    <3>3. Placed'
      BY <1>2, <2>8, <3>0, <3>1, QueueStays DEF PlaceInv, EngineTypeOK, Placed, StartSend
    <3> QED
      BY <3>2, <3>3 DEF PlaceInv
  <2>9. ASSUME NEW u \in Uploaders, PrepareFails(u) PROVE PlaceInv'
    <3> DEFINE f == preparing[u]
    <3>0. UNCHANGED queue
      BY <2>9 DEF PrepareFails
    <3>1. f \in Files /\ InQueue(u, f) /\ status[f] = "progress" /\ step[f] = "none"
      BY <1>2, <2>9 DEF PlaceInv, EngineTypeOK, Placed, PrepareFails
    <3>2. EngineTypeOK'
      BY <1>2, <2>9, <3>1 DEF PlaceInv, EngineTypeOK, PrepareFails, NextTick, SetStatus, Steps
    <3>3. Placed'
      BY <1>2, <2>9, <3>0, <3>1, QueueStays
      DEF PlaceInv, EngineTypeOK, Placed, PrepareFails, SetStatus
    <3> QED
      BY <3>2, <3>3 DEF PlaceInv
  <2>10. CASE UNCHANGED engineVars
    BY <1>2, <2>10, QueueStays DEF PlaceInv, EngineTypeOK, Placed, engineVars
  <2> QED
    BY <1>2, <2>1, <2>2, <2>3, <2>4, <2>5, <2>6, <2>7, <2>8, <2>9, <2>10
    DEF EngineStep, FileStep, LoopStep
<1> QED
  BY <1>1, <1>2

-----------------------------------------------------------------------------
\* There is room in the pool for the file in preparation.
Room ==
  \A u \in Uploaders :
    /\ IsFiniteSet(pool[u])
    /\ Cardinality(pool[u]) + (IF preparing[u] = NoFile THEN 0 ELSE 1) <= Threads

\* A finished upload makes room, and no other step but a tick's own choice takes any.
LEMMA RoomInductive ==
  /\ EngineInit => Room
  /\ PlaceInv /\ Room /\ EngineStep => Room'
<1>1. ASSUME EngineInit PROVE Room
  BY <1>1, EngineAssumption, FS_EmptySet DEF EngineInit, Room
<1>2. ASSUME PlaceInv, Room, EngineStep PROVE Room'
  <2>0. /\ preparing \in [Uploaders -> Files \cup {NoFile}]
        /\ pool \in [Uploaders -> SUBSET Files]
        /\ \A u \in Uploaders : Cardinality(pool[u]) \in Nat
    BY <1>2, FS_CardinalityType DEF PlaceInv, EngineTypeOK, Room
  <2>1. ASSUME NEW u \in Uploaders, NEW f \in Files, SendFails(u, f) \/ FinishFile(u, f)
        PROVE  Room'
    <3>1. /\ pool' = [pool EXCEPT ![u] = pool[u] \ {f}]
          /\ UNCHANGED preparing
      BY <2>1 DEF SendFails, FinishFile, PopBlock
    <3>2. /\ IsFiniteSet(pool[u] \ {f})
          /\ Cardinality(pool[u] \ {f}) <= Cardinality(pool[u])
      <4>1. /\ IsFiniteSet(pool[u] \ {f})
            /\ Cardinality(pool[u] \ {f}) =
                 IF f \in pool[u] THEN Cardinality(pool[u]) - 1 ELSE Cardinality(pool[u])
        BY <1>2, FS_RemoveElement DEF Room
      <4> QED
        BY <2>0, <4>1
    <3>3. Cardinality(pool[u] \ {f}) \in Nat
      BY <3>2, FS_CardinalityType
    <3> QED
      BY <1>2, <2>0, <3>1, <3>2, <3>3, EngineAssumption DEF Room
  <2>2. ASSUME NEW u \in Uploaders, TickPrepares(u) PROVE Room'
    <3>1. Cardinality(pool[u]) < Threads /\ UNCHANGED pool /\ preparing[u] = NoFile
      BY <2>2 DEF TickPrepares, TickRuns, Busy
    <3>2. \A v \in Uploaders : v # u => preparing'[v] = preparing[v]
      BY <2>0, <2>2 DEF TickPrepares
    <3> QED
      BY <1>2, <2>0, <3>1, <3>2, EngineAssumption DEF Room
  <2>3. ASSUME NEW u \in Uploaders, StartSend(u) PROVE Room'
    <3> DEFINE f == preparing[u]
    <3>1. /\ f # NoFile
          /\ pool' = [pool EXCEPT ![u] = pool[u] \cup {f}]
          /\ preparing' = [preparing EXCEPT ![u] = NoFile]
      BY <2>3 DEF StartSend
    <3>2. /\ IsFiniteSet(pool[u] \cup {f})
          /\ Cardinality(pool[u] \cup {f}) <= Cardinality(pool[u]) + 1
      <4>1. /\ IsFiniteSet(pool[u] \cup {f})
            /\ Cardinality(pool[u] \cup {f}) =
                 IF f \in pool[u] THEN Cardinality(pool[u]) ELSE Cardinality(pool[u]) + 1
        BY <1>2, FS_AddElement DEF Room
      <4> QED
        BY <2>0, <4>1
    <3>3. Cardinality(pool[u] \cup {f}) \in Nat
      BY <3>2, FS_CardinalityType
    <3> QED
      BY <1>2, <2>0, <3>1, <3>2, <3>3, EngineAssumption DEF Room
  <2>4. ASSUME NEW u \in Uploaders, PrepareFails(u) PROVE Room'
    <3>1. UNCHANGED pool /\ preparing' = [preparing EXCEPT ![u] = NoFile]
      BY <2>4 DEF PrepareFails
    <3> QED
      BY <1>2, <2>0, <3>1, EngineAssumption DEF Room
  <2>5. ASSUME UNCHANGED <<preparing, pool>> PROVE Room'
    BY <1>2, <2>5 DEF Room
  <2>6. ASSUME NEW u \in Uploaders, NEW f \in Files, FileStep(u, f) PROVE Room'
    <3>1. CASE AddFile(u, f) \/ DoSend(u, f) \/ Loaded(u, f) \/ FinishThrows(u, f)
      BY <2>5, <3>1 DEF AddFile, DoSend, Loaded, FinishThrows
    <3> QED
      BY <2>1, <2>6, <3>1 DEF FileStep
  <2>7. ASSUME NEW u \in Uploaders, LoopStep(u) PROVE Room'
    <3>1. CASE StartUpload(u) \/ TickIdles(u)
      BY <2>5, <3>1 DEF StartUpload, TickIdles
    <3> QED
      BY <2>2, <2>3, <2>4, <2>7, <3>1 DEF LoopStep
  <2> QED
    BY <1>2, <2>5, <2>6, <2>7 DEF EngineStep, engineVars
<1> QED
  BY <1>1, <1>2

\* The room that is kept for the file in preparation is the bound on the pool.
LEMMA RoomSuffices == PlaceInv /\ Room => AtMostThreads
<1> SUFFICES ASSUME PlaceInv, Room, NEW u \in Uploaders PROVE Cardinality(pool[u]) <= Threads
  BY DEF AtMostThreads
<1>1. Cardinality(pool[u]) \in Nat
  BY FS_CardinalityType DEF Room
<1> QED
  BY <1>1, EngineAssumption DEF Room

-----------------------------------------------------------------------------
\* Something will wake the loop of a running uploader, it runs while a file is to be
\* uploaded, and a new file has a timer that will start it.
Awake ==
  /\ \A u \in Uploaders : runing[u] => ticks[u] > 0 \/ preparing[u] # NoFile \/ pool[u] # {}
  /\ \A u \in Uploaders : Queued(u) # {} => runing[u]
  /\ \A u \in Uploaders, f \in Files : InQueue(u, f) /\ status[f] = "inited" => starts[u] > 0

\* Only a tick that finds the pool empty and nothing to upload ends the loop, and whoever
\* empties the pool or the preparation schedules one.
LEMMA AwakeInductive ==
  /\ EngineInit => Awake
  /\ PlaceInv /\ Room /\ Awake /\ EngineStep => Awake'
<1>1. ASSUME EngineInit PROVE Awake
  <2>1. \A u \in Uploaders, f \in Files : ~InQueue(u, f)
    BY <1>1 DEF EngineInit, InQueue
  <2> QED
    BY <1>1, <2>1 DEF EngineInit, Awake, Queued
<1>2. ASSUME PlaceInv, Room, Awake, EngineStep PROVE Awake'
  <2>0. /\ status \in [Files -> {"none", "inited", "queued", "progress", "complete", "error"}]
        /\ starts \in [Uploaders -> Nat] /\ ticks \in [Uploaders -> Nat]
        /\ runing \in [Uploaders -> BOOLEAN]
        /\ preparing \in [Uploaders -> Files \cup {NoFile}]
        /\ pool \in [Uploaders -> SUBSET Files]
    BY <1>2 DEF PlaceInv, EngineTypeOK
  <2>1. ASSUME UNCHANGED <<queue, starts, runing>>,
               \A f \in Files : status'[f] # status[f] => status'[f] \notin {"inited", "queued"},
               \A u \in Uploaders :
                 runing[u] => ticks'[u] > 0 \/ preparing'[u] # NoFile \/ pool'[u] # {}
        PROVE  Awake'
    <3>1. \A u \in Uploaders : Queued(u)' \subseteq Queued(u)
      BY <2>1, QueueStays DEF Queued
    <3>2. \A u \in Uploaders : Queued(u)' # {} => runing'[u]
      BY <1>2, <2>1, <3>1 DEF Awake
    <3>3. \A u \in Uploaders, f \in Files :
            InQueue(u, f)' /\ status'[f] = "inited" => starts'[u] > 0
      BY <1>2, <2>1, QueueStays DEF Awake
    <3> QED
      BY <2>1, <3>2, <3>3 DEF Awake
  <2>2. ASSUME NEW u \in Uploaders, NEW f \in Files, AddFile(u, f) PROVE Awake'
    <3>1. \A v \in Uploaders : \A g : InQueue(v, g)' <=> InQueue(v, g) \/ (v = u /\ g = f)
      BY <1>2, <2>2, QueueGrows DEF PlaceInv, EngineTypeOK, AddFile
    <3>2. /\ status[f] = "none" /\ status' = [status EXCEPT ![f] = "inited"]
          /\ starts' = [starts EXCEPT ![u] = starts[u] + 1]
          /\ UNCHANGED <<runing, ticks, preparing, pool>>
      BY <2>2 DEF AddFile, SetStatus
    <3>3. \A v \in Uploaders : Queued(v)' \subseteq Queued(v)
      BY <2>0, <3>1, <3>2 DEF Queued
    <3>4. \A v \in Uploaders : Queued(v)' # {} => runing'[v]
      BY <1>2, <3>2, <3>3 DEF Awake
    <3>5. ASSUME NEW v \in Uploaders, NEW g \in Files, InQueue(v, g)', status'[g] = "inited"
          PROVE  starts'[v] > 0
      <4>1. CASE v = u
        BY <2>0, <3>2, <4>1
      <4>2. CASE v # u
        <5>1. InQueue(v, g) /\ g # f
          BY <1>2, <3>1, <3>2, <3>5, <4>2 DEF PlaceInv, Placed
        <5>2. status[g] = "inited"
          BY <2>0, <3>2, <3>5, <5>1
        <5> QED
          BY <1>2, <2>0, <3>2, <4>2, <5>1, <5>2 DEF Awake
      <4> QED
        BY <4>1, <4>2
    <3>6. \A v \in Uploaders : runing'[v] => ticks'[v] > 0 \/ preparing'[v] # NoFile \/ pool'[v] # {}
      BY <1>2, <3>2 DEF Awake
    <3> QED
      BY <3>4, <3>5, <3>6 DEF Awake
  <2>3. ASSUME NEW u \in Uploaders, NEW f \in Files, DoSend(u, f) \/ Loaded(u, f) PROVE Awake'
    <3>1. UNCHANGED <<status, queue, starts, runing, ticks, preparing, pool>>
      BY <2>3 DEF DoSend, Loaded
    <3>2. \A v \in Uploaders :
            runing[v] => ticks'[v] > 0 \/ preparing'[v] # NoFile \/ pool'[v] # {}
      BY <1>2, <3>1 DEF Awake
    <3> QED
      BY <2>1, <3>1, <3>2
  <2>4. ASSUME NEW u \in Uploaders, NEW f \in Files,
               SendFails(u, f) \/ FinishFile(u, f)
        PROVE  Awake'
    <3>1. /\ \E new \in {"error", "complete"} : status' = [status EXCEPT ![f] = new]
          /\ pool' = [pool EXCEPT ![u] = pool[u] \ {f}]
          /\ ticks' = [ticks EXCEPT ![u] = ticks[u] + 1]
          /\ UNCHANGED <<queue, starts, runing, preparing>>
      BY <2>4 DEF SendFails, FinishFile, PopBlock, NextTick, SetStatus
    <3>2. \A v \in Uploaders :
            runing[v] => ticks'[v] > 0 \/ preparing'[v] # NoFile \/ pool'[v] # {}
      BY <1>2, <2>0, <3>1 DEF Awake
    <3>3. \A g \in Files : status'[g] # status[g] => status'[g] \notin {"inited", "queued"}
      BY <2>0, <3>1
    <3> QED
      BY <2>1, <3>1, <3>2, <3>3
  <2>5. ASSUME NEW u \in Uploaders, NEW f \in Files, FinishThrows(u, f) PROVE Awake'
    <3>1. /\ status' = [status EXCEPT ![f] = "complete"]
          /\ UNCHANGED <<queue, starts, runing, ticks, preparing, pool>>
      BY <2>5 DEF FinishThrows, SetStatus
    <3>2. \A v \in Uploaders :
            runing[v] => ticks'[v] > 0 \/ preparing'[v] # NoFile \/ pool'[v] # {}
      BY <1>2, <3>1 DEF Awake
    <3>3. \A g \in Files : status'[g] # status[g] => status'[g] \notin {"inited", "queued"}
      BY <2>0, <3>1
    <3> QED
      BY <2>1, <3>1, <3>2, <3>3
  <2>6. ASSUME NEW u \in Uploaders, StartUpload(u) PROVE Awake'
    <3>1. /\ starts' = [starts EXCEPT ![u] = starts[u] - 1]
          /\ status' = [f \in Files |->
                          IF status[f] = "inited" /\ InQueue(u, f) THEN "queued" ELSE status[f]]
          /\ runing' = [runing EXCEPT ![u] = TRUE]
          /\ UNCHANGED <<queue, preparing, pool>>
      BY <2>6 DEF StartUpload
    <3>2. ticks' = IF runing[u] THEN ticks ELSE [ticks EXCEPT ![u] = ticks[u] + 1]
      BY <2>6 DEF StartUpload, NextTick
    <3>3. /\ runing'[u]
          /\ \A v \in Uploaders : v # u => runing'[v] = runing[v]
      BY <2>0, <3>1
    <3>4. ticks[u] \in Nat /\ ticks[u] + 1 > 0
      BY <2>0
    <3>5. ASSUME NEW v \in Uploaders, runing'[v]
          PROVE  ticks'[v] > 0 \/ preparing'[v] # NoFile \/ pool'[v] # {}
      <4>1. CASE runing[u]
        BY <1>2, <3>1, <3>2, <3>3, <3>5, <4>1 DEF Awake
      <4>2. CASE ~runing[u]
        <5>1. CASE v = u
          BY <2>0, <3>2, <3>4, <4>2, <5>1
        <5>2. CASE v # u
          <6>1. ticks'[v] = ticks[v]
            BY <2>0, <3>2, <4>2, <5>2
          <6>2. ticks[v] > 0 \/ preparing[v] # NoFile \/ pool[v] # {}
            BY <1>2, <3>3, <3>5, <5>2 DEF Awake
          <6> QED
            BY <3>1, <6>1, <6>2
        <5> QED
          BY <5>1, <5>2
      <4> QED
        BY <4>1, <4>2
    <3>6. ASSUME NEW v \in Uploaders, Queued(v)' # {} PROVE runing'[v]
      <4>1. CASE v # u
        <5>1. Queued(v)' \subseteq Queued(v)
          BY <1>2, <2>0, <3>1, <4>1, QueueStays DEF PlaceInv, Placed, Queued
        <5> QED
          BY <1>2, <3>3, <3>6, <4>1, <5>1 DEF Awake
      <4> QED
        BY <3>3, <4>1
    <3>7. ASSUME NEW v \in Uploaders, NEW f \in Files, InQueue(v, f)', status'[f] = "inited"
          PROVE  starts'[v] > 0
      <4>1. InQueue(v, f) /\ status[f] = "inited" /\ ~InQueue(u, f)
        BY <3>1, <3>7, QueueStays
      <4> QED
        BY <1>2, <2>0, <3>1, <4>1 DEF Awake
    <3> QED
      BY <3>5, <3>6, <3>7 DEF Awake
  <2>7. ASSUME NEW u \in Uploaders, TickPrepares(u) PROVE Awake'
    <3>1. PICK i \in DOMAIN queue[u] :
            /\ SetStatus(queue[u][i], "progress")
            /\ preparing' = [preparing EXCEPT ![u] = queue[u][i]]
      BY <2>7 DEF TickPrepares
    <3> DEFINE f == queue[u][i]
    <3>2. f \in Files /\ f # NoFile
      BY <1>2, <3>1, EngineAssumption DEF PlaceInv, EngineTypeOK
    <3>3. /\ status' = [status EXCEPT ![f] = "progress"]
          /\ preparing' = [preparing EXCEPT ![u] = f]
          /\ ticks' = [ticks EXCEPT ![u] = ticks[u] - 1]
          /\ UNCHANGED <<queue, starts, runing, pool>>
      BY <2>7, <3>1 DEF TickPrepares, TickRuns, SetStatus
    <3> HIDE DEF f
    <3>4. \A v \in Uploaders :
            runing[v] => ticks'[v] > 0 \/ preparing'[v] # NoFile \/ pool'[v] # {}
      BY <1>2, <2>0, <3>2, <3>3 DEF Awake
    <3>5. \A g \in Files : status'[g] # status[g] => status'[g] \notin {"inited", "queued"}
      BY <2>0, <3>3
    <3> QED
      BY <2>1, <3>3, <3>4, <3>5
  <2>8. ASSUME NEW u \in Uploaders, TickIdles(u) PROVE Awake'
    <3>1. /\ preparing[u] = NoFile
          /\ ticks' = [ticks EXCEPT ![u] = ticks[u] - 1]
          /\ runing' = [runing EXCEPT ![u] = runing[u] /\ (pool[u] # {} \/ Queued(u) # {})]
          /\ UNCHANGED <<status, queue, starts, preparing, pool>>
      BY <2>8 DEF TickIdles, TickRuns
    <3>2. pool[u] = {} /\ runing[u] => Queued(u) = {}
      <4>1. pool[u] = {} => Cardinality(pool[u]) < Threads
        BY FS_EmptySet, EngineAssumption
      <4> QED
        BY <2>8, <4>1 DEF TickIdles, Busy
    <3>3. runing'[u] <=> runing[u] /\ pool[u] # {}
      BY <2>0, <3>1, <3>2, Zenon
    <3>4. \A v \in Uploaders : v # u => runing'[v] = runing[v] /\ ticks'[v] = ticks[v]
      BY <2>0, <3>1
    <3>5. \A v : Queued(v)' = Queued(v)
      BY <3>1, QueueStays DEF Queued
    <3>6. ASSUME NEW v \in Uploaders, runing'[v]
          PROVE  ticks'[v] > 0 \/ preparing'[v] # NoFile \/ pool'[v] # {}
      BY <1>2, <3>1, <3>3, <3>4, <3>6 DEF Awake
    <3>7. ASSUME NEW v \in Uploaders, Queued(v)' # {} PROVE runing'[v]
      <4>1. CASE v = u
        <5>1. runing[u]
          BY <1>2, <3>5, <3>7, <4>1 DEF Awake
        <5> QED
          BY <3>2, <3>3, <3>5, <3>7, <4>1, <5>1
      <4>2. CASE v # u
        BY <1>2, <3>4, <3>5, <3>7, <4>2 DEF Awake
      <4> QED
        BY <4>1, <4>2
    <3>8. \A v \in Uploaders, f \in Files :
            InQueue(v, f)' /\ status'[f] = "inited" => starts'[v] > 0
      BY <1>2, <3>1, QueueStays DEF Awake
    <3> QED
      BY <3>6, <3>7, <3>8 DEF Awake
  <2>9. ASSUME NEW u \in Uploaders, StartSend(u) \/ PrepareFails(u) PROVE Awake'
    <3>1. /\ preparing[u] # NoFile
          /\ ticks' = [ticks EXCEPT ![u] = ticks[u] + 1]
          /\ preparing' = [preparing EXCEPT ![u] = NoFile]
          /\ UNCHANGED <<queue, starts, runing>>
          /\ \A v \in Uploaders : v # u => pool'[v] = pool[v]
      BY <2>0, <2>9 DEF StartSend, PrepareFails, NextTick
    <3>2. \A v \in Uploaders :
            runing[v] => ticks'[v] > 0 \/ preparing'[v] # NoFile \/ pool'[v] # {}
      BY <1>2, <2>0, <3>1 DEF Awake
    <3>3. \A g \in Files : status'[g] # status[g] => status'[g] \notin {"inited", "queued"}
      BY <2>0, <2>9 DEF StartSend, PrepareFails, SetStatus
    <3> QED
      BY <2>1, <3>1, <3>2, <3>3
  <2>10. CASE UNCHANGED engineVars
    <3>1. \A v : Queued(v)' = Queued(v)
      BY <2>10, QueueStays DEF engineVars, Queued
    <3> QED
      BY <1>2, <2>10, <3>1, QueueStays DEF engineVars, Awake
  <2> QED
    BY <1>2, <2>2, <2>3, <2>4, <2>5, <2>6, <2>7, <2>8, <2>9, <2>10
    DEF EngineStep, FileStep, LoopStep
<1> QED
  BY <1>1, <1>2

\* What keeps the loop awake is what NoFileForgotten says.
LEMMA AwakeSuffices == Awake => NoFileForgotten
  BY DEF Awake, NoFileForgotten

-----------------------------------------------------------------------------
\* The files that startUpload has not seen yet are the last ones of a queue.
Ordered ==
  \A u \in Uploaders : \A i, j \in DOMAIN queue[u] :
    i < j /\ status[queue[u][i]] = "inited" => status[queue[u][j]] = "inited"

\* Files join at the end of a queue, and startUpload takes all the new ones at once.
LEMMA OrderedInductive ==
  /\ EngineInit => Ordered
  /\ PlaceInv /\ Ordered /\ EngineStep => Ordered'
<1>1. ASSUME EngineInit PROVE Ordered
  <2> SUFFICES ASSUME NEW u \in Uploaders, NEW i \in DOMAIN queue[u] PROVE FALSE
    BY DEF Ordered
  <2>1. queue[u] = <<>>
    BY <1>1 DEF EngineInit
  <2> QED
    BY <2>1
<1>2. ASSUME PlaceInv, Ordered, EngineStep PROVE Ordered'
  <2>0. /\ status \in [Files -> {"none", "inited", "queued", "progress", "complete", "error"}]
        /\ queue \in [Uploaders -> Seq(Files)]
        /\ \A u \in Uploaders : \A i \in DOMAIN queue[u] : queue[u][i] \in Files
        /\ \A u \in Uploaders : DOMAIN queue[u] = 1 .. Len(queue[u]) /\ Len(queue[u]) \in Nat
    BY <1>2, LenProperties DEF PlaceInv, EngineTypeOK
  <2>1. ASSUME UNCHANGED queue,
               \A f \in Files :
                 status'[f] # status[f] => "inited" \notin {status[f], status'[f]}
        PROVE  Ordered'
    <3> SUFFICES ASSUME NEW u \in Uploaders, NEW i \in DOMAIN queue[u], NEW j \in DOMAIN queue[u],
                        i < j, status'[queue[u][i]] = "inited"
                 PROVE  status'[queue[u][j]] = "inited"
      BY <2>1 DEF Ordered
    <3> DEFINE f == queue[u][i]
               g == queue[u][j]
    <3>1. f \in Files /\ g \in Files
      BY <2>0
    <3>2. status[f] = "inited"
      BY <2>1, <3>1
    <3>3. status[g] = "inited"
      BY <1>2, <3>2 DEF Ordered
    <3> QED
      BY <2>1, <3>1, <3>3
  <2>2. ASSUME NEW u \in Uploaders, NEW f \in Files, AddFile(u, f) PROVE Ordered'
    <3>1. /\ status[f] = "none" /\ status' = [status EXCEPT ![f] = "inited"]
          /\ queue' = [queue EXCEPT ![u] = Append(queue[u], f)]
      BY <2>2 DEF AddFile, SetStatus
    <3>2. /\ queue' \in [Uploaders -> Seq(Files)]
          /\ Len(queue'[u]) = Len(queue[u]) + 1 /\ Len(queue[u]) \in Nat
          /\ \A i \in 1 .. Len(queue[u]) : queue'[u][i] = queue[u][i]
          /\ queue'[u][Len(queue[u]) + 1] = f
      BY <2>0, <3>1, QueueGrows
    <3>3. DOMAIN queue'[u] = 1 .. Len(queue[u]) + 1
      BY <3>2, LenProperties
    <3>4. \A v \in Uploaders : v # u => queue'[v] = queue[v]
      BY <2>0, <3>1
    <3>5. \A v \in Uploaders : \A i \in DOMAIN queue[v] :
            queue[v][i] # f /\ status'[queue[v][i]] = status[queue[v][i]]
      BY <1>2, <2>0, <3>1 DEF PlaceInv, Placed, InQueue
    <3> SUFFICES ASSUME NEW v \in Uploaders,
                        NEW i \in DOMAIN queue'[v], NEW j \in DOMAIN queue'[v],
                        i < j, status'[queue'[v][i]] = "inited"
                 PROVE  status'[queue'[v][j]] = "inited"
      BY DEF Ordered
    <3>6. CASE v # u
      <4>1. i \in DOMAIN queue[v] /\ j \in DOMAIN queue[v] /\ queue'[v] = queue[v]
        BY <3>4, <3>6
      <4> QED
        BY <1>2, <3>5, <4>1 DEF Ordered
    <3>7. CASE v = u /\ j = Len(queue[u]) + 1
      <4>1. queue'[v][j] = f
        BY <3>2, <3>7
      <4> QED
        BY <2>0, <3>1, <4>1
    <3>8. CASE v = u /\ j # Len(queue[u]) + 1
      <4>1. i \in 1 .. Len(queue[u]) /\ j \in 1 .. Len(queue[u])
        BY <3>2, <3>3, <3>8
      <4>2. /\ queue'[v][i] = queue[u][i] /\ queue'[v][j] = queue[u][j]
            /\ i \in DOMAIN queue[u] /\ j \in DOMAIN queue[u]
        BY <2>0, <3>2, <3>8, <4>1
      <4>3. status[queue[u][i]] = "inited"
        BY <3>5, <4>2
      <4> QED
        BY <1>2, <3>5, <4>2, <4>3 DEF Ordered
    <3> QED
      BY <3>6, <3>7, <3>8
  <2>3. ASSUME NEW u \in Uploaders, NEW f \in Files,
               SendFails(u, f) \/ FinishFile(u, f) \/ FinishThrows(u, f)
        PROVE  Ordered'
    <3>1. /\ \E new \in {"error", "complete"} : status' = [status EXCEPT ![f] = new]
          /\ f \in pool[u] /\ step[f] \in {"sending", "answered"}
          /\ UNCHANGED queue
      BY <2>3 DEF SendFails, FinishFile, FinishThrows, SetStatus
    <3>2. status[f] = "progress"
      BY <1>2, <3>1 DEF PlaceInv, EngineTypeOK
    <3>3. \A g \in Files : status'[g] # status[g] => "inited" \notin {status[g], status'[g]}
      BY <2>0, <3>1, <3>2
    <3> QED
      BY <2>1, <3>1, <3>3
  <2>4. ASSUME NEW u \in Uploaders, StartUpload(u) PROVE Ordered'
    <3>1. /\ status' = [f \in Files |->
                          IF status[f] = "inited" /\ InQueue(u, f) THEN "queued" ELSE status[f]]
          /\ UNCHANGED queue
      BY <2>4 DEF StartUpload
    <3> SUFFICES ASSUME NEW v \in Uploaders, NEW i \in DOMAIN queue[v], NEW j \in DOMAIN queue[v],
                        i < j, status'[queue[v][i]] = "inited"
                 PROVE  status'[queue[v][j]] = "inited"
      BY <3>1 DEF Ordered
    <3> DEFINE f == queue[v][i]
               g == queue[v][j]
    <3>2. f \in Files /\ g \in Files /\ InQueue(v, f) /\ InQueue(v, g)
      BY <2>0 DEF InQueue
    <3>3. status[f] = "inited" /\ ~InQueue(u, f)
      BY <3>1, <3>2
    <3>4. status[g] = "inited"
      BY <1>2, <3>3 DEF Ordered
    <3>5. ~InQueue(u, g)
      BY <1>2, <3>2, <3>3 DEF PlaceInv, Placed
    <3> QED
      BY <3>1, <3>2, <3>4, <3>5
  <2>5. ASSUME NEW u \in Uploaders, TickPrepares(u) PROVE Ordered'
    <3>1. PICK i \in DOMAIN queue[u] : Fetched(u, i) /\ SetStatus(queue[u][i], "progress")
      BY <2>5 DEF TickPrepares
    <3> DEFINE f == queue[u][i]
    <3>2. f \in Files /\ status[f] = "queued" /\ status' = [status EXCEPT ![f] = "progress"]
      BY <2>0, <3>1 DEF Fetched, SetStatus
    <3> HIDE DEF f
    <3>3. \A g \in Files : status'[g] # status[g] => "inited" \notin {status[g], status'[g]}
      BY <2>0, <3>2
    <3> QED
      BY <2>1, <2>5, <3>3 DEF TickPrepares
  <2>6. ASSUME NEW u \in Uploaders, PrepareFails(u) PROVE Ordered'
    <3>1. /\ status' = [status EXCEPT ![preparing[u]] = "error"]
          /\ preparing[u] # NoFile
          /\ UNCHANGED queue
      BY <2>6 DEF PrepareFails, SetStatus
    <3>2. status[preparing[u]] = "progress"
      BY <1>2, <3>1 DEF PlaceInv, Placed
    <3>3. \A g \in Files : status'[g] # status[g] => "inited" \notin {status[g], status'[g]}
      BY <2>0, <3>1, <3>2
    <3> QED
      BY <2>1, <3>1, <3>3
  <2>7. ASSUME UNCHANGED <<status, queue>> PROVE Ordered'
    BY <2>1, <2>7
  <2>8. ASSUME NEW u \in Uploaders, NEW f \in Files, FileStep(u, f) PROVE Ordered'
    <3>1. CASE DoSend(u, f) \/ Loaded(u, f)
      BY <2>7, <3>1 DEF DoSend, Loaded
    <3> QED
      BY <2>2, <2>3, <2>8, <3>1 DEF FileStep
  <2>9. ASSUME NEW u \in Uploaders, LoopStep(u) PROVE Ordered'
    <3>1. CASE TickIdles(u) \/ StartSend(u)
      BY <2>7, <3>1 DEF TickIdles, StartSend
    <3> QED
      BY <2>4, <2>5, <2>6, <2>9, <3>1 DEF LoopStep
  <2> QED
    BY <1>2, <2>7, <2>8, <2>9 DEF EngineStep, engineVars
<1> QED
  BY <1>1, <1>2

-----------------------------------------------------------------------------
\* All that an upload queue keeps.
EngineInv == PlaceInv /\ Room /\ Awake /\ Ordered

\* Every step of an uploader keeps all of it.
LEMMA EngineInductive ==
  /\ EngineInit => EngineInv
  /\ EngineInv /\ EngineStep => EngineInv'
  BY PlaceInductive, RoomInductive, AwakeInductive, OrderedInductive DEF EngineInv

=============================================================================
