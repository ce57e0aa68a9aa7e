---------------------------- MODULE UploadEngine ----------------------------
(***************************************************************************)
(* The upload queue of webuploader.js as the chat page uses it: automatic  *)
(* start, one block per file, no pausing, no cancelling and no retry.      *)
(*                                                                         *)
(* An uploader has one loop, _tick, that other steps schedule with         *)
(* nextTick.  A tick prepares one file at a time (_promise), and sends it  *)
(* when it is prepared, if fewer than Threads blocks are in the pool.      *)
(* Whoever takes a block out of the pool schedules a tick; startUpload     *)
(* schedules one only if the uploader is not running already.              *)
(*                                                                         *)
(* remaning goes up and down with the pool, so that Cardinality(pool)      *)
(* stands for it, and numOfQueue is the number of files with that status.  *)
(***************************************************************************)
EXTENDS Naturals, Sequences, FiniteSets

CONSTANTS
  Files,      \* the files an agent picks
  Uploaders,  \* the uploaders the page has created
  Threads,    \* opts.threads: blocks in transfer at a time
  NoFile      \* null

ASSUME EngineAssumption ==
  /\ Threads \in Nat \ {0}
  /\ NoFile \notin Files

VARIABLES
  status,     \* status[f]: the file's status; "none" before it is picked
  queue,      \* queue[u]: the files of uploader u, in the order they were added
  starts,     \* starts[u]: addFile's timers that will start the upload
  runing,     \* runing[u]
  ticks,      \* ticks[u]: calls of _tick that are scheduled or wait for _promise
  preparing,  \* preparing[u]: the file of _promise, or NoFile
  pool,       \* pool[u]: the files whose block is in the pool
  step        \* step[f]: how far the transfer of a block in a pool is

engineVars == <<status, queue, starts, runing, ticks, preparing, pool, step>>

Steps == {"none", "hook", "sending", "answered", "wedged"}

InQueue(u, f) == \E i \in DOMAIN queue[u] : queue[u][i] = f

Queued(u) == {f \in Files : status[f] = "queued" /\ InQueue(u, f)}

\* Types; a file is in the pool exactly while its block has a step, and it is in
\* progress before the upload is over.
EngineTypeOK ==
  /\ status \in [Files -> {"none", "inited", "queued", "progress", "complete", "error"}]
  /\ queue \in [Uploaders -> Seq(Files)]
  /\ starts \in [Uploaders -> Nat]
  /\ runing \in [Uploaders -> BOOLEAN]
  /\ ticks \in [Uploaders -> Nat]
  /\ preparing \in [Uploaders -> Files \cup {NoFile}]
  /\ pool \in [Uploaders -> SUBSET Files]
  /\ step \in [Files -> Steps]
  /\ \A f \in Files :
       /\ step[f] # "none" <=> \E u \in Uploaders : f \in pool[u]
       /\ step[f] \in {"hook", "sending", "answered"} => status[f] = "progress"
       /\ step[f] = "wedged" => status[f] = "complete"

EngineInit ==
  /\ status = [f \in Files |-> "none"]
  /\ queue = [u \in Uploaders |-> <<>>]
  /\ starts = [u \in Uploaders |-> 0]
  /\ runing = [u \in Uploaders |-> FALSE]
  /\ ticks = [u \in Uploaders |-> 0]
  /\ preparing = [u \in Uploaders |-> NoFile]
  /\ pool = [u \in Uploaders |-> {}]
  /\ step = [f \in Files |-> "none"]

\* Base.nextTick(me.__tick)
NextTick(u) == ticks' = [ticks EXCEPT ![u] = @ + 1]

SetStatus(f, s) == status' = [status EXCEPT ![f] = s]

-----------------------------------------------------------------------------
\* addFile: the file is queued, and a timer set to start the upload.  A file that is too
\* large or of another type is refused before anything changes.
AddFile(u, f) ==
  /\ status[f] = "none"
  /\ SetStatus(f, "inited")
  /\ queue' = [queue EXCEPT ![u] = Append(@, f)]
  /\ starts' = [starts EXCEPT ![u] = @ + 1]
  /\ UNCHANGED <<runing, ticks, preparing, pool, step>>

\* Mutant: a running uploader returns before it looks for new files.
StartUploadReturnsFirst(u) ==
  /\ starts[u] > 0
  /\ starts' = [starts EXCEPT ![u] = @ - 1]
  /\ status' = IF runing[u] THEN status
               ELSE [f \in Files |->
                       IF status[f] = "inited" /\ InQueue(u, f) THEN "queued" ELSE status[f]]
  /\ runing' = [runing EXCEPT ![u] = TRUE]
  /\ IF runing[u] THEN UNCHANGED ticks ELSE NextTick(u)
  /\ UNCHANGED <<queue, preparing, pool, step>>

\* startUpload: every new file is to be uploaded; the loop is started unless it runs.
StartUpload(u) ==
  /\ starts[u] > 0
  /\ starts' = [starts EXCEPT ![u] = @ - 1]
  /\ status' = [f \in Files |->
                  IF status[f] = "inited" /\ InQueue(u, f) THEN "queued" ELSE status[f]]
  /\ runing' = [runing EXCEPT ![u] = TRUE]
  /\ IF runing[u] THEN UNCHANGED ticks ELSE NextTick(u)
  /\ UNCHANGED <<queue, preparing, pool, step>>

\* Mutant: any file that is to be uploaded.
FetchedAny(u, i) == status[queue[u][i]] = "queued"

\* fetch: the first file of the queue that is to be uploaded.
Fetched(u, i) ==
  /\ status[queue[u][i]] = "queued"
  /\ \A j \in 1 .. i - 1 : status[queue[u][j]] # "queued"

\* A tick runs when nothing is being prepared.
TickRuns(u) ==
  /\ ticks[u] > 0
  /\ preparing[u] = NoFile
  /\ ticks' = [ticks EXCEPT ![u] = @ - 1]

\* Mutant: one block too many.
BusyWhenFull(u) == Cardinality(pool[u]) <= Threads /\ runing[u] /\ Queued(u) # {}

\* There is room in the pool and a file to upload.
Busy(u) == Cardinality(pool[u]) < Threads /\ runing[u] /\ Queued(u) # {}

\* _tick: _nextBlock, _prepareNextFile.
TickPrepares(u) ==
  /\ TickRuns(u)
  /\ Busy(u)
  /\ \E i \in DOMAIN queue[u] :
       /\ Fetched(u, i)
       /\ SetStatus(queue[u][i], "progress")
       /\ preparing' = [preparing EXCEPT ![u] = queue[u][i]]
  /\ UNCHANGED <<queue, starts, runing, pool, step>>

\* _tick with nothing to take: the loop ends when nothing is queued or in transfer.
TickIdles(u) ==
  /\ TickRuns(u)
  /\ ~Busy(u)
  /\ runing' = [runing EXCEPT ![u] = @ /\ (pool[u] # {} \/ Queued(u) # {})]
  /\ UNCHANGED <<status, queue, starts, preparing, pool, step>>

\* The file is prepared: _startSend puts its block into the pool.
StartSend(u) ==
  LET f == preparing[u]
  IN  /\ f # NoFile
      /\ preparing' = [preparing EXCEPT ![u] = NoFile]
      /\ pool' = [pool EXCEPT ![u] = @ \cup {f}]
      /\ step' = [step EXCEPT ![f] = "hook"]
      /\ NextTick(u)
      /\ UNCHANGED <<status, queue, starts, runing>>

\* Mutant: no tick after a file that could not be prepared.
PrepareFailsSilently(u) ==
  /\ preparing[u] # NoFile
  /\ preparing' = [preparing EXCEPT ![u] = NoFile]
  /\ SetStatus(preparing[u], "error")
  /\ UNCHANGED <<queue, starts, runing, ticks, pool, step>>

\* beforeSendFile could not load the picture it was to compress.
PrepareFails(u) ==
  /\ preparing[u] # NoFile
  /\ preparing' = [preparing EXCEPT ![u] = NoFile]
  /\ SetStatus(preparing[u], "error")
  /\ NextTick(u)
  /\ UNCHANGED <<queue, starts, runing, pool, step>>

\* _doSend: the request is sent, with a timer of two minutes.
DoSend(u, f) ==
  /\ f \in pool[u] /\ step[f] = "hook"
  /\ step' = [step EXCEPT ![f] = "sending"]
  /\ UNCHANGED <<status, queue, starts, runing, ticks, preparing, pool>>

\* The load event of a response with a status of 2xx.
Loaded(u, f) ==
  /\ f \in pool[u] /\ step[f] = "sending"
  /\ step' = [step EXCEPT ![f] = "answered"]
  /\ UNCHANGED <<status, queue, starts, runing, ticks, preparing, pool>>

\* uploadComplete, destroy, _popBlock: the block leaves the pool and a tick follows.
PopBlock(u, f) ==
  /\ pool' = [pool EXCEPT ![u] = @ \ {f}]
  /\ step' = [step EXCEPT ![f] = "none"]
  /\ NextTick(u)

\* Mutant: the block of a failed upload stays in the pool.
SendFailsKeepsBlock(u, f) ==
  /\ f \in pool[u] /\ step[f] = "sending"
  /\ SetStatus(f, "error")
  /\ NextTick(u)
  /\ UNCHANGED <<queue, starts, runing, preparing, pool, step>>

\* The error event: another status, a broken connection, or the timer.
SendFails(u, f) ==
  /\ f \in pool[u] /\ step[f] = "sending"
  /\ SetStatus(f, "error")
  /\ PopBlock(u, f)
  /\ UNCHANGED <<queue, starts, runing, preparing>>

\* _finishFile, a timer later: the handlers of uploadSuccess run, then uploadComplete.
FinishFile(u, f) ==
  /\ f \in pool[u] /\ step[f] = "answered"
  /\ SetStatus(f, "complete")
  /\ PopBlock(u, f)
  /\ UNCHANGED <<queue, starts, runing, preparing>>

\* A handler of uploadSuccess throws: uploadComplete is never triggered, and the block
\* stays in the pool for good.
FinishThrows(u, f) ==
  /\ f \in pool[u] /\ step[f] = "answered"
  /\ SetStatus(f, "complete")
  /\ step' = [step EXCEPT ![f] = "wedged"]
  /\ UNCHANGED <<queue, starts, runing, ticks, preparing, pool>>

-----------------------------------------------------------------------------
(* Properties of an uploader. *)

\* The pool never holds more than Threads blocks, although ticks overlap: what a tick
\* decided from the pool's size is still right when the file it prepares is ready.
AtMostThreads == \A u \in Uploaders : Cardinality(pool[u]) <= Threads

\* No file is forgotten: a file that is to be uploaded has a running loop that a tick, a
\* file in preparation or a block in the pool will wake, and a new file has a timer.
NoFileForgotten ==
  \A u \in Uploaders :
    /\ Queued(u) # {} => runing[u] /\ (ticks[u] > 0 \/ preparing[u] # NoFile \/ pool[u] # {})
    /\ \A f \in Files : InQueue(u, f) /\ status[f] = "inited" => starts[u] > 0

=============================================================================
