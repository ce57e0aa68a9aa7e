---------------------------- MODULE MessageBilling ----------------------------
(***************************************************************************)
(* The charging of the messages one friend sends to one agent.             *)
(*                                                                         *)
(* MessageFiterServiceImpl.filter looks at three Redis switches.  A        *)
(* message is either shown in clear and charged (an event for the Redis    *)
(* list "computationalCosts"), or replaced by a placeholder while its      *)
(* content goes to the table messagearchiveadapter.  When the agent has    *)
(* paid, a reveal request (MsgShowApi, selectByFromAndTo) reads a page of  *)
(* archived rows, charges and deletes them one by one, and returns them.   *)
(* Events are handled by the pools of two event-bus listeners.             *)
(***************************************************************************)
EXTENDS Naturals, FiniteSets

CONSTANTS
  Msgs,         \* the messages of the conversation
  Maskable,     \* those whose content type filter() has a placeholder for
  Reveals,      \* reveal requests that may run at the same time
  PageSize,     \* rows per page
  Faults,       \* which of "redis", "db", "crash" may happen
  MaxFails,     \* bound on restarts of the server and reveals that fail
  MaxFlips      \* bound on changes of the switches

Keys == {"xvkefu_charging", "agent", "friend"}

ASSUME BillingAssumption ==
  /\ Maskable \subseteq Msgs
  /\ Msgs \cap Reveals = {}
  /\ Reveals # {} /\ IsFiniteSet(Reveals)
  /\ PageSize \in Nat \ {0}
  /\ Faults \subseteq {"redis", "db", "crash"}
  /\ MaxFails \in Nat /\ MaxFlips \in Nat

VARIABLES
  due,       \* the keys whose value is "0": charging is on, the agent owes, the friend owes
  flips,     \* how often a switch was changed
  pc,        \* where the handling of a message, or a reveal, is
  encrypt,   \* messages that filter() encrypted
  seen,      \* messages whose content an open window showed
  archiveQ,  \* messages in the pool of MessageArchiveAdapterEventBusListenerImpl
  archive,   \* messages in the table messagearchiveadapter
  costQ,     \* costQ[m]: events for m in the pool of ComputationalCostsEventBusListenerImpl
  cost,      \* cost[m]: records for m in the Redis list "computationalCosts"
  page,      \* page[r]: the rows that reveal r has read
  rows,      \* rows[r]: those it has not charged yet
  row,       \* row[r]: the one it has charged and not deleted, as a set
  fails      \* how often a reveal failed or the server restarted

queueVars  == <<archiveQ, archive, costQ, cost>>
revealVars == <<page, rows, row>>
vars == <<due, flips, pc, encrypt, seen, queueVars, revealVars, fails>>

MsgStates    == {"new", "mask", "charge", "send", "done", "lost"}
RevealStates == {"idle", "select", "rows", "delete"}

\* Types; and only messages that filter encrypted are archived, or read by a reveal.
TypeOK ==
  /\ due \subseteq Keys
  /\ flips \in Nat
  /\ pc \in [Msgs \cup Reveals -> MsgStates \cup RevealStates]
  /\ \A m \in Msgs : pc[m] \in MsgStates
  /\ \A r \in Reveals : pc[r] \in RevealStates
  /\ encrypt \subseteq Msgs
  /\ seen \subseteq Msgs
  /\ archiveQ \subseteq encrypt
  /\ archive \subseteq encrypt
  /\ costQ \in [Msgs -> Nat]
  /\ cost \in [Msgs -> Nat]
  /\ page \in [Reveals -> SUBSET encrypt]
  /\ rows \in [Reveals -> SUBSET encrypt]
  /\ row \in [Reveals -> SUBSET encrypt]
  /\ fails \in Nat

Init ==
  /\ due \in SUBSET Keys
  /\ flips = 0
  /\ pc = [x \in Msgs \cup Reveals |-> IF x \in Msgs THEN "new" ELSE "idle"]
  /\ encrypt = {}
  /\ seen = {}
  /\ archiveQ = {}
  /\ archive = {}
  /\ costQ = [m \in Msgs |-> 0]
  /\ cost = [m \in Msgs |-> 0]
  /\ page = [r \in Reveals |-> {}]
  /\ rows = [r \in Reveals |-> {}]
  /\ row = [r \in Reveals |-> {}]
  /\ fails = 0

GoTo(x, from, to) == pc[x] = from /\ pc' = [pc EXCEPT ![x] = to]

-----------------------------------------------------------------------------
(* The switches, kept in Redis by the charging system. *)

\* Charging is on, and the agent or the friend owes.
Encrypts(keys) == "xvkefu_charging" \in keys /\ keys \cap {"agent", "friend"} # {}

\* isEncrypt.  JedisServiceImpl.getValue answers null for a key it cannot read.
IsEncrypt(verdict) ==
  \E unread \in SUBSET Keys : /\ unread = {} \/ "redis" \in Faults
                              /\ verdict = Encrypts(due \ unread)

\* The charging system, or the agent's msgShow request, changes a switch.
Flip(k) ==
  /\ flips < MaxFlips
  /\ flips' = flips + 1
  /\ due' = IF k \in due THEN due \ {k} ELSE due \cup {k}
  /\ UNCHANGED <<pc, encrypt, seen, queueVars, revealVars, fails>>

-----------------------------------------------------------------------------
(* WebSocketService.send: filter, then send to the open windows. *)

Filter(m) ==
  /\ \E verdict \in BOOLEAN :
       /\ IsEncrypt(verdict)
       /\ GoTo(m, "new", IF verdict THEN "mask" ELSE "charge")
  /\ UNCHANGED <<due, flips, encrypt, seen, queueVars, revealVars, fails>>

\* Post the archive event; the message carries a placeholder from here on.
\* Mutated form: setEncrypt(true) is forgotten.
MaskUnmarked(m) ==
  /\ GoTo(m, "mask", "send")
  /\ archiveQ' = archiveQ \cup {m}
  /\ UNCHANGED <<due, flips, encrypt, seen, archive, costQ, cost, revealVars, fails>>
Mask(m) ==
  /\ GoTo(m, "mask", "send")
  /\ encrypt' = encrypt \cup {m}
  /\ archiveQ' = archiveQ \cup {m}
  /\ UNCHANGED <<due, flips, seen, archive, costQ, cost, revealVars, fails>>

\* computationalCosts(jid, msg)
PostCost(m) == costQ' = [costQ EXCEPT ![m] = @ + 1]

Charge(m) ==
  /\ GoTo(m, "charge", "send")
  /\ PostCost(m)
  /\ UNCHANGED <<due, flips, encrypt, seen, archiveQ, archive, cost, revealVars, fails>>

\* Only a message that was not encrypted, or that has no placeholder, shows its
\* content; nobody may be connected.  Mutated form: no placeholder was set.
SendUnmasked(m) ==
  /\ GoTo(m, "send", "done")
  /\ seen' \in {seen, seen \cup {m}}
  /\ UNCHANGED <<due, flips, encrypt, queueVars, revealVars, fails>>
Send(m) ==
  /\ GoTo(m, "send", "done")
  /\ seen' \in {seen, IF m \in encrypt \cap Maskable THEN seen ELSE seen \cup {m}}
  /\ UNCHANGED <<due, flips, encrypt, queueVars, revealVars, fails>>

-----------------------------------------------------------------------------
(* The event-bus listeners, five threads each: the order is left open. *)

\* messageArchiveAdapterService.insert, or its failure, which is only logged.
\* Mutated form: a failure that nobody notices is possible at any time.
InsertOrForget(m) ==
  /\ m \in archiveQ
  /\ archiveQ' = archiveQ \ {m}
  /\ archive' \in {archive, archive \cup {m}}
  /\ UNCHANGED <<due, flips, pc, encrypt, seen, costQ, cost, revealVars, fails>>
Insert(m) ==
  /\ m \in archiveQ
  /\ archiveQ' = archiveQ \ {m}
  /\ archive' = archive \cup {m} \/ ("db" \in Faults /\ UNCHANGED archive)
  /\ UNCHANGED <<due, flips, pc, encrypt, seen, costQ, cost, revealVars, fails>>

\* jedisService.product("computationalCosts", ...), or its failure
Produce(m) ==
  /\ costQ[m] > 0
  /\ costQ' = [costQ EXCEPT ![m] = @ - 1]
  /\ cost' = [cost EXCEPT ![m] = @ + 1] \/ ("redis" \in Faults /\ UNCHANGED cost)
  /\ UNCHANGED <<due, flips, pc, encrypt, seen, archiveQ, archive, revealVars, fails>>

-----------------------------------------------------------------------------
(* A reveal: selectByFromAndTo *)

\* "the conditions for decryption are not met" ends the request.
RevealCheck(r) ==
  /\ pc[r] = "idle" /\ IsEncrypt(FALSE)
  /\ pc' = [pc EXCEPT ![r] = "select"]
  /\ UNCHANGED <<due, flips, encrypt, seen, queueVars, revealVars, fails>>

\* The newest rows first, or any other page of them.  Mutated form: page numbers
\* start at 0, and the page that is read comes after PageSize rows.
RevealSelectNext(r) ==
  /\ GoTo(r, "select", "rows")
  /\ \E read \in SUBSET archive :
       /\ Cardinality(read) <= PageSize
       /\ Cardinality(archive \ read) >= PageSize \/ read = {}
       /\ page' = [page EXCEPT ![r] = read]
       /\ rows' = [rows EXCEPT ![r] = read]
  /\ UNCHANGED <<due, flips, encrypt, seen, queueVars, row, fails>>
RevealSelect(r) ==
  /\ GoTo(r, "select", "rows")
  /\ \E read \in SUBSET archive :
       /\ Cardinality(read) <= PageSize /\ (read = {} => archive = {})
       /\ page' = [page EXCEPT ![r] = read]
       /\ rows' = [rows EXCEPT ![r] = read]
  /\ UNCHANGED <<due, flips, encrypt, seen, queueVars, row, fails>>

\* Mutated form: the row is not charged.
RevealRowFree(r, m) ==
  /\ GoTo(r, "rows", "delete") /\ m \in rows[r]
  /\ rows' = [rows EXCEPT ![r] = @ \ {m}]
  /\ row' = [row EXCEPT ![r] = {m}]
  /\ UNCHANGED <<due, flips, encrypt, seen, queueVars, page, fails>>
RevealRow(r, m) ==
  /\ GoTo(r, "rows", "delete") /\ m \in rows[r]
  /\ PostCost(m)
  /\ rows' = [rows EXCEPT ![r] = @ \ {m}]
  /\ row' = [row EXCEPT ![r] = {m}]
  /\ UNCHANGED <<due, flips, encrypt, seen, archiveQ, archive, cost, page, fails>>

\* deleteByPrimaryKey.  Mutated form: the row stays.
RevealKeepRow(r) ==
  /\ GoTo(r, "delete", "rows")
  /\ row' = [row EXCEPT ![r] = {}]
  /\ UNCHANGED <<due, flips, encrypt, seen, queueVars, page, rows, fails>>
RevealDelete(r) ==
  /\ GoTo(r, "delete", "rows")
  /\ archive' = archive \ row[r]
  /\ row' = [row EXCEPT ![r] = {}]
  /\ UNCHANGED <<due, flips, encrypt, seen, archiveQ, costQ, cost, page, rows, fails>>

\* The request ends: it returns its page, or an exception lost it.
EndReveal(r) ==
  /\ pc' = [pc EXCEPT ![r] = "idle"]
  /\ page' = [page EXCEPT ![r] = {}]
  /\ rows' = [rows EXCEPT ![r] = {}]
  /\ row' = [row EXCEPT ![r] = {}]

RevealReturn(r) ==
  /\ pc[r] = "rows" /\ rows[r] = {}
  /\ EndReveal(r)
  /\ seen' = seen \cup page[r]
  /\ UNCHANGED <<due, flips, encrypt, queueVars, fails>>

RevealFails(r) ==
  /\ "db" \in Faults /\ pc[r] \in {"select", "delete"}
  /\ fails < MaxFails /\ fails' = fails + 1
  /\ EndReveal(r)
  /\ UNCHANGED <<due, flips, encrypt, seen, queueVars>>

-----------------------------------------------------------------------------
\* The server restarts: the table and Redis stay, everything else is gone.
Crash ==
  /\ "crash" \in Faults /\ fails < MaxFails
  /\ fails' = fails + 1
  /\ pc' = [x \in Msgs \cup Reveals |->
              IF x \in Reveals THEN "idle"
              ELSE IF pc[x] \in {"new", "done"} THEN pc[x] ELSE "lost"]
  /\ archiveQ' = {}
  /\ costQ' = [m \in Msgs |-> 0]
  /\ page' = [r \in Reveals |-> {}]
  /\ rows' = [r \in Reveals |-> {}]
  /\ row' = [r \in Reveals |-> {}]
  /\ UNCHANGED <<due, flips, encrypt, seen, archive, cost>>

Handle(m) == Filter(m) \/ Mask(m) \/ Charge(m) \/ Send(m)

Reveal(r) ==
  \/ RevealCheck(r) \/ RevealSelect(r) \/ RevealDelete(r) \/ RevealReturn(r)
  \/ \E m \in Msgs : RevealRow(r, m)

Next ==
  \/ \E k \in Keys : Flip(k)
  \/ \E m \in Msgs : Handle(m) \/ Insert(m) \/ Produce(m)
  \/ \E r \in Reveals : Reveal(r) \/ RevealFails(r)
  \/ Crash

\* Threads run to their end, and the agent goes on asking for what is archived.
Fairness ==
  /\ \A m \in Msgs : WF_vars(Handle(m)) /\ WF_vars(Insert(m)) /\ WF_vars(Produce(m))
  /\ \A r \in Reveals : WF_vars(Reveal(r))

Spec     == Init /\ [][Next]_vars
FairSpec == Spec /\ Fairness

-----------------------------------------------------------------------------
(* Properties. *)

Costs(m) == cost[m] + costQ[m]

\* Without faults, the content of a message that has a placeholder is shown only
\* after it was charged: in filter, or row by row in selectByFromAndTo.
NoFreeContent == Faults = {} => \A m \in seen \cap Maskable : Costs(m) > 0

\* Without faults, the content that a placeholder stands for is never lost between
\* the pool, the table, a running reveal and the window.
ContentKept ==
  Faults = {} =>
    encrypt \subseteq archiveQ \cup archive \cup seen \cup UNION {page[r] : r \in Reveals}

\* A message is charged once, and once more only for each reveal that runs at the
\* same time as another or follows one that was cut off between charge and delete.
ChargeBound == \A m \in Msgs : Costs(m) <= Cardinality(Reveals) * (1 + fails)

\* "Message encryption" in filter: the content of an encrypted message is not shown
\* before it is charged.  filter has no placeholder for files, links and the like.
EncryptedIsHidden == \A m \in encrypt \cap seen : Costs(m) > 0

\* Without faults, filter, the pools and the reveals together keep the ledger of
\* PaidMessages: no message is left in clear and hidden, charged again once it was
\* left in clear, or shown unpaid.
Bill == [m \in Maskable |-> Costs(m)]
Paid == INSTANCE PaidMessages WITH
          Msgs    <- Maskable,
          MaxBill <- Cardinality(Reveals),
          bill    <- Bill,
          hidden  <- encrypt \cap Maskable,
          shown   <- seen \cap Maskable
KeepsLedger == Paid!Spec

\* Once the switches stay in the agent's favour, and the agent goes on asking, all
\* that was encrypted is shown: newer rows do not hide older ones for ever.
PaidContentIsShown ==
  <>[](~ Encrypts(due)) => \A m \in Msgs : m \in encrypt ~> m \in seen

=============================================================================
