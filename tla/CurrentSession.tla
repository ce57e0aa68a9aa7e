----------------------------- MODULE CurrentSession -----------------------------
(***************************************************************************)
(* What saveSession and isConnected promise: for each kind of page the     *)
(* server has at most one current session.  A session becomes the current  *)
(* one once, by its own arrival, and never comes back after another took   *)
(* its place; an open one is forgotten only while another one arrives.     *)
(* CustomerWindows implements this step by step, with maps and callbacks.  *)
(***************************************************************************)
CONSTANTS
  Sessions,  \* the sessions of the agent
  Kinds,     \* the kinds of pages
  KindOf,    \* KindOf[s]: the kind of page that opens s
  None       \* no session

VARIABLES
  stage,     \* stage[s]: "new", "arriving" or "settled"
  gone,      \* the sessions that have closed
  current    \* current[k]: the current session of kind k, or None

Init ==
  /\ stage = [s \in Sessions |-> "new"]
  /\ gone = {}
  /\ current = [k \in Kinds |-> None]

Arrive(s) ==
  /\ stage[s] = "new"
  /\ stage' = [stage EXCEPT ![s] = "arriving"]
  /\ UNCHANGED <<gone, current>>

\* It takes the place of the current session ...
Register(s) ==
  /\ stage[s] = "arriving"
  /\ stage' = [stage EXCEPT ![s] = "settled"]
  /\ current' = [current EXCEPT ![KindOf[s]] = s]
  /\ UNCHANGED gone

\* ... or fails, or loses a race with another one that arrives, and never will.
Miss(s) ==
  /\ stage[s] = "arriving"
  /\ stage' = [stage EXCEPT ![s] = "settled"]
  /\ UNCHANGED <<gone, current>>

Without(kinds) == [k \in Kinds |-> IF k \in kinds THEN None ELSE current[k]]

\* It closes; the server may notice at once.
Leave(s) ==
  /\ stage[s] # "new" /\ s \notin gone
  /\ gone' = gone \cup {s}
  /\ current' \in {current, Without({k \in Kinds : current[k] = s})}
  /\ UNCHANGED stage

\* The server forgets closed sessions, and any others while one arrives.
Forget(kinds) ==
  /\ \/ \A k \in kinds : current[k] \in gone
     \/ \E s \in Sessions : stage[s] = "arriving"
  /\ current' = Without(kinds)
  /\ UNCHANGED <<stage, gone>>

Next ==
  \/ \E s \in Sessions : Arrive(s) \/ Register(s) \/ Miss(s) \/ Leave(s)
  \/ \E kinds \in SUBSET Kinds : Forget(kinds)

Spec == Init /\ [][Next]_<<stage, gone, current>>

===============================================================================
