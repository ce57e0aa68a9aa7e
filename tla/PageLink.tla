-------------------------------- MODULE PageLink --------------------------------
(***************************************************************************)
(* What a chat page shows of its connection.  A page tries to connect,     *)
(* opens a socket, loses it, notices, waits, and tries again, in this      *)
(* order.  It shows its warning ("you are offline, please refresh") when   *)
(* it is loaded, from the moment it notices a loss until a socket opens,   *)
(* and when it is told that it is not the agent's current page.            *)
(***************************************************************************)
CONSTANT Pages    \* the pages of an agent

VARIABLES
  phase,    \* phase[p]: "loaded", "trying", "open", "lost" or "waiting"
  warned    \* the pages that show the warning

Init ==
  /\ phase = [p \in Pages |-> "loaded"]
  /\ warned = Pages

Go(p, from, to) == phase[p] \in from /\ phase' = [phase EXCEPT ![p] = to]

Try(p)     == Go(p, {"loaded", "waiting"}, "trying") /\ UNCHANGED warned
Opens(p)   == Go(p, {"trying"}, "open") /\ warned' = warned \ {p}
Loses(p)   == Go(p, {"trying", "open"}, "lost") /\ UNCHANGED warned
Notices(p) == Go(p, {"lost"}, "waiting") /\ warned' = warned \cup {p}
Warn(p)    == phase[p] = "open" /\ warned' = warned \cup {p} /\ UNCHANGED phase

Next == \E p \in Pages : Try(p) \/ Opens(p) \/ Loses(p) \/ Notices(p) \/ Warn(p)

Spec == Init /\ [][Next]_<<phase, warned>>

===============================================================================
