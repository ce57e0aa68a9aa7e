--------------------------- MODULE FileTransfers ---------------------------
(***************************************************************************)
(* What an agent who sends files may rely on: each uploader takes the      *)
(* files in the order they are picked, works on at most Threads of them at *)
(* a time, and brings each picked file to one outcome, once.               *)
(***************************************************************************)
EXTENDS Naturals, Sequences, FiniteSets

CONSTANTS
  Files,      \* the files an agent picks
  Uploaders,  \* the uploaders of the page
  Threads     \* how many files an uploader works on at a time

VARIABLES
  line,   \* line[u]: the files picked in uploader u, in order
  phase   \* phase[f]: how far f is

Outcomes == {"sent", "unsent", "failed"}

Sending(u) == {f \in Files : phase[f] = "sending" /\ \E i \in DOMAIN line[u] : line[u][i] = f}

Init ==
  /\ line = [u \in Uploaders |-> <<>>]
  /\ phase = [f \in Files |-> "none"]

Pick(u, f) ==
  /\ phase[f] = "none"
  /\ line' = [line EXCEPT ![u] = Append(@, f)]
  /\ phase' = [phase EXCEPT ![f] = "waiting"]

\* The first file that waits.
Start(u, i) ==
  /\ phase[line[u][i]] = "waiting"
  /\ \A j \in 1 .. i - 1 : phase[line[u][j]] # "waiting"
  /\ Cardinality(Sending(u)) < Threads
  /\ phase' = [phase EXCEPT ![line[u][i]] = "sending"]
  /\ UNCHANGED line

\* The file's message is on the socket; the upload is over without one; the upload failed.
End(f, outcome) ==
  /\ phase[f] = "sending"
  /\ phase' = [phase EXCEPT ![f] = outcome]
  /\ UNCHANGED line

Next ==
  \/ \E u \in Uploaders, f \in Files : Pick(u, f)
  \/ \E u \in Uploaders : \E i \in DOMAIN line[u] : Start(u, i)
  \/ \E f \in Files, outcome \in Outcomes : End(f, outcome)

Spec == Init /\ [][Next]_<<line, phase>>

=============================================================================
