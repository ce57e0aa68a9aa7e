--------------------------- MODULE AgentDeskProofs ---------------------------
(***************************************************************************)
(* Theorems about AgentDesk, for any set of users, any number of kept      *)
(* messages and any bounds.                                                *)
(***************************************************************************)
EXTENDS AgentDesk, SequenceTheorems, TLAPS

-----------------------------------------------------------------------------
(* Sequences. *)

\* An element of a sequence is one of its values.
LEMMA RangeHas ==
  ASSUME NEW S, NEW s \in Seq(S), NEW i \in DOMAIN s
  PROVE  s[i] \in Range(s) /\ s[i] \in S
  BY DEF Range

\* RemoveAt takes out one element and keeps the order of the others.
LEMMA Removed ==
  ASSUME NEW S, NEW s \in Seq(S), NEW i \in 1 .. Len(s)
  PROVE  /\ RemoveAt(s, i) \in Seq(S)
         /\ Len(RemoveAt(s, i)) = Len(s) - 1
         /\ \A j \in 1 .. Len(s) - 1 : RemoveAt(s, i)[j] = IF j < i THEN s[j] ELSE s[j + 1]
<1> DEFINE a == SubSeq(s, 1, i - 1)
           b == SubSeq(s, i + 1, Len(s))
<1>1. /\ a \in Seq(S) /\ Len(a) = i - 1
      /\ \A j \in 1 .. i - 1 : a[j] = s[j]
  <2>1. \A j \in 1 .. i - 1 : s[j] \in S
    BY ElementOfSeq
  <2> QED
    BY <2>1, SubSeqProperties
<1>2. /\ b \in Seq(S) /\ Len(b) = Len(s) - i
      /\ \A j \in 1 .. Len(s) - i : b[j] = s[i + j]
  <2>1. \A j \in i + 1 .. Len(s) : s[j] \in S
    BY ElementOfSeq
  <2>2. /\ b \in Seq(S)
        /\ Len(b) = IF i + 1 <= Len(s) THEN Len(s) - (i + 1) + 1 ELSE 0
        /\ \A j \in 1 .. Len(s) - (i + 1) + 1 : b[j] = s[(i + 1) + j - 1]
    BY <2>1, SubSeqProperties
  <2> QED
    BY <2>2
<1> HIDE DEF a, b
<1>3. /\ a \o b \in Seq(S)
      /\ Len(a \o b) = Len(a) + Len(b)
      /\ \A j \in 1 .. Len(a) + Len(b) :
           (a \o b)[j] = IF j <= Len(a) THEN a[j] ELSE b[j - Len(a)]
  BY <1>1, <1>2, ConcatProperties
<1>4. RemoveAt(s, i) = a \o b
  BY DEF RemoveAt, a, b
<1>5. Len(s) \in Nat /\ Len(a) + Len(b) = Len(s) - 1
  BY <1>1, <1>2, LenProperties
<1>6. ASSUME NEW j \in 1 .. Len(s) - 1
      PROVE  (a \o b)[j] = IF j < i THEN s[j] ELSE s[j + 1]
  <2>1. (a \o b)[j] = IF j <= Len(a) THEN a[j] ELSE b[j - Len(a)]
    BY <1>3, <1>5
  <2>2. CASE j < i
    BY <1>1, <2>1, <2>2
  <2>3. CASE j >= i
    <3>1. j - (i - 1) \in 1 .. Len(s) - i /\ i + (j - (i - 1)) = j + 1
      BY <1>5, <2>3
    <3>2. (a \o b)[j] = b[j - (i - 1)]
      BY <1>1, <1>5, <2>1, <2>3
    <3>3. b[j - (i - 1)] = s[i + (j - (i - 1))]
      BY <1>2, <3>1
    <3>4. ~(j < i)
      BY <1>5, <2>3
    <3> QED
      BY <3>1, <3>2, <3>3, <3>4
  <2> QED
    BY <1>5, <2>2, <2>3
<1> QED
  BY <1>3, <1>4, <1>5, <1>6

\* What is left after RemoveAt.
LEMMA RemovedRange ==
  ASSUME NEW S, NEW s \in Seq(S), NEW i \in DOMAIN s
  PROVE  /\ Range(RemoveAt(s, i)) \subseteq Range(s)
         /\ Range(s) \subseteq Range(RemoveAt(s, i)) \cup {s[i]}
<1> DEFINE r == RemoveAt(s, i)
<1>0. i \in 1 .. Len(s)
  BY LenProperties
<1>1. /\ r \in Seq(S) /\ Len(r) = Len(s) - 1
      /\ \A j \in 1 .. Len(s) - 1 : r[j] = IF j < i THEN s[j] ELSE s[j + 1]
  BY <1>0, Removed, Zenon
<1> HIDE DEF r
<1>2. \A j \in DOMAIN r : r[j] \in Range(s)
  BY <1>1 DEF Range
<1>3. \A j \in DOMAIN s : j = i \/ s[j] \in Range(r)
  <2> TAKE j \in DOMAIN s
  <2>1. CASE j < i
    BY <1>1, <2>1 DEF Range
  <2>2. CASE j > i
    <3>1. j - 1 \in DOMAIN r /\ r[j - 1] = s[j]
      BY <1>1, <2>2
    <3> QED
      BY <3>1 DEF Range
  <2> QED
    BY <2>1, <2>2
<1> QED
  BY <1>2, <1>3 DEF Range, r

\* What EXCEPT does to the values of a sequence.
LEMMA ExceptRange ==
  ASSUME NEW S, NEW s \in Seq(S), NEW i \in DOMAIN s, NEW e \in S
  PROVE  /\ [s EXCEPT ![i] = e] \in Seq(S)
         /\ Range([s EXCEPT ![i] = e]) \subseteq Range(s) \cup {e}
         /\ Range(s) \cup {e} \subseteq Range([s EXCEPT ![i] = e]) \cup {s[i]}
         /\ e \in Range([s EXCEPT ![i] = e])
<1> DEFINE r == [s EXCEPT ![i] = e]
<1>1. r \in Seq(S) /\ DOMAIN r = DOMAIN s /\ \A j \in DOMAIN s : r[j] = IF j = i THEN e ELSE s[j]
  BY ExceptSeq
<1> QED
  BY <1>1 DEF Range

\* The values of a sequence with one more element, and of one without its first.
LEMMA AppendRange ==
  ASSUME NEW S, NEW s \in Seq(S), NEW e \in S
  PROVE  Append(s, e) \in Seq(S) /\ Range(Append(s, e)) = Range(s) \cup {e}
<1> DEFINE r == Append(s, e)
<1>1. /\ r \in Seq(S) /\ Len(r) = Len(s) + 1
      /\ \A i \in 1 .. Len(s) : r[i] = s[i]
      /\ r[Len(s) + 1] = e
  BY AppendProperties
<1> HIDE DEF r
<1>2. Range(r) = {r[i] : i \in 1 .. Len(s) + 1} /\ Range(s) = {s[i] : i \in 1 .. Len(s)}
  BY <1>1 DEF Range
<1>3. Range(r) = Range(s) \cup {e}
  BY <1>1, <1>2
<1> QED
  BY <1>1, <1>3 DEF r

\* No element occurs twice.
Distinct(s) == \A i, j \in DOMAIN s : s[i] = s[j] => i = j

\* One splice takes at most one user off; it is u, if u waits.
LEMMA SplicedOnce ==
  ASSUME NEW S, NEW s \in Seq(S), NEW u
  PROVE  /\ Spliced(s, u) \in Seq(S)
         /\ Range(Spliced(s, u)) \subseteq Range(s)
         /\ Distinct(s) => Distinct(Spliced(s, u)) /\ u \notin Range(Spliced(s, u))
         /\ u \in Range(s) => Range(s) \ {u} \subseteq Range(Spliced(s, u))
<1>1. CASE s = <<>>
  BY <1>1 DEF Spliced, Distinct, Range
<1>2. CASE s # <<>>
  <2> DEFINE at == IF u \in Range(s) THEN CHOOSE i \in DOMAIN s : s[i] = u ELSE Len(s)
             r  == RemoveAt(s, at)
  <2>1. Len(s) \in Nat \ {0} /\ DOMAIN s = 1 .. Len(s)
    BY <1>2, EmptySeq, LenProperties
  <2>2. at \in 1 .. Len(s) /\ (u \in Range(s) => s[at] = u)
    <3>1. u \in Range(s) => \E i \in DOMAIN s : s[i] = u
      BY DEF Range
    <3> QED
      BY <2>1, <3>1
  <2> HIDE DEF at
  <2>3. /\ r \in Seq(S) /\ Len(r) = Len(s) - 1
        /\ \A j \in 1 .. Len(s) - 1 : r[j] = IF j < at THEN s[j] ELSE s[j + 1]
    BY <2>2, Removed
  <2>4. Range(r) \subseteq Range(s) /\ Range(s) \subseteq Range(r) \cup {s[at]}
    BY <2>1, <2>2, RemovedRange
  <2>5. Spliced(s, u) = r
    BY <1>2 DEF Spliced, at
  <2> HIDE DEF r
  <2>6. DOMAIN r = 1 .. Len(s) - 1
    BY <2>3, LenProperties
  <2>7. ASSUME Distinct(s) PROVE Distinct(r) /\ u \notin Range(r)
    <3>1. \A i, j \in DOMAIN r : r[i] = r[j] => i = j
      <4> SUFFICES ASSUME NEW i \in DOMAIN r, NEW j \in DOMAIN r, r[i] = r[j] PROVE i = j
        OBVIOUS
      <4>1. s[IF i < at THEN i ELSE i + 1] = s[IF j < at THEN j ELSE j + 1]
        BY <2>3, <2>6
      <4>2. (IF i < at THEN i ELSE i + 1) \in DOMAIN s /\ (IF j < at THEN j ELSE j + 1) \in DOMAIN s
        BY <2>1, <2>6
      <4>3. (IF i < at THEN i ELSE i + 1) = (IF j < at THEN j ELSE j + 1)
        BY <2>7, <4>1, <4>2 DEF Distinct
      <4> QED
        BY <2>1, <2>2, <2>6, <4>3
    <3>2. ASSUME NEW i \in DOMAIN r PROVE r[i] # u
      <4> DEFINE k == IF i < at THEN i ELSE i + 1
      <4>1. r[i] = s[k] /\ k \in DOMAIN s /\ k # at
        BY <2>1, <2>2, <2>3, <2>6
      <4> HIDE DEF k
      <4>2. s[k] \in Range(s)
        BY <4>1, RangeHas
      <4>3. CASE u \in Range(s)
        BY <2>1, <2>2, <2>7, <4>1, <4>3 DEF Distinct
      <4> QED
        BY <4>1, <4>2, <4>3
    <3> QED
      BY <3>1, <3>2 DEF Distinct, Range
  <2> QED
    BY <2>2, <2>3, <2>4, <2>5, <2>7
<1> QED
  BY <1>1, <1>2

\* What the k handlers of one click do to recvMsg.
LEMMA SplicedOften ==
  ASSUME NEW S, NEW s \in Seq(S), NEW u, NEW k \in Nat \ {0}
  PROVE  /\ SplicedBy(k, s, u) \in Seq(S)
         /\ Range(SplicedBy(k, s, u)) \subseteq Range(s)
         /\ Distinct(s) => Distinct(SplicedBy(k, s, u)) /\ u \notin Range(SplicedBy(k, s, u))
         /\ k = 1 /\ u \in Range(s) => Range(s) \ {u} \subseteq Range(SplicedBy(k, s, u))
<1> DEFINE once == Spliced(s, u)
           m    == Len(once) - (k - 1)
           r    == SubSeq(once, 1, m)
<1>1. /\ once \in Seq(S) /\ Range(once) \subseteq Range(s)
      /\ Distinct(s) => Distinct(once) /\ u \notin Range(once)
      /\ u \in Range(s) => Range(s) \ {u} \subseteq Range(once)
  BY SplicedOnce
<1> HIDE DEF once
<1>2. Len(once) \in Nat /\ DOMAIN once = 1 .. Len(once)
  BY <1>1, LenProperties
<1>3. CASE Len(once) < k - 1
  <2>1. SplicedBy(k, s, u) = <<>>
    BY <1>3 DEF SplicedBy, once
  <2>2. k # 1
    BY <1>2, <1>3
  <2> QED
    BY <2>1, <2>2 DEF Distinct, Range
<1>4. CASE ~(Len(once) < k - 1)
  <2>1. SplicedBy(k, s, u) = r
    BY <1>4 DEF SplicedBy, once
  <2>2. m \in Nat /\ m <= Len(once)
    BY <1>2, <1>4
  <2>3. \A i \in 1 .. m : once[i] \in S
    BY <1>1, <1>2, <2>2, ElementOfSeq
  <2>4. /\ r \in Seq(S) /\ Len(r) = m
        /\ \A i \in 1 .. m : r[i] = once[i]
    <3> HIDE DEF m
    <3>1. /\ r \in Seq(S) /\ Len(r) = (IF 1 <= m THEN m - 1 + 1 ELSE 0)
          /\ \A i \in 1 .. m - 1 + 1 : r[i] = once[1 + i - 1]
      BY <2>2, <2>3, SubSeqProperties
    <3> QED
      BY <2>2, <3>1
  <2>5. k = 1 => r = once
    BY <1>1, <1>2, SubSeqFull
  <2> HIDE DEF r, m
  <2>6. DOMAIN r = 1 .. m
    BY <2>4, LenProperties
  <2>7. Range(r) \subseteq Range(once)
    BY <1>2, <2>2, <2>4, <2>6 DEF Range
  <2>8. Distinct(once) => Distinct(r)
    BY <1>2, <2>2, <2>4, <2>6 DEF Distinct
  <2> QED
    BY <1>1, <2>1, <2>4, <2>5, <2>7, <2>8
<1> QED
  BY <1>3, <1>4

-----------------------------------------------------------------------------
(* Requests. *)

\* A new request.
LEMMA SentType ==
  /\ \A u \in Users, k \in {"init", "off", "chat"} : Sent(k, u) \in Calls
  /\ \A k \in {"close", "list"} : Sent(k, None) \in Calls
  BY DEF Sent, Calls

\* The handlers of one click issue the same request several times.
LEMMA SeveralType ==
  ASSUME NEW n \in Nat, NEW c \in Calls
  PROVE  [j \in 1 .. n |-> c] \in Seq(Calls) /\ Range([j \in 1 .. n |-> c]) \subseteq {c}
<1>1. [j \in 1 .. n |-> c] \in [1 .. n -> Calls]
  OBVIOUS
<1> QED
  BY <1>1, SeqDef DEF Range

\* Issue adds its requests and keeps the others.
LEMMA IssueCalls ==
  ASSUME calls \in Seq(Calls), NEW cs \in Seq(Calls), Issue(cs)
  PROVE  calls' \in Seq(Calls) /\ Range(calls') = Range(calls) \cup Range(cs)
  BY ConcatProperties, RangeConcatenation DEF Issue

\* Advance replaces one request.
LEMMA AdvanceCalls ==
  ASSUME calls \in Seq(Calls), NEW i \in DOMAIN calls, NEW c \in Calls, Advance(i, c)
  PROVE  /\ calls' \in Seq(Calls)
         /\ Range(calls') \subseteq Range(calls) \cup {c}
         /\ Range(calls) \cup {c} \subseteq Range(calls') \cup {calls[i]}
         /\ c \in Range(calls')
  BY ExceptRange DEF Advance

\* Done takes one request out.
LEMMA DoneCalls ==
  ASSUME calls \in Seq(Calls), NEW i \in DOMAIN calls, Done(i)
  PROVE  /\ calls' \in Seq(Calls)
         /\ Range(calls') \subseteq Range(calls)
         /\ Range(calls) \subseteq Range(calls') \cup {calls[i]}
<1>1. Len(calls) \in Nat /\ DOMAIN calls = 1 .. Len(calls)
  BY LenProperties
<1> QED
  BY <1>1, Removed, RemovedRange DEF Done

\* A request in flight is a request.
LEMMA CallType ==
  ASSUME calls \in Seq(Calls), NEW i \in DOMAIN calls
  PROVE  calls[i] \in Calls /\ calls[i] \in Range(calls)
  BY RangeHas

\* The fields of a request, and what the server and the page change in one.
LEMMA CallFields ==
  ASSUME NEW c \in Calls
  PROVE  /\ c.user \in Users \cup {None} /\ c.found \subseteq Users
         /\ c.kind \in {"init", "off", "chat"} => c.user \in Users
         /\ c.kind = "init" => [c EXCEPT !.stage = "read"] \in Calls
         /\ [c EXCEPT !.stage = "answered"] \in Calls
         /\ \A F \in SUBSET Users : [c EXCEPT !.stage = "answered", !.found = F] \in Calls
         /\ [c EXCEPT !.orphan = TRUE] \in Calls
<1>1. CASE c \in [kind : {"init", "off", "chat"}, user : Users,
                  stage : {"sent", "read", "answered"}, orphan : BOOLEAN, found : SUBSET Users]
  BY <1>1 DEF Calls
<1>2. CASE c \in [kind : {"close", "list"}, user : {None},
                  stage : {"sent", "answered"}, orphan : BOOLEAN, found : SUBSET Users]
  BY <1>2 DEF Calls
<1> QED
  BY <1>1, <1>2 DEF Calls

\* Frames that have arrived.
LEMMA FrameFields ==
  ASSUME inbox \in Seq(Frames), inbox # <<>>
  PROVE  Head(inbox).from \in Users /\ Head(inbox).n \in Numbers /\ Tail(inbox) \in Seq(Frames)
<1>1. Head(inbox) \in Frames /\ Tail(inbox) \in Seq(Frames)
  BY HeadTailProperties
<1> QED
  BY <1>1 DEF Frames

\* What storage returns.
LEMMA StoredType ==
  ASSUME NEW s \in Seq(Numbers), NEW n \in Numbers
  PROVE  Stored(s, n) \in Seq(Numbers)
<1>1. s # <<>> => Tail(s) \in Seq(Numbers)
  BY HeadTailProperties
<1>2. Len(s) >= Keep => s # <<>>
  BY DeskAssumption, EmptySeq
<1> QED
  BY <1>1, <1>2, AppendProperties DEF Stored

\* A counter of a user goes up.
LEMMA CountUp ==
  ASSUME NEW g \in [Users -> Nat], NEW u \in Users
  PROVE  [g EXCEPT ![u] = @ + 1] \in [Users -> Nat]
  OBVIOUS

\* The bound on faults.
LEMMA FaultType ==
  ASSUME breaks \in 0 .. MaxTroubles, faults \in 0 .. MaxTroubles, Fault
  PROVE  faults' \in 0 .. MaxTroubles
  BY DeskAssumption DEF Fault, Trouble

\* A socket that breaks leaves no frame behind.
LEMMA UnlinkType ==
  ASSUME breaks \in 0 .. MaxTroubles, faults \in 0 .. MaxTroubles, Unlink
  PROVE  /\ linked' \in BOOLEAN /\ greeted' \in BOOLEAN /\ inbox' \in Seq(Frames)
         /\ inbox' = <<>> /\ ~greeted'
         /\ breaks' \in 0 .. MaxTroubles
<1>1. linked' = FALSE /\ greeted' = FALSE /\ inbox' = <<>>
  BY DEF Unlink
<1>2. linked' \in BOOLEAN /\ greeted' \in BOOLEAN
  BY <1>1, Zenon
<1>3. inbox' \in Seq(Frames)
  BY <1>1
<1>4. breaks' \in 0 .. MaxTroubles
  BY DeskAssumption DEF Unlink, Trouble
<1> QED
  BY <1>1, <1>2, <1>3, <1>4, Zenon

-----------------------------------------------------------------------------
\* Every step keeps the types.
LEMMA TypeStep == TypeOK /\ [Next]_vars => TypeOK'
<1> SUFFICES ASSUME TypeOK, [Next]_vars PROVE TypeOK'
  OBVIOUS
<1> USE DeskAssumption DEF TypeOK, netVars, pageVars, localVars, countVars, histVars
<1>1. ASSUME NEW u \in Users, Message(u) PROVE TypeOK'
  <2>1. [from |-> u, n |-> msgs + 1] \in Frames
    BY <1>1 DEF Message, Frames, Numbers
  <2>2. inbox' \in Seq(Frames)
    BY <1>1, <2>1, AppendProperties DEF Message
  <2>3. inbox' # <<>> => linked
    BY <1>1, <2>1 DEF Message
  <2> QED
    BY <1>1, <2>2, <2>3 DEF Message, Ensure
<1>2. ASSUME NEW u \in Users, OpenClick(u) \/ ToChatListed(u) PROVE TypeOK'
  <2>1. shown' \subseteq Numbers
    BY <1>2, RangeOfSeq DEF OpenClick, ToChatListed, OpenFriendWindow
  <2>2. recvMsg' \in Seq(Users)
    BY <1>2, SplicedOften DEF OpenClick, ToChatListed, OpenFriendWindow
  <2>3. calls' \in Seq(Calls)
    <3>1. Sent("init", u) \in Calls
      BY SentType
    <3>2. CASE OpenClick(u)
      BY <3>1, <3>2, SeveralType, IssueCalls DEF OpenClick
    <3>3. CASE ToChatListed(u)
      <4>1. <<Sent("init", u)>> \in Seq(Calls)
        BY <3>1
      <4> QED
        BY <3>3, <4>1, IssueCalls DEF ToChatListed
    <3> QED
      BY <1>2, <3>2, <3>3
  <2>4. slipped' \in BOOLEAN
    BY <1>2 DEF OpenClick, ToChatListed, OpenFriendWindow
  <2>5. dest' \in Users /\ unread' \in [Users -> Nat] /\ missed' \in [Users -> Nat]
    <3>1. dest' = u /\ unread' = [unread EXCEPT ![u] = 0] /\ missed' = [missed EXCEPT ![u] = 0]
      BY <1>2 DEF OpenClick, ToChatListed, OpenFriendWindow
    <3> QED
      BY <3>1
  <2>6. UNCHANGED <<conv, netVars, items, binds, store, countVars, log, raced>>
    BY <1>2 DEF OpenClick, ToChatListed
  <2> QED
    BY <2>1, <2>2, <2>3, <2>4, <2>5, <2>6
<1>3. ASSUME NEW u \in Users, ToChatUnlisted(u) PROVE TypeOK'
  <2>1. <<Sent("chat", u)>> \in Seq(Calls)
    BY SentType
  <2>2. calls' \in Seq(Calls)
    BY <1>3, <2>1, IssueCalls DEF ToChatUnlisted
  <2> QED
    BY <1>3, <2>2 DEF ToChatUnlisted
<1>4. CASE Receive
  <2> DEFINE u == Head(inbox).from
             n == Head(inbox).n
  <2>1. u \in Users /\ n \in Numbers /\ Tail(inbox) \in Seq(Frames) /\ inbox # <<>>
    BY <1>4, FrameFields DEF Receive
  <2>2. File(u, n)
    BY <1>4 DEF Receive
  <2>3. ReceiveOpen \/ ReceiveListed \/ ReceiveUnlisted \/ ReceiveUnlistedFails
    BY <1>4 DEF Receive
  <2>4. /\ inbox' = Tail(inbox)
        /\ UNCHANGED <<calls, linked, greeted, dest, binds, msgs, breaks, slipped>>
    BY <1>4 DEF Receive
  <2>5. (ReceiveOpen /\ UNCHANGED <<recvMsg, missed>>) \/ Wait(u)
    BY <2>3 DEF ReceiveOpen, ReceiveListed, ReceiveUnlisted, ReceiveUnlistedFails
  <2>6. /\ conv' \subseteq Users /\ items' \subseteq Users /\ raced' \subseteq Users
        /\ faults' \in 0 .. MaxTroubles
    <3>1. /\ conv \subseteq Users /\ items \subseteq Users /\ raced \subseteq Users
          /\ breaks \in 0 .. MaxTroubles /\ faults \in 0 .. MaxTroubles
      OBVIOUS
    <3> HIDE DEF TypeOK
    <3>2. /\ conv' \subseteq Users /\ items' \subseteq Users /\ raced' \subseteq Users
          /\ faults' = faults \/ Fault
      BY <2>1, <2>3, <3>1
      DEF ReceiveOpen, ReceiveListed, ReceiveUnlisted, ReceiveUnlistedFails, Ensure
    <3> QED
      BY <3>1, <3>2, FaultType
  <2>7. unread' = unread \/ CountUnread(u)
    BY <2>3
    DEF ReceiveOpen, ReceiveListed, ReceiveUnlisted, ReceiveUnlistedFails
  <2> HIDE DEF u, n
  <2>8. /\ recvMsg' \in Seq(Users) /\ missed' \in [Users -> Nat]
        /\ unread' \in [Users -> Nat]
    <3>1. recvMsg' = recvMsg \/ recvMsg' = Append(recvMsg, u)
      BY <2>5 DEF Wait
    <3>2. missed' = missed \/ missed' = [missed EXCEPT ![u] = @ + 1]
      BY <2>5 DEF Wait
    <3>3. unread' = unread \/ unread' = [unread EXCEPT ![u] = @ + 1]
      BY <2>7 DEF CountUnread
    <3>4. recvMsg \in Seq(Users) /\ Append(recvMsg, u) \in Seq(Users)
      BY <2>1, AppendProperties
    <3>0. missed \in [Users -> Nat] /\ unread \in [Users -> Nat]
      OBVIOUS
    <3> HIDE DEF TypeOK
    <3>5. missed' \in [Users -> Nat]
      BY <2>1, <3>0, <3>2, CountUp
    <3>6. unread' \in [Users -> Nat]
      BY <2>1, <3>0, <3>3, CountUp
    <3> QED
      BY <3>1, <3>4, <3>5, <3>6
  <2>9. store' \in [Users -> Seq(Numbers)] /\ log' \in [Users -> Seq(Numbers)]
    BY <2>1, <2>2, StoredType, AppendProperties DEF File
  <2>10. shown' \subseteq Numbers
    BY <2>1, <2>2 DEF File
  <2>11. linked' /\ inbox' \in Seq(Frames)
    BY <2>1, <2>4
  <2> QED
    BY <2>4, <2>6, <2>8, <2>9, <2>10, <2>11
<1>5. CASE Reply
  <2>1. dest \in Users /\ msgs + 1 \in Numbers
    BY <1>5 DEF Reply, Numbers
  <2>2. store' \in [Users -> Seq(Numbers)] /\ log' \in [Users -> Seq(Numbers)]
    BY <1>5, <2>1, StoredType, AppendProperties DEF Reply, File
  <2> QED
    BY <1>5, <2>1, <2>2 DEF Reply, File
<1>6. CASE CloseClick
  <2>1. Sent("off", dest) \in Calls
    BY <1>6, SentType DEF CloseClick
  <2>2. [j \in 1 .. binds |-> Sent("off", dest)] \in Seq(Calls)
    BY <2>1, SeveralType
  <2>3. calls' \in Seq(Calls)
    BY <1>6, <2>2, IssueCalls DEF CloseClick
  <2> QED
    BY <1>6, <2>3 DEF CloseClick
<1>7. ASSUME NEW i \in DOMAIN calls, InitReads(i) PROVE TypeOK'
  <2>1. calls' \in Seq(Calls)
    BY <1>7, CallType, CallFields, AdvanceCalls, DoneCalls DEF InitReads, At
  <2> QED
    BY <1>7, <2>1 DEF InitReads
<1>8. ASSUME NEW i \in DOMAIN calls, InitWrites(i) PROVE TypeOK'
  <2>1. calls' \in Seq(Calls) /\ calls[i].user \in Users
    BY <1>8, CallType, CallFields, DoneCalls DEF InitWrites, At
  <2> QED
    BY <1>8, <2>1 DEF InitWrites
<1>9. ASSUME NEW i \in DOMAIN calls, OffServes(i) PROVE TypeOK'
  <2>1. calls[i].user \in Users
    BY <1>9, CallType, CallFields DEF OffServes, At
  <2>2. calls' \in Seq(Calls)
    BY <1>9, CallType, CallFields, AdvanceCalls, DoneCalls DEF OffServes
  <2>3. conv' \subseteq Users /\ raced' \subseteq Users
    BY <1>9, <2>1 DEF OffServes
  <2>4. faults' \in 0 .. MaxTroubles
    BY <1>9, FaultType DEF OffServes
  <2> QED
    BY <1>9, <2>2, <2>3, <2>4 DEF OffServes
<1>10. ASSUME NEW i \in DOMAIN calls, ChatServes(i) PROVE TypeOK'
  <2>1. calls[i].user \in Users
    BY <1>10, CallType, CallFields DEF ChatServes, At
  <2>2. calls' \in Seq(Calls)
    BY <1>10, CallType, CallFields, AdvanceCalls, DoneCalls DEF ChatServes
  <2>3. conv' \subseteq Users /\ raced' \subseteq Users
    BY <1>10, <2>1 DEF ChatServes, Ensure
  <2> QED
    BY <1>10, <2>2, <2>3 DEF ChatServes
<1>11. ASSUME NEW i \in DOMAIN calls, ListServes(i) PROVE TypeOK'
  <2>1. calls' \in Seq(Calls)
    BY <1>11, CallType, CallFields, AdvanceCalls DEF ListServes
  <2> QED
    BY <1>11, <2>1 DEF ListServes
<1>12. ASSUME NEW i \in DOMAIN calls, ChatAnswered(i) PROVE TypeOK'
  <2> DEFINE u == calls[i].user
  <2>1. u \in Users
    BY <1>12, CallType, CallFields DEF ChatAnswered, Expects, At
  <2>2. calls' \in Seq(Calls)
    BY <1>12, <2>1, SentType, AdvanceCalls DEF ChatAnswered
  <2>3. OpenFriendWindow(u, 1) /\ items' = items \cup {u}
    BY <1>12 DEF ChatAnswered
  <2>4. UNCHANGED <<conv, netVars, binds, store, countVars, log, raced>>
    BY <1>12 DEF ChatAnswered
  <2> HIDE DEF u
  <2>5. shown' \subseteq Numbers
    BY <2>1, <2>3, RangeOfSeq DEF OpenFriendWindow
  <2>6. recvMsg' \in Seq(Users)
    BY <2>3, SplicedOften DEF OpenFriendWindow
  <2>7. slipped' \in BOOLEAN
    BY <2>3 DEF OpenFriendWindow
  <2>8. /\ dest' \in Users /\ unread' \in [Users -> Nat] /\ missed' \in [Users -> Nat]
    BY <2>1, <2>3 DEF OpenFriendWindow
  <2> QED
    BY <2>1, <2>2, <2>3, <2>4, <2>5, <2>6, <2>7, <2>8
<1>13. ASSUME NEW i \in DOMAIN calls, OffAnswered(i) PROVE TypeOK'
  <2>1. calls[i].user \in Users
    BY <1>13, CallType, CallFields DEF OffAnswered, Expects, At
  <2>2. calls' \in Seq(Calls)
    BY <1>13, SentType, AdvanceCalls DEF OffAnswered
  <2> QED
    BY <1>13, <2>1, <2>2 DEF OffAnswered
<1>14. ASSUME NEW i \in DOMAIN calls, CloseAnswered(i) PROVE TypeOK'
  <2>1. calls' \in Seq(Calls)
    BY <1>14, DoneCalls DEF CloseAnswered
  <2> QED
    BY <1>14, <2>1 DEF CloseAnswered
<1>15. ASSUME NEW i \in DOMAIN calls, ListAnswered(i) PROVE TypeOK'
  <2>1. calls' \in Seq(Calls) /\ calls[i].found \subseteq Users
    BY <1>15, CallType, CallFields, DoneCalls DEF ListAnswered
  <2> QED
    BY <1>15, <2>1 DEF ListAnswered
<1>16. ASSUME NEW i \in DOMAIN calls, Lost(i) PROVE TypeOK'
  <2>1. Doubtful(calls[i]) \subseteq Users
    <3>1. calls[i] \in Calls
      BY CallType
    <3>2. calls[i].kind \in {"off", "chat"} => calls[i].user \in Users
      BY <3>1, CallFields
    <3> QED
      BY <3>2 DEF Doubtful
  <2>2. calls' \in Seq(Calls)
    BY <1>16, CallType, CallFields, AdvanceCalls, DoneCalls DEF Lost
  <2> QED
    BY <1>16, <2>1, <2>2, FaultType DEF Lost
<1>17. ASSUME NEW i \in DOMAIN calls, Forgotten(i) PROVE TypeOK'
  <2>1. calls' \in Seq(Calls)
    BY <1>17, DoneCalls DEF Forgotten
  <2> QED
    BY <1>17, <2>1 DEF Forgotten
<1>18. CASE Break
  <2>1. breaks' \in 0 .. MaxTroubles
    BY <1>18, UnlinkType DEF Break
  <2>2. /\ linked' \in BOOLEAN /\ greeted' \in BOOLEAN /\ inbox' \in Seq(Frames)
        /\ inbox' = <<>> /\ ~greeted'
    BY <1>18, UnlinkType DEF Break
  <2>3. UNCHANGED <<conv, calls, pageVars, localVars, msgs, faults, histVars, raced>>
    BY <1>18 DEF Break
  <2> QED
    BY <2>1, <2>2, <2>3
<1>19. CASE InitSuccess
  <2>1. <<Sent("list", None)>> \in Seq(Calls)
    BY SentType
  <2>2. calls' \in Seq(Calls)
    BY <1>19, <2>1, IssueCalls DEF InitSuccess
  <2> QED
    BY <1>19, <2>2 DEF InitSuccess
<1>20. CASE Reload
  <2>1. \A i \in DOMAIN calls : [calls[i] EXCEPT !.orphan = TRUE] \in Calls
    BY CallType, CallFields
  <2>2. calls' \in Seq(Calls)
    <3>1. calls' = [i \in DOMAIN calls |-> [calls[i] EXCEPT !.orphan = TRUE]]
      BY <1>20 DEF Reload
    <3>2. DOMAIN calls = 1 .. Len(calls) /\ Len(calls) \in Nat
      BY LenProperties
    <3>3. calls' \in [1 .. Len(calls) -> Calls]
      BY <2>1, <3>1, <3>2
    <3>4. Seq(Calls) = UNION {[1 .. n -> Calls] : n \in Nat}
      BY SeqDef
    <3> QED
      BY <3>2, <3>3, <3>4
  <2>3. breaks' \in 0 .. MaxTroubles
    BY <1>20, UnlinkType DEF Reload
  <2>4. slipped' \in BOOLEAN
    BY <1>20 DEF Reload
  <2>5. /\ items' = {} /\ dest' = None /\ shown' = {} /\ recvMsg' = <<>> /\ binds' = 0
        /\ raced' = {} /\ UNCHANGED <<conv, localVars, msgs, faults, log, missed>>
    BY <1>20 DEF Reload
  <2>6. /\ linked' \in BOOLEAN /\ greeted' \in BOOLEAN /\ inbox' \in Seq(Frames)
        /\ inbox' = <<>> /\ ~greeted'
    BY <1>20, UnlinkType DEF Reload
  <2>7. /\ recvMsg' \in Seq(Users) /\ binds' \in 0 .. MaxBinds
        /\ items' \subseteq Users /\ dest' \in Users \cup {None} /\ shown' \subseteq Numbers
    BY <2>5
  <2> QED
    BY <2>2, <2>3, <2>4, <2>5, <2>6, <2>7
<1>21. CASE Connects
  BY <1>21 DEF Connects
<1>22. CASE UNCHANGED vars
  BY <1>22 DEF vars
<1> QED
  BY <1>1, <1>2, <1>3, <1>4, <1>5, <1>6, <1>7, <1>8, <1>9, <1>10, <1>11, <1>12, <1>13,
     <1>14, <1>15, <1>16, <1>17, <1>18, <1>19, <1>20, <1>21, <1>22
  DEF Next, Serve, Answer

\* Type correctness; frames are under way only to a page that is connected (Break and
\* Reload lose what was under way), and a page that was told initSuccess is connected and
\* has bound its handlers.
THEOREM TypeCorrect == Spec => []TypeOK
<1>1. Init => TypeOK
  <2> SUFFICES ASSUME Init PROVE TypeOK
    OBVIOUS
  <2>1. linked = FALSE /\ greeted = FALSE /\ slipped = FALSE /\ inbox = <<>>
    BY DEF Init
  <2>2. linked \in BOOLEAN /\ greeted \in BOOLEAN /\ slipped \in BOOLEAN
    BY <2>1
  <2>3. (inbox # <<>> \/ greeted => linked) /\ (greeted => binds > 0)
    BY <2>1
  <2>4. calls \in Seq(Calls) /\ inbox \in Seq(Frames) /\ recvMsg \in Seq(Users)
    BY DEF Init
  <2>5. store \in [Users -> Seq(Numbers)] /\ log \in [Users -> Seq(Numbers)]
    BY DEF Init
  <2> QED
    BY <2>2, <2>3, <2>4, <2>5, DeskAssumption DEF Init, TypeOK
<1> QED
  BY <1>1, TypeStep, PTL DEF Spec

-----------------------------------------------------------------------------
(* What a step does to the desk. *)

\* Only messages, the opening and closing of a window and a reload touch the window, the
\* waiting users, the counters and the stored messages.
LEMMA DeskSteps ==
  ASSUME TypeOK, [Next]_vars
  PROVE  \/ /\ UNCHANGED <<dest, shown, recvMsg, store, unread, log, missed, slipped>>
            /\ faults' >= faults
         \/ \E u \in Users, k \in Nat \ {0} :
              OpenFriendWindow(u, k) /\ UNCHANGED <<store, faults, log>>
         \/ Receive
         \/ Reply
         \/ /\ dest' = None
            /\ UNCHANGED <<shown, recvMsg, store, unread, faults, log, missed, slipped>>
         \/ Reload
<1> USE DEF netVars, pageVars, localVars, countVars, histVars
<1>0. faults \in Nat /\ binds \in Nat
  BY DeskAssumption DEF TypeOK
<1>1. ASSUME NEW u \in Users, Message(u) \/ ToChatUnlisted(u)
      PROVE  /\ UNCHANGED <<dest, shown, recvMsg, store, unread, log, missed, slipped>>
             /\ faults' >= faults
  BY <1>0, <1>1 DEF Message, ToChatUnlisted
<1>2. ASSUME NEW u \in Users, OpenClick(u) \/ ToChatListed(u)
      PROVE  \E k \in Nat \ {0} : OpenFriendWindow(u, k) /\ UNCHANGED <<store, faults, log>>
  <2>1. CASE OpenClick(u)
    <3>1. binds \in Nat \ {0} /\ OpenFriendWindow(u, binds) /\ UNCHANGED <<store, faults, log>>
      BY <1>0, <2>1 DEF OpenClick
    <3> QED
      BY <3>1
  <2>2. CASE ToChatListed(u)
    <3>1. OpenFriendWindow(u, 1) /\ UNCHANGED <<store, faults, log>>
      BY <2>2 DEF ToChatListed
    <3> QED
      BY <3>1
  <2> QED
    BY <1>2, <2>1, <2>2
<1>3. ASSUME CloseClick \/ Break \/ Connects \/ InitSuccess \/ UNCHANGED vars
      PROVE  /\ UNCHANGED <<dest, shown, recvMsg, store, unread, log, missed, slipped>>
             /\ faults' >= faults
  <2>1. UNCHANGED <<dest, shown, recvMsg, store, unread, log, missed, slipped, faults>>
    BY <1>3 DEF CloseClick, Break, Connects, InitSuccess, vars
  <2> QED
    BY <1>0, <2>1
<1>4. ASSUME NEW i \in DOMAIN calls, Serve(i) \/ Lost(i) \/ Forgotten(i)
      PROVE  /\ UNCHANGED <<dest, shown, recvMsg, store, unread, log, missed, slipped>>
             /\ faults' >= faults
  <2>1. UNCHANGED <<dest, shown, recvMsg, store, unread, log, missed, slipped>>
    BY <1>4
    DEF Serve, InitReads, InitWrites, OffServes, ChatServes, ListServes, Lost, Forgotten
  <2>2. Fault \/ UNCHANGED faults
    BY <1>4
    DEF Serve, InitReads, InitWrites, OffServes, ChatServes, ListServes, Lost, Forgotten
  <2> QED
    BY <1>0, <2>1, <2>2 DEF Fault
<1>5. ASSUME NEW i \in DOMAIN calls, ChatAnswered(i)
      PROVE  \E u \in Users, k \in Nat \ {0} :
               OpenFriendWindow(u, k) /\ UNCHANGED <<store, faults, log>>
  <2>1. calls[i].user \in Users
    BY <1>5, CallType, CallFields DEF TypeOK, ChatAnswered, Expects, At
  <2>2. OpenFriendWindow(calls[i].user, 1) /\ UNCHANGED <<store, faults, log>>
    BY <1>5 DEF ChatAnswered
  <2> QED
    BY <2>1, <2>2
<1>6. ASSUME NEW i \in DOMAIN calls, CloseAnswered(i)
      PROVE  /\ dest' = None
             /\ UNCHANGED <<shown, recvMsg, store, unread, faults, log, missed, slipped>>
  BY <1>6 DEF CloseAnswered
<1>7. ASSUME NEW i \in DOMAIN calls, OffAnswered(i) \/ ListAnswered(i)
      PROVE  /\ UNCHANGED <<dest, shown, recvMsg, store, unread, log, missed, slipped>>
             /\ faults' >= faults
  <2>1. UNCHANGED <<dest, shown, recvMsg, store, unread, log, missed, slipped, faults>>
    BY <1>7 DEF OffAnswered, ListAnswered
  <2> QED
    BY <1>0, <2>1
<1> QED
  BY <1>1, <1>2, <1>3, <1>4, <1>5, <1>6, <1>7 DEF Next, Answer

-----------------------------------------------------------------------------
(***************************************************************************)
(* Waiting users and unread counters.  The four properties are inductive   *)
(* together: that the splice of a user that waits takes this user off, and *)
(* no other, rests on recvMsg holding a user once.                         *)
(***************************************************************************)
CountsInv == OpenWindowHasNoUnread /\ WaitingHonest /\ WaitingComplete /\ UnreadCounts

\* Opening a window keeps them.
LEMMA CountsOpen ==
  ASSUME TypeOK, CountsInv, NEW u \in Users, NEW k \in Nat \ {0},
         OpenFriendWindow(u, k), UNCHANGED faults
  PROVE  CountsInv'
<1>1. /\ recvMsg \in Seq(Users) /\ unread \in [Users -> Nat] /\ missed \in [Users -> Nat]
      /\ faults \in Nat
  BY DeskAssumption DEF TypeOK
<1>2. /\ dest' = u
      /\ unread' = [unread EXCEPT ![u] = 0] /\ missed' = [missed EXCEPT ![u] = 0]
      /\ recvMsg' = SplicedBy(k, recvMsg, u)
  BY DEF OpenFriendWindow
<1>3. Distinct(recvMsg)
  BY DEF CountsInv, WaitingHonest, Distinct
<1>4. /\ Range(recvMsg') \subseteq Range(recvMsg)
      /\ Distinct(recvMsg') /\ u \notin Range(recvMsg')
      /\ k = 1 /\ u \in Range(recvMsg) => Range(recvMsg) \ {u} \subseteq Range(recvMsg')
  BY <1>1, <1>2, <1>3, SplicedOften
<1>5. Unanswered' = Unanswered \ {u}
  BY <1>1, <1>2 DEF Unanswered
<1>6. OpenWindowHasNoUnread'
  BY <1>1, <1>2, <1>4 DEF OpenWindowHasNoUnread
<1>7. WaitingHonest'
  <2>1. Range(recvMsg) \subseteq Unanswered
    BY DEF CountsInv, WaitingHonest
  <2>2. Range(recvMsg') \subseteq Unanswered'
    BY <1>4, <1>5, <2>1
  <2> QED
    BY <1>4, <2>2 DEF WaitingHonest, Distinct
<1>8. WaitingComplete'
  <2> SUFFICES ASSUME ~slipped' PROVE Unanswered' \subseteq Range(recvMsg')
    BY DEF WaitingComplete
  <2>1. ~slipped /\ (Unanswered \ {u} = {} \/ (missed[u] # 0 /\ ~(k > 1)))
    BY DEF OpenFriendWindow
  <2>2. Unanswered \subseteq Range(recvMsg)
    BY <2>1 DEF CountsInv, WaitingComplete
  <2>3. CASE Unanswered \ {u} = {}
    BY <1>5, <2>3
  <2>4. CASE missed[u] # 0 /\ ~(k > 1)
    <3>1. u \in Unanswered /\ k = 1
      BY <1>1, <2>4 DEF Unanswered
    <3> QED
      BY <1>4, <1>5, <2>2, <3>1
  <2> QED
    BY <2>1, <2>3, <2>4
<1>9. UnreadCounts'
  BY <1>1, <1>2 DEF CountsInv, UnreadCounts
<1> QED
  BY <1>6, <1>7, <1>8, <1>9 DEF CountsInv

\* A user whose window is not open joins the waiting ones, and is counted or the request
\* for its conversation has failed.
LEMMA CountsWait ==
  ASSUME TypeOK, CountsInv, NEW u \in Users, u # dest, Wait(u), UNCHANGED <<dest, slipped>>,
         \/ CountUnread(u) /\ UNCHANGED faults
         \/ UNCHANGED unread /\ Fault
  PROVE  CountsInv'
<1>1. /\ recvMsg \in Seq(Users) /\ unread \in [Users -> Nat] /\ missed \in [Users -> Nat]
      /\ faults \in Nat /\ dest \in Users \cup {None}
  BY DeskAssumption DEF TypeOK
<1>2. missed' = [missed EXCEPT ![u] = @ + 1]
  BY DEF Wait
<1>3. Range(recvMsg') = Range(recvMsg) \cup {u} /\ recvMsg' \in Seq(Users)
  <2>1. CASE u \in Range(recvMsg)
    BY <1>1, <2>1 DEF Wait
  <2>2. CASE u \notin Range(recvMsg)
    BY <1>1, <2>2, AppendRange DEF Wait
  <2> QED
    BY <2>1, <2>2
<1>4. Unanswered' = Unanswered \cup {u}
  BY <1>1, <1>2 DEF Unanswered
<1>5. OpenWindowHasNoUnread'
  <2> SUFFICES ASSUME dest' # None
               PROVE  unread'[dest'] = 0 /\ missed'[dest'] = 0 /\ dest' \notin Range(recvMsg')
    BY DEF OpenWindowHasNoUnread
  <2>1. dest \in Users /\ dest' = dest /\ dest # u
    BY <1>1
  <2>2. unread[dest] = 0 /\ missed[dest] = 0 /\ dest \notin Range(recvMsg)
    BY <2>1 DEF CountsInv, OpenWindowHasNoUnread
  <2>3. unread'[dest] = unread[dest]
    BY <1>1, <2>1 DEF CountUnread
  <2> QED
    BY <1>1, <1>2, <1>3, <2>1, <2>2, <2>3
<1>6. Distinct(recvMsg')
  <2>1. Distinct(recvMsg)
    BY DEF CountsInv, WaitingHonest, Distinct
  <2>2. CASE u \in Range(recvMsg)
    BY <2>1, <2>2 DEF Wait
  <2>3. CASE u \notin Range(recvMsg)
    <3>1. /\ Len(recvMsg') = Len(recvMsg) + 1
          /\ \A j \in 1 .. Len(recvMsg) : recvMsg'[j] = recvMsg[j]
          /\ recvMsg'[Len(recvMsg) + 1] = u
      BY <1>1, <2>3, AppendProperties DEF Wait
    <3>2. /\ Len(recvMsg) \in Nat /\ DOMAIN recvMsg = 1 .. Len(recvMsg)
          /\ DOMAIN recvMsg' = 1 .. Len(recvMsg) + 1
      BY <1>1, <1>3, <3>1, LenProperties
    <3>3. \A j \in 1 .. Len(recvMsg) : recvMsg'[j] # u
      BY <2>3, <3>1, <3>2 DEF Range
    <3> SUFFICES ASSUME NEW a \in DOMAIN recvMsg', NEW b \in DOMAIN recvMsg',
                        recvMsg'[a] = recvMsg'[b]
                 PROVE  a = b
      BY DEF Distinct
    <3>4. CASE a = Len(recvMsg) + 1
      BY <3>1, <3>2, <3>3, <3>4
    <3>5. CASE b = Len(recvMsg) + 1
      BY <3>1, <3>2, <3>3, <3>5
    <3>6. CASE a # Len(recvMsg) + 1 /\ b # Len(recvMsg) + 1
      <4>1. a \in DOMAIN recvMsg /\ b \in DOMAIN recvMsg
        BY <3>2, <3>6
      <4>2. recvMsg[a] = recvMsg[b]
        BY <3>1, <3>2, <4>1
      <4> QED
        BY <2>1, <4>1, <4>2 DEF Distinct
    <3> QED
      BY <3>4, <3>5, <3>6
  <2> QED
    BY <2>2, <2>3
<1>7. WaitingHonest'
  <2>1. Range(recvMsg') \subseteq Unanswered'
    BY <1>3, <1>4 DEF CountsInv, WaitingHonest
  <2> QED
    BY <1>6, <2>1 DEF WaitingHonest, Distinct
<1>8. WaitingComplete'
  BY <1>3, <1>4 DEF CountsInv, WaitingComplete
<1>9. UnreadCounts'
  <2>1. CASE CountUnread(u) /\ UNCHANGED faults
    BY <1>1, <1>2, <2>1 DEF CountsInv, UnreadCounts, CountUnread
  <2>2. CASE UNCHANGED unread /\ Fault
    <3>1. faults' # 0
      BY <1>1, <2>2 DEF Fault
    <3>2. \A v \in Users : missed'[v] >= missed[v] /\ missed[v] \in Nat /\ unread[v] \in Nat
      BY <1>1, <1>2
    <3>3. \A v \in Users : missed'[v] \in Nat
      BY <1>1, <1>2
    <3> QED
      BY <1>1, <2>2, <3>1, <3>2, <3>3 DEF CountsInv, UnreadCounts
  <2> QED
    BY <2>1, <2>2
<1> QED
  BY <1>5, <1>7, <1>8, <1>9 DEF CountsInv

\* Who waits and what is counted does not depend on the other variables.
LEMMA CountsKept ==
  ASSUME TypeOK, CountsInv, UNCHANGED <<recvMsg, unread, missed, slipped>>,
         dest' \in {dest, None}, faults' \in Nat, faults' >= faults
  PROVE  CountsInv'
<1>1. faults \in Nat /\ (faults' = 0 => faults = 0)
  BY DeskAssumption DEF TypeOK
<1>2. Unanswered' = Unanswered
  BY DEF Unanswered
<1>3. OpenWindowHasNoUnread'
  BY DEF CountsInv, OpenWindowHasNoUnread
<1>4. WaitingHonest'
  BY <1>2 DEF CountsInv, WaitingHonest
<1>5. WaitingComplete'
  BY <1>2 DEF CountsInv, WaitingComplete
<1>6. UnreadCounts'
  BY <1>1 DEF CountsInv, UnreadCounts
<1> QED
  BY <1>3, <1>4, <1>5, <1>6 DEF CountsInv

\* Every step of the desk keeps the counts and the waiting list right.
LEMMA CountsInductive ==
  /\ Init => CountsInv
  /\ TypeOK /\ TypeOK' /\ CountsInv /\ [Next]_vars => CountsInv'
<1>1. ASSUME Init PROVE CountsInv
  <2>1. /\ dest = None /\ recvMsg = <<>> /\ unread = [u \in Users |-> 0]
        /\ missed = [u \in Users |-> 0] /\ faults = 0
    BY <1>1 DEF Init
  <2>2. Unanswered = {}
    BY <2>1 DEF Unanswered
  <2>3. WaitingHonest
    BY <2>1 DEF WaitingHonest, Range
  <2>4. WaitingComplete
    BY <2>2 DEF WaitingComplete
  <2>5. OpenWindowHasNoUnread /\ UnreadCounts
    BY <2>1 DEF OpenWindowHasNoUnread, UnreadCounts
  <2> QED
    BY <2>3, <2>4, <2>5 DEF CountsInv
<1>2. ASSUME TypeOK, TypeOK', CountsInv, [Next]_vars PROVE CountsInv'
  <2>0. faults \in Nat /\ faults' \in Nat
    BY <1>2, DeskAssumption DEF TypeOK
  <2>1. CASE /\ UNCHANGED <<dest, shown, recvMsg, store, unread, log, missed, slipped>>
             /\ faults' >= faults
    BY <1>2, <2>0, <2>1, CountsKept
  <2>2. CASE \E u \in Users, k \in Nat \ {0} :
               OpenFriendWindow(u, k) /\ UNCHANGED <<store, faults, log>>
    BY <1>2, <2>2, CountsOpen
  <2>3. CASE Receive
    <3> DEFINE u == Head(inbox).from
    <3>1. u \in Users
      BY <1>2, <2>3, FrameFields DEF TypeOK, Receive
    <3>2. UNCHANGED <<dest, slipped>>
      BY <2>3 DEF Receive
    <3>3. CASE ReceiveOpen
      <4>1. UNCHANGED <<recvMsg, unread, missed, slipped, faults, dest>>
        BY <3>2, <3>3 DEF ReceiveOpen
      <4> QED
        BY <1>2, <2>0, <4>1, CountsKept
    <3>4. CASE ReceiveListed
      <4>1. u # dest /\ Wait(u) /\ CountUnread(u) /\ UNCHANGED faults
        BY <3>4 DEF ReceiveListed
      <4> QED
        BY <1>2, <3>1, <3>2, <4>1, CountsWait
    <3>5. CASE ReceiveUnlisted
      <4>1. u # dest /\ Wait(u) /\ CountUnread(u) /\ UNCHANGED faults
        BY <3>5 DEF ReceiveUnlisted
      <4> QED
        BY <1>2, <3>1, <3>2, <4>1, CountsWait
    <3>6. CASE ReceiveUnlistedFails
      <4>1. u # dest /\ Wait(u) /\ UNCHANGED unread /\ Fault
        BY <3>6 DEF ReceiveUnlistedFails
      <4> QED
        BY <1>2, <3>1, <3>2, <4>1, CountsWait
    <3> QED
      BY <2>3, <3>3, <3>4, <3>5, <3>6 DEF Receive
  <2>4. CASE Reply
    <3>1. UNCHANGED <<recvMsg, unread, missed, slipped, faults, dest>>
      BY <2>4 DEF Reply
    <3> QED
      BY <1>2, <2>0, <3>1, CountsKept
  <2>5. CASE /\ dest' = None
             /\ UNCHANGED <<shown, recvMsg, store, unread, faults, log, missed, slipped>>
    BY <1>2, <2>0, <2>5, CountsKept
  <2>6. CASE Reload
    <3>1. /\ dest' = None /\ recvMsg' = <<>> /\ UNCHANGED <<unread, missed, faults>>
          /\ (slipped' <=> Unanswered # {})
      BY <2>6 DEF Reload, localVars
    <3>2. Unanswered' = Unanswered
      BY <3>1 DEF Unanswered
    <3>3. WaitingComplete'
      BY <3>1, <3>2 DEF WaitingComplete
    <3>4. WaitingHonest'
      BY <3>1 DEF WaitingHonest, Range
    <3>5. OpenWindowHasNoUnread' /\ UnreadCounts'
      BY <1>2, <3>1 DEF CountsInv, OpenWindowHasNoUnread, UnreadCounts
    <3> QED
      BY <3>3, <3>4, <3>5 DEF CountsInv
  <2> QED
    BY <1>2, <2>1, <2>2, <2>3, <2>4, <2>5, <2>6, DeskSteps
<1> QED
  BY <1>1, <1>2

\* The four together are an invariant.
LEMMA CountsAlways == Spec => []CountsInv
<1>1. Spec => []TypeOK
  BY TypeCorrect
<1> QED
  BY <1>1, CountsInductive, PTL DEF Spec

\* The user whose window is open has no unread message and does not wait.
THEOREM NoUnreadInOpenWindow == Spec => []OpenWindowHasNoUnread
<1>1. CountsInv => OpenWindowHasNoUnread
  BY DEF CountsInv
<1> QED
  BY <1>1, CountsAlways, PTL

\* recvMsg counts a user once, and only one that has written since.
THEOREM WaitingIsHonest == Spec => []WaitingHonest
<1>1. CountsInv => WaitingHonest
  BY DEF CountsInv
<1> QED
  BY <1>1, CountsAlways, PTL

\* recvMsg misses a user only after the splice of a user that did not wait, the click
\* handlers of several connections, or a reload.
THEOREM WaitingIsComplete == Spec => []WaitingComplete
<1>1. CountsInv => WaitingComplete
  BY DEF CountsInv
<1> QED
  BY <1>1, CountsAlways, PTL

\* The unread counter of a user is the number of messages since its window was open, or
\* less if a request has failed.
THEOREM UnreadIsRight == Spec => []UnreadCounts
<1>1. CountsInv => UnreadCounts
  BY DEF CountsInv
<1> QED
  BY <1>1, CountsAlways, PTL

-----------------------------------------------------------------------------
(***************************************************************************)
(* Stored messages.                                                        *)
(***************************************************************************)
\* The last Keep messages of l.
Kept(l) == IF Len(l) <= Keep THEN l ELSE SubSeq(l, Len(l) - Keep + 1, Len(l))

\* storage keeps the last Keep messages when one is added.
LEMMA KeptAppend ==
  ASSUME NEW S, NEW l \in Seq(S), NEW n \in S
  PROVE  /\ Kept(l) \in Seq(S) /\ Range(Kept(l)) \subseteq Range(l)
         /\ Stored(Kept(l), n) = Kept(Append(l, n))
<1> DEFINE L == Len(l)
           a == Append(l, n)
<1>1. L \in Nat /\ Keep \in Nat \ {0} /\ DOMAIN l = 1 .. L
  BY DeskAssumption, LenProperties
<1>2. /\ a \in Seq(S) /\ Len(a) = L + 1 /\ a # <<>> /\ DOMAIN a = 1 .. L + 1
      /\ \A i \in 1 .. L : a[i] = l[i]
      /\ a[L + 1] = n
  BY AppendProperties, LenProperties
<1> HIDE DEF a
<1>3. CASE L < Keep
  <2>1. Kept(l) = l /\ Kept(a) = a
    BY <1>1, <1>2, <1>3 DEF Kept
  <2>2. Stored(l, n) = a
    BY <1>1, <1>3 DEF Stored, a
  <2> QED
    BY <2>1, <2>2 DEF a
<1>4. CASE L = Keep
  <2>1. Kept(l) = l /\ Kept(a) = SubSeq(a, 2, L + 1) /\ l # <<>>
    BY <1>1, <1>2, <1>4, EmptySeq DEF Kept
  <2>2. Stored(l, n) = Append(Tail(l), n)
    BY <1>1, <1>4 DEF Stored
  <2>3. Tail(a) = Append(Tail(l), n)
    BY <2>1, HeadTailAppend DEF a
  <2>4. Tail(a) = SubSeq(a, 2, L + 1)
    BY <1>2, TailIsSubSeq
  <2> QED
    BY <2>1, <2>2, <2>3, <2>4 DEF a
<1>5. CASE L > Keep
  <2> DEFINE m == L - Keep + 1
             k == SubSeq(l, m, L)
             t == SubSeq(a, m + 1, L + 1)
  <2>1. m \in 2 .. L /\ L - m + 1 = Keep
    BY <1>1, <1>5
  <2>2. Kept(l) = k /\ Kept(a) = t
    BY <1>1, <1>2, <1>5 DEF Kept
  <2> HIDE DEF m
  <2>3. /\ k \in Seq(S) /\ Len(k) = Keep
        /\ \A i \in 1 .. Keep : k[i] = l[m + i - 1]
    <3>1. \A i \in m .. L : l[i] \in S
      BY <1>1, <2>1, ElementOfSeq
    <3>2. /\ k \in Seq(S) /\ Len(k) = (IF m <= L THEN L - m + 1 ELSE 0)
          /\ \A i \in 1 .. L - m + 1 : k[i] = l[m + i - 1]
      BY <1>1, <2>1, <3>1, SubSeqProperties
    <3> QED
      BY <1>1, <2>1, <3>2
  <2>4. /\ t \in Seq(S) /\ Len(t) = Keep
        /\ \A i \in 1 .. Keep : t[i] = a[m + i]
    <3>1. \A i \in m + 1 .. L + 1 : a[i] \in S
      BY <1>1, <1>2, <2>1, ElementOfSeq
    <3>2. /\ t \in Seq(S)
          /\ Len(t) = (IF m + 1 <= L + 1 THEN (L + 1) - (m + 1) + 1 ELSE 0)
          /\ \A i \in 1 .. (L + 1) - (m + 1) + 1 : t[i] = a[(m + 1) + i - 1]
      BY <1>1, <2>1, <3>1, SubSeqProperties
    <3>3. (L + 1) - (m + 1) + 1 = Keep /\ m + 1 <= L + 1
      BY <1>1, <2>1
    <3>4. ASSUME NEW i \in 1 .. Keep PROVE (m + 1) + i - 1 = m + i
      BY <1>1, <2>1
    <3> QED
      BY <3>2, <3>3, <3>4
  <2> HIDE DEF k, t
  <2>5. k # <<>>
    BY <1>1, <2>3, EmptySeq
  <2>6. /\ Tail(k) \in Seq(S) /\ Len(Tail(k)) = Keep - 1
        /\ \A i \in 1 .. Keep - 1 : Tail(k)[i] = k[i + 1]
    BY <2>3, <2>5, HeadTailProperties
  <2> DEFINE r == Append(Tail(k), n)
  <2>7. /\ r \in Seq(S) /\ Len(r) = Keep
        /\ \A i \in 1 .. Keep - 1 : r[i] = Tail(k)[i]
        /\ r[Keep] = n
    <3>1. /\ r \in Seq(S) /\ Len(r) = (Keep - 1) + 1
          /\ \A i \in 1 .. Keep - 1 : r[i] = Tail(k)[i]
          /\ r[(Keep - 1) + 1] = n
      BY <2>6, AppendProperties
    <3> QED
      BY <1>1, <3>1
  <2> HIDE DEF r
  <2>8. ASSUME NEW i \in 1 .. Keep PROVE r[i] = t[i]
    <3>1. CASE i = Keep
      <4>1. m + i = L + 1
        BY <1>1, <2>1, <3>1
      <4> QED
        BY <1>2, <2>4, <2>7, <3>1, <4>1
    <3>2. CASE i # Keep
      <4>1. i \in 1 .. Keep - 1 /\ i + 1 \in 1 .. Keep /\ m + i \in 1 .. L /\ m + (i + 1) - 1 = m + i
        BY <1>1, <2>1, <3>2
      <4>2. r[i] = l[m + i]
        BY <2>3, <2>6, <2>7, <4>1
      <4> QED
        BY <1>2, <2>4, <4>1, <4>2
    <3> QED
      BY <3>1, <3>2
  <2>9. r = t
    BY <2>4, <2>7, <2>8, SeqEqual
  <2>10. Stored(k, n) = r
    BY <1>1, <2>3 DEF Stored, r
  <2>11. Range(k) \subseteq Range(l)
    <3>1. DOMAIN k = 1 .. Keep
      BY <2>3, LenProperties
    <3>2. ASSUME NEW i \in 1 .. Keep PROVE m + i - 1 \in 1 .. L
      BY <1>1, <2>1
    <3> QED
      BY <1>1, <2>3, <3>1, <3>2 DEF Range
  <2> QED
    BY <2>2, <2>3, <2>9, <2>10, <2>11 DEF a
<1>6. L < Keep \/ L = Keep \/ L > Keep
  <2>1. L \in Nat /\ Keep \in Nat
    BY <1>1
  <2> HIDE DEF L
  <2> QED
    BY <2>1
<1> QED
  BY <1>3, <1>4, <1>5, <1>6

\* The window that is open shows what is stored, and only what was received or sent in its
\* conversation; what is stored is the end of that.
StoreInv == HistoryIsSuffix /\ WindowShowsItsConversation

\* HistoryIsSuffix, by the part of the log that is kept.
LEMMA HistoryDef == HistoryIsSuffix <=> \A u \in Users : store[u] = Kept(log[u])
  BY DEF HistoryIsSuffix, Kept

\* A message is filed.
LEMMA StoreFile ==
  ASSUME TypeOK, StoreInv, NEW u \in Users, NEW n \in Numbers, File(u, n), UNCHANGED dest
  PROVE  StoreInv'
<1>1. /\ store \in [Users -> Seq(Numbers)] /\ log \in [Users -> Seq(Numbers)]
      /\ dest \in Users \cup {None}
  BY DEF TypeOK
<1>2. /\ store' = [store EXCEPT ![u] = Stored(store[u], n)]
      /\ log' = [log EXCEPT ![u] = Append(log[u], n)]
      /\ shown' = IF u = dest THEN shown \cup {n} ELSE shown
  BY DEF File
<1>3. \A v \in Users : store[v] = Kept(log[v])
  BY HistoryDef DEF StoreInv
<1>4. ASSUME NEW v \in Users PROVE store'[v] = Kept(log'[v])
  <2>1. CASE v = u
    <3>1. store'[u] = Stored(Kept(log[u]), n) /\ log'[u] = Append(log[u], n)
      BY <1>1, <1>2, <1>3
    <3>2. log[u] \in Seq(Numbers)
      BY <1>1
    <3> QED
      BY <2>1, <3>1, <3>2, KeptAppend
  <2>2. CASE v # u
    <3>1. store'[v] = store[v] /\ log'[v] = log[v]
      BY <1>1, <1>2, <2>2
    <3> QED
      BY <1>3, <3>1
  <2> QED
    BY <2>1, <2>2
<1>5. HistoryIsSuffix'
  BY <1>4 DEF HistoryIsSuffix, Kept
<1>6. WindowShowsItsConversation'
  <2> SUFFICES ASSUME dest' # None
               PROVE  shown' \subseteq Range(log'[dest']) /\ Range(store'[dest']) \subseteq shown'
    BY DEF WindowShowsItsConversation
  <2>1. dest' = dest /\ dest \in Users
    BY <1>1
  <2>2. shown \subseteq Range(log[dest]) /\ Range(store[dest]) \subseteq shown
    BY <2>1 DEF StoreInv, WindowShowsItsConversation
  <2>3. CASE u = dest
    <3>1. log[u] \in Seq(Numbers) /\ store[u] \in Seq(Numbers)
      BY <1>1
    <3>2. Range(log'[u]) = Range(log[u]) \cup {n}
      BY <1>1, <1>2, <3>1, AppendRange
    <3>3. Range(store'[u]) \subseteq Range(store[u]) \cup {n}
      <4>1. store'[u] = Stored(store[u], n)
        BY <1>1, <1>2
      <4>2. CASE Len(store[u]) >= Keep
        <5>1. store[u] # <<>>
          BY <3>1, <4>2, DeskAssumption, EmptySeq
        <5>2. /\ Tail(store[u]) \in Seq(Numbers) /\ Len(Tail(store[u])) = Len(store[u]) - 1
              /\ \A i \in 1 .. Len(Tail(store[u])) : Tail(store[u])[i] = store[u][i + 1]
          BY <3>1, <5>1, HeadTailProperties
        <5>3. /\ DOMAIN Tail(store[u]) = 1 .. Len(store[u]) - 1
              /\ DOMAIN store[u] = 1 .. Len(store[u]) /\ Len(store[u]) \in Nat
          BY <3>1, <5>2, LenProperties
        <5>4. \A i \in 1 .. Len(store[u]) - 1 :
                i + 1 \in DOMAIN store[u] /\ Tail(store[u])[i] = store[u][i + 1]
          BY <5>2, <5>3
        <5>5. Range(Tail(store[u])) \subseteq Range(store[u])
          BY <5>3, <5>4 DEF Range
        <5>6. Range(Append(Tail(store[u]), n)) = Range(Tail(store[u])) \cup {n}
          <6>1. Tail(store[u]) \in Seq(Numbers)
            BY <5>2
          <6>2. \A t \in Seq(Numbers) : Range(Append(t, n)) = Range(t) \cup {n}
            BY AppendRange
          <6> QED
            BY <6>1, <6>2, Zenon
        <5>7. store'[u] = Append(Tail(store[u]), n)
          BY <4>1, <4>2 DEF Stored
        <5> QED
          BY <5>5, <5>6, <5>7
      <4>3. CASE ~(Len(store[u]) >= Keep)
        BY <3>1, <4>1, <4>3, AppendRange DEF Stored
      <4> QED
        BY <4>2, <4>3
    <3> QED
      BY <1>2, <2>1, <2>2, <2>3, <3>2, <3>3
  <2>4. CASE u # dest
    <3>1. store'[dest] = store[dest] /\ log'[dest] = log[dest] /\ shown' = shown
      BY <1>1, <1>2, <2>1, <2>4
    <3> QED
      BY <2>1, <2>2, <3>1
  <2> QED
    BY <2>3, <2>4
<1> QED
  BY <1>5, <1>6 DEF StoreInv

\* Every step of the desk keeps the history and the window right.
LEMMA StoreInductive ==
  /\ Init => StoreInv
  /\ TypeOK /\ TypeOK' /\ StoreInv /\ [Next]_vars => StoreInv'
<1>1. ASSUME Init PROVE StoreInv
  <2>1. dest = None /\ store = [u \in Users |-> <<>>] /\ log = [u \in Users |-> <<>>]
    BY <1>1 DEF Init
  <2>2. \A u \in Users : store[u] = Kept(log[u])
    BY <2>1, DeskAssumption DEF Kept
  <2>3. HistoryIsSuffix
    BY <2>2, HistoryDef
  <2>4. WindowShowsItsConversation
    BY <2>1 DEF WindowShowsItsConversation
  <2> QED
    BY <2>3, <2>4 DEF StoreInv
<1>2. ASSUME TypeOK, TypeOK', StoreInv, [Next]_vars PROVE StoreInv'
  <2>1. CASE UNCHANGED <<dest, shown, store, log>>
    BY <1>2, <2>1 DEF StoreInv, HistoryIsSuffix, WindowShowsItsConversation
  <2>2. CASE \E u \in Users, k \in Nat \ {0} :
               OpenFriendWindow(u, k) /\ UNCHANGED <<store, faults, log>>
    <3>1. PICK u \in Users, k \in Nat \ {0} :
               OpenFriendWindow(u, k) /\ UNCHANGED <<store, faults, log>>
      BY <2>2
    <3>2. dest' = u /\ shown' = Range(store[u]) /\ store' = store /\ log' = log
      BY <3>1 DEF OpenFriendWindow
    <3>3. HistoryIsSuffix'
      BY <1>2, <3>2 DEF StoreInv, HistoryIsSuffix
    <3>4. Range(store[u]) \subseteq Range(log[u])
      <4>1. store[u] = Kept(log[u])
        BY <1>2, HistoryDef DEF StoreInv
      <4>2. log[u] \in Seq(Numbers)
        BY <1>2 DEF TypeOK
      <4>3. CASE log[u] = <<>>
        BY <4>1, <4>3, DeskAssumption DEF Kept
      <4>4. CASE log[u] # <<>>
        BY <4>1, <4>2, <4>4, HeadTailProperties, KeptAppend
      <4> QED
        BY <4>3, <4>4
    <3> QED
      BY <3>2, <3>3, <3>4 DEF StoreInv, WindowShowsItsConversation
  <2>3. CASE Receive
    <3>1. Head(inbox).from \in Users /\ Head(inbox).n \in Numbers
      BY <1>2, <2>3, FrameFields DEF TypeOK, Receive
    <3>2. File(Head(inbox).from, Head(inbox).n) /\ UNCHANGED dest
      BY <2>3 DEF Receive
    <3> QED
      BY <1>2, <3>1, <3>2, StoreFile
  <2>4. CASE Reply
    <3>1. dest \in Users /\ msgs + 1 \in Numbers
      BY <1>2, <2>4, DeskAssumption DEF TypeOK, Reply, Numbers
    <3>2. File(dest, msgs + 1) /\ UNCHANGED dest
      BY <2>4 DEF Reply
    <3> QED
      BY <1>2, <3>1, <3>2, StoreFile
  <2>5. CASE dest' = None /\ UNCHANGED <<store, log>>
    BY <1>2, <2>5 DEF StoreInv, HistoryIsSuffix, WindowShowsItsConversation
  <2>6. CASE Reload
    <3>1. dest' = None /\ UNCHANGED <<store, log>>
      BY <2>6 DEF Reload, localVars
    <3> QED
      BY <2>5, <3>1
  <2> QED
    BY <1>2, <2>1, <2>2, <2>3, <2>4, <2>5, <2>6, DeskSteps
<1> QED
  BY <1>1, <1>2

\* They are right in every reachable state.
LEMMA StoreAlways == Spec => []StoreInv
<1>1. Spec => []TypeOK
  BY TypeCorrect
<1> QED
  BY <1>1, StoreInductive, PTL DEF Spec

\* localStorage keeps the last Keep messages of each conversation, in order, whatever is
\* opened, closed or reloaded.
THEOREM HistoryIsKept == Spec => []HistoryIsSuffix
<1>1. StoreInv => HistoryIsSuffix
  BY DEF StoreInv
<1> QED
  BY <1>1, StoreAlways, PTL

\* The open window never shows a message of another conversation.
THEOREM WindowIsRight == Spec => []WindowShowsItsConversation
<1>1. StoreInv => WindowShowsItsConversation
  BY DEF StoreInv
<1> QED
  BY <1>1, StoreAlways, PTL

-----------------------------------------------------------------------------
(***************************************************************************)
(* The list and the server.  For a user that no race or fault has touched, *)
(* an entry without a conversation is about to be removed, a conversation  *)
(* without an entry has a frame or an answer on its way that will make     *)
(* one, and no answer on its way is out of date.                           *)
(***************************************************************************)
\* The answer will remove the entry of u.
Removes(c, u) == c.kind = "off" /\ c.stage = "answered" /\ ~c.orphan /\ c.user = u

\* The answer will make an entry of u.
Brings(c, u) ==
  /\ ~c.orphan /\ c.stage = "answered"
  /\ \/ c.kind = "chat" /\ c.user = u
     \/ c.kind = "list" /\ u \in c.found

\* The request will, or may still, make an entry of u.
WillBring(c, u) ==
  /\ ~c.orphan
  /\ \/ c.kind = "chat" /\ c.user = u
     \/ c.kind = "list" /\ (c.stage = "sent" \/ u \in c.found)

Concerns(c, u) == Removes(c, u) \/ WillBring(c, u)

EntryAsked(u) == \E c \in Range(calls) : WillBring(c, u)

FrameComing(u) == \E i \in DOMAIN inbox : inbox[i].from = u

Agrees(u) ==
  /\ u \in items /\ u \notin conv => Closing(u)
  /\ greeted /\ u \in conv /\ u \notin items => FrameComing(u) \/ EntryAsked(u)
  /\ EntryComing(u) => u \in conv
  /\ Closing(u) => u \notin conv

ListInv == \A u \in Users \ raced : Agrees(u)

\* What is closing and what is coming depends only on which requests there are.
LEMMA AsRange ==
  ASSUME NEW u
  PROVE  /\ Closing(u) <=> \E c \in Range(calls) : Removes(c, u)
         /\ EntryComing(u) <=> \E c \in Range(calls) : Brings(c, u)
  BY DEF Closing, EntryComing, Expects, At, Range, Removes, Brings

\* The same of the next state.
LEMMA AsRangePrime ==
  ASSUME NEW u
  PROVE  /\ Closing(u)' <=> \E c \in Range(calls') : Removes(c, u)
         /\ EntryComing(u)' <=> \E c \in Range(calls') : Brings(c, u)
  BY DEF Closing, EntryComing, Expects, At, Range, Removes, Brings

\* Requests that do not concern u come and go.
LEMMA Unconcerned ==
  ASSUME NEW u, NEW gone, NEW come,
         Range(calls') \subseteq Range(calls) \cup come,
         Range(calls) \subseteq Range(calls') \cup gone,
         \A c \in gone \cup come : ~Concerns(c, u)
  PROVE  /\ Closing(u)' <=> Closing(u)
         /\ EntryComing(u)' <=> EntryComing(u)
         /\ EntryAsked(u)' <=> EntryAsked(u)
<1>1. \A c : Brings(c, u) => WillBring(c, u)
  BY DEF Brings, WillBring
<1>2. /\ Closing(u) <=> \E c \in Range(calls) : Removes(c, u)
      /\ EntryComing(u) <=> \E c \in Range(calls) : Brings(c, u)
      /\ Closing(u)' <=> \E c \in Range(calls') : Removes(c, u)
      /\ EntryComing(u)' <=> \E c \in Range(calls') : Brings(c, u)
  BY AsRange, AsRangePrime
<1>3. EntryAsked(u) <=> \E c \in Range(calls) : WillBring(c, u)
  BY DEF EntryAsked
<1>4. EntryAsked(u)' <=> \E c \in Range(calls') : WillBring(c, u)
  BY DEF EntryAsked, WillBring
<1> QED
  BY <1>1, <1>2, <1>3, <1>4 DEF Concerns

\* Nothing about u changes.
LEMMA AgreesKept ==
  ASSUME NEW u, Agrees(u), u \in items' <=> u \in items, u \in conv' <=> u \in conv,
         greeted' => greeted, FrameComing(u) => FrameComing(u)',
         Closing(u)' <=> Closing(u), EntryComing(u)' <=> EntryComing(u),
         EntryAsked(u)' <=> EntryAsked(u)
  PROVE  Agrees(u)'
  BY DEF Agrees

\* Frames that join the inbox, and the first one that leaves it.
LEMMA FrameJoins ==
  ASSUME inbox \in Seq(Frames), NEW f \in Frames, inbox' = Append(inbox, f)
  PROVE  FrameComing(f.from)' /\ \A v : FrameComing(v) => FrameComing(v)'
<1>1. /\ Len(inbox') = Len(inbox) + 1
      /\ \A i \in 1 .. Len(inbox) : inbox'[i] = inbox[i]
      /\ inbox'[Len(inbox) + 1] = f
      /\ inbox' \in Seq(Frames)
  BY AppendProperties
<1>2. /\ Len(inbox) \in Nat /\ DOMAIN inbox = 1 .. Len(inbox)
      /\ DOMAIN inbox' = 1 .. Len(inbox) + 1
  BY <1>1, LenProperties
<1> QED
  BY <1>1, <1>2 DEF FrameComing

\* Taking the first frame leaves the frames of the others.
LEMMA FrameLeaves ==
  ASSUME inbox \in Seq(Frames), inbox # <<>>, inbox' = Tail(inbox),
         NEW v, v # Head(inbox).from
  PROVE  FrameComing(v) => FrameComing(v)'
<1>1. /\ inbox' \in Seq(Frames) /\ Len(inbox') = Len(inbox) - 1
      /\ \A i \in 1 .. Len(inbox') : inbox'[i] = inbox[i + 1]
  BY HeadTailProperties
<1>2. /\ Len(inbox) \in Nat \ {0} /\ DOMAIN inbox = 1 .. Len(inbox)
      /\ DOMAIN inbox' = 1 .. Len(inbox) - 1
  BY <1>1, EmptySeq, LenProperties
<1>3. Head(inbox) = inbox[1]
  BY <1>2
<1> SUFFICES ASSUME NEW i \in DOMAIN inbox, inbox[i].from = v PROVE FrameComing(v)'
  BY DEF FrameComing
<1>4. i # 1
  BY <1>3
<1>5. i - 1 \in DOMAIN inbox' /\ inbox'[i - 1] = inbox[i]
  BY <1>1, <1>2, <1>4
<1> QED
  BY <1>5 DEF FrameComing

\* Every step of the desk keeps the list in agreement with the server, or on its way to it.
LEMMA ListInductive ==
  /\ Init => ListInv
  /\ TypeOK /\ TypeOK' /\ ListInv /\ [Next]_vars => ListInv'
<1>1. ASSUME Init PROVE ListInv
  <2>1. calls = <<>> /\ items = {} /\ ~greeted
    BY <1>1 DEF Init
  <2>2. \A u : ~Closing(u) /\ ~EntryComing(u)
    BY <2>1 DEF Closing, EntryComing
  <2> QED
    BY <2>1, <2>2 DEF ListInv, Agrees
<1>2. ASSUME TypeOK, TypeOK', ListInv, [Next]_vars PROVE ListInv'
  <2> SUFFICES ASSUME NEW v \in Users, v \notin raced' PROVE Agrees(v)'
    BY DEF ListInv
  <2>0. /\ calls \in Seq(Calls) /\ inbox \in Seq(Frames)
        /\ v \notin raced => Agrees(v)
    BY <1>2 DEF TypeOK, ListInv
  <2> USE DEF netVars, pageVars, localVars, countVars, histVars
  <2>1. ASSUME NEW u \in Users, Message(u) PROVE Agrees(v)'
    <3>1. UNCHANGED <<calls, greeted, items>> /\ Ensure(u)
      BY <2>1 DEF Message
    <3>2. v \notin raced /\ Agrees(v) /\ (v = u => v \in conv \/ ~Closing(v))
      BY <2>0, <3>1 DEF Ensure
    <3>3. /\ Closing(v)' <=> Closing(v)
          /\ EntryComing(v)' <=> EntryComing(v)
          /\ EntryAsked(v)' <=> EntryAsked(v)
      BY <3>1 DEF Closing, EntryComing, EntryAsked, Expects, At
    <3>4. conv' = conv \cup {u}
      BY <3>1 DEF Ensure
    <3>5. (FrameComing(v) => FrameComing(v)') /\ (greeted /\ v = u => FrameComing(v)')
      <4>1. CASE linked
        <5>1. [from |-> u, n |-> msgs + 1] \in Frames
          BY <1>2, <2>1, DeskAssumption DEF TypeOK, Message, Frames, Numbers
        <5>2. inbox' = Append(inbox, [from |-> u, n |-> msgs + 1])
          BY <2>1, <4>1 DEF Message
        <5> QED
          BY <2>0, <5>1, <5>2, FrameJoins
      <4>2. CASE ~linked
        BY <1>2, <2>1, <4>2 DEF TypeOK, Message, FrameComing
      <4> QED
        BY <4>1, <4>2
    <3> QED
      BY <3>1, <3>2, <3>3, <3>4, <3>5 DEF Agrees
  <2>2. ASSUME NEW cs \in Seq(Calls), Issue(cs),
               \A c \in Range(cs) : ~Concerns(c, v),
               UNCHANGED <<conv, greeted, inbox, items, raced>>
        PROVE  Agrees(v)'
    <3>1. Range(calls') = Range(calls) \cup Range(cs)
      BY <2>0, <2>2, IssueCalls
    <3>2. /\ Closing(v)' <=> Closing(v)
          /\ EntryComing(v)' <=> EntryComing(v)
          /\ EntryAsked(v)' <=> EntryAsked(v)
      <4>1. \A c \in {} \cup Range(cs) : ~Concerns(c, v)
        BY <2>2
      <4>2. Range(calls') \subseteq Range(calls) \cup Range(cs)
        BY <3>1
      <4>3. Range(calls) \subseteq Range(calls') \cup {}
        BY <3>1
      <4> QED
        BY <4>1, <4>2, <4>3, Unconcerned
    <3>3. FrameComing(v)' <=> FrameComing(v)
      BY <2>2 DEF FrameComing
    <3> QED
      BY <2>0, <2>2, <3>2, <3>3, AgreesKept
  <2>3. ASSUME NEW u \in Users, OpenClick(u) \/ ToChatListed(u) PROVE Agrees(v)'
    <3>1. Sent("init", u) \in Calls /\ ~Concerns(Sent("init", u), v)
      BY SentType DEF Sent, Concerns, Removes, WillBring
    <3>2. CASE OpenClick(u)
      <4> DEFINE cs == [j \in 1 .. binds |-> Sent("init", u)]
      <4>0. binds \in Nat
        BY <1>2, DeskAssumption DEF TypeOK
      <4>1. cs \in Seq(Calls) /\ Range(cs) \subseteq {Sent("init", u)}
        BY <3>1, <4>0, SeveralType
      <4>2. Issue(cs) /\ UNCHANGED <<conv, greeted, inbox, items, raced>>
        BY <3>2 DEF OpenClick
      <4> HIDE DEF cs
      <4>3. \A c \in Range(cs) : ~Concerns(c, v)
        BY <3>1, <4>1
      <4> QED
        BY <2>2, <4>1, <4>2, <4>3
    <3>3. CASE ToChatListed(u)
      <4> DEFINE cs == <<Sent("init", u)>>
      <4>1. cs \in Seq(Calls) /\ Range(cs) \subseteq {Sent("init", u)}
        BY <3>1 DEF Range
      <4>2. Issue(cs) /\ UNCHANGED <<conv, greeted, inbox, items, raced>>
        BY <3>3 DEF ToChatListed
      <4> HIDE DEF cs
      <4>3. \A c \in Range(cs) : ~Concerns(c, v)
        BY <3>1, <4>1
      <4> QED
        BY <2>2, <4>1, <4>2, <4>3
    <3> QED
      BY <2>3, <3>2, <3>3
  <2>4. ASSUME NEW u \in Users, ToChatUnlisted(u) PROVE Agrees(v)'
    <3> DEFINE cs == <<Sent("chat", u)>>
    <3>1. Sent("chat", u) \in Calls /\ ~Removes(Sent("chat", u), v) /\ ~Brings(Sent("chat", u), v)
      BY SentType DEF Sent, Removes, Brings
    <3>2. cs \in Seq(Calls) /\ Range(cs) = {Sent("chat", u)}
      BY <3>1 DEF Range
    <3>3. Issue(cs) /\ UNCHANGED <<conv, greeted, inbox, items, raced>>
      BY <2>4 DEF ToChatUnlisted
    <3> HIDE DEF cs
    <3>4. Range(calls') = Range(calls) \cup {Sent("chat", u)}
      BY <2>0, <3>2, <3>3, IssueCalls
    <3>5. (Closing(v)' <=> Closing(v)) /\ (EntryComing(v)' <=> EntryComing(v))
      BY <3>1, <3>4, AsRange, AsRangePrime
    <3>6. EntryAsked(v) => EntryAsked(v)'
      BY <3>4 DEF EntryAsked, WillBring
    <3>7. FrameComing(v)' <=> FrameComing(v)
      BY <3>3 DEF FrameComing
    <3> QED
      BY <2>0, <3>3, <3>5, <3>6, <3>7 DEF Agrees
  <2>5. CASE Receive
    <3> DEFINE u == Head(inbox).from
    <3>1. /\ UNCHANGED <<calls, greeted, dest>> /\ inbox # <<>> /\ inbox' = Tail(inbox)
          /\ ReceiveOpen \/ ReceiveListed \/ ReceiveUnlisted \/ ReceiveUnlistedFails
      BY <2>5 DEF Receive
    <3>2. /\ Closing(v)' <=> Closing(v)
          /\ EntryComing(v)' <=> EntryComing(v)
          /\ EntryAsked(v)' <=> EntryAsked(v)
      BY <3>1 DEF Closing, EntryComing, EntryAsked, Expects, At
    <3>3. v # u => (FrameComing(v) => FrameComing(v)')
      BY <2>0, <3>1, FrameLeaves
    <3>4. v \notin raced
      BY <3>1 DEF ReceiveOpen, ReceiveListed, ReceiveUnlisted, ReceiveUnlistedFails, Ensure
    <3>5. /\ conv' = conv \/ (conv' = conv \cup {u} /\ (u = v => u \in conv \/ ~Closing(u)))
          /\ items' = items \/ (items' = items \cup {u} /\ u \in conv')
          /\ v = u => v \in items'
      BY <3>1 DEF ReceiveOpen, ReceiveListed, ReceiveUnlisted, ReceiveUnlistedFails, Ensure
    <3> HIDE DEF u
    <3> QED
      BY <2>0, <3>1, <3>2, <3>3, <3>4, <3>5 DEF Agrees
  <2>6. CASE Reply \/ Connects \/ UNCHANGED vars
    <3>1. UNCHANGED <<calls, conv, greeted, inbox, items, raced>>
      BY <2>6 DEF Reply, Connects, vars
    <3>2. /\ Closing(v)' <=> Closing(v)
          /\ EntryComing(v)' <=> EntryComing(v)
          /\ EntryAsked(v)' <=> EntryAsked(v)
          /\ FrameComing(v)' <=> FrameComing(v)
      BY <3>1 DEF Closing, EntryComing, EntryAsked, Expects, At, FrameComing
    <3> QED
      BY <2>0, <3>1, <3>2, AgreesKept
  <2>7. CASE CloseClick
    <3> DEFINE cs == [j \in 1 .. binds |-> Sent("off", dest)]
    <3>1. binds \in Nat /\ dest \in Users
      BY <1>2, <2>7, DeskAssumption DEF TypeOK, CloseClick
    <3>2. Sent("off", dest) \in Calls /\ ~Concerns(Sent("off", dest), v)
      BY <3>1, SentType DEF Sent, Concerns, Removes, WillBring
    <3>3. cs \in Seq(Calls) /\ Range(cs) \subseteq {Sent("off", dest)}
      BY <3>1, <3>2, SeveralType
    <3>4. Issue(cs) /\ UNCHANGED <<conv, greeted, inbox, items, raced>>
      BY <2>7 DEF CloseClick
    <3> HIDE DEF cs
    <3>5. \A c \in Range(cs) : ~Concerns(c, v)
      BY <3>2, <3>3
    <3> QED
      BY <2>2, <3>3, <3>4, <3>5
  <2>8. ASSUME NEW i \in DOMAIN calls, ~Concerns(calls[i], v),
               \/ Done(i)
               \/ \E d \in Calls : ~Concerns(d, v) /\ Advance(i, d)
        PROVE  /\ Closing(v)' <=> Closing(v)
               /\ EntryComing(v)' <=> EntryComing(v)
               /\ EntryAsked(v)' <=> EntryAsked(v)
    <3>1. CASE Done(i)
      <4>1. /\ Range(calls') \subseteq Range(calls) \cup {}
            /\ Range(calls) \subseteq Range(calls') \cup {calls[i]}
        BY <2>0, <3>1, DoneCalls
      <4>2. \A c \in {calls[i]} \cup {} : ~Concerns(c, v)
        BY <2>8
      <4> QED
        BY <4>1, <4>2, Unconcerned
    <3>2. CASE \E d \in Calls : ~Concerns(d, v) /\ Advance(i, d)
      <4>1. PICK d \in Calls : ~Concerns(d, v) /\ Advance(i, d)
        BY <3>2
      <4>2. /\ Range(calls') \subseteq Range(calls) \cup {d}
            /\ Range(calls) \subseteq Range(calls') \cup {calls[i]}
        BY <2>0, <4>1, AdvanceCalls
      <4>3. \A c \in {calls[i]} \cup {d} : ~Concerns(c, v)
        BY <2>8, <4>1
      <4> QED
        BY <4>2, <4>3, Unconcerned
    <3> QED
      BY <2>8, <3>1, <3>2
  <2>9. ASSUME NEW i \in DOMAIN calls, InitReads(i) PROVE Agrees(v)'
    <3>1. calls[i].kind = "init" /\ calls[i] \in Calls
      BY <2>0, <2>9, CallType DEF InitReads, At
    <3>2. \A d : d.kind = "init" => ~Concerns(d, v)
      BY DEF Concerns, Removes, WillBring
    <3>3. /\ [calls[i] EXCEPT !.stage = "read"] \in Calls
          /\ [calls[i] EXCEPT !.stage = "read"].kind = "init"
      BY <3>1, CallFields DEF Calls
    <3>4. Done(i) \/ Advance(i, [calls[i] EXCEPT !.stage = "read"])
      BY <2>9 DEF InitReads
    <3>5. UNCHANGED <<conv, greeted, inbox, items, raced>>
      BY <2>9 DEF InitReads
    <3>6. /\ Closing(v)' <=> Closing(v)
          /\ EntryComing(v)' <=> EntryComing(v)
          /\ EntryAsked(v)' <=> EntryAsked(v)
      BY <2>8, <3>1, <3>2, <3>3, <3>4
    <3>7. FrameComing(v)' <=> FrameComing(v)
      BY <3>5 DEF FrameComing
    <3> QED
      BY <2>0, <3>5, <3>6, <3>7, AgreesKept
  <2>10. ASSUME NEW i \in DOMAIN calls, InitWrites(i) PROVE Agrees(v)'
    <3>1. calls[i].kind = "init" /\ Done(i) /\ UNCHANGED <<greeted, inbox, items>>
      BY <2>10 DEF InitWrites, At
    <3>2. ~Concerns(calls[i], v)
      BY <3>1 DEF Concerns, Removes, WillBring
    <3>3. v \notin raced /\ (v \in conv' <=> v \in conv)
      BY <2>10 DEF InitWrites
    <3>4. FrameComing(v)' <=> FrameComing(v)
      BY <3>1 DEF FrameComing
    <3> QED
      BY <2>0, <2>8, <3>1, <3>2, <3>3, <3>4, AgreesKept
  <2>11. ASSUME NEW i \in DOMAIN calls, OffServes(i) PROVE Agrees(v)'
    <3> DEFINE c == calls[i]
               d == [c EXCEPT !.stage = "answered"]
    <3>1. c \in Calls /\ c.kind = "off" /\ c.stage = "sent" /\ c.user \in Users
      BY <2>0, <2>11, CallType, CallFields DEF OffServes, At
    <3>2. d \in Calls /\ d.kind = "off" /\ d.stage = "answered" /\ d.user = c.user
          /\ d.orphan = c.orphan
      BY <3>1, CallFields DEF Calls
    <3>3. UNCHANGED <<greeted, inbox, items>> /\ v \notin raced
      BY <2>11 DEF OffServes
    <3>4. FrameComing(v)' <=> FrameComing(v)
      BY <3>3 DEF FrameComing
    <3>5. (c.orphan /\ Done(i)) \/ (~c.orphan /\ Advance(i, d))
      BY <2>11 DEF OffServes
    <3>6. ~Concerns(c, v)
      BY <3>1 DEF Concerns, Removes, WillBring
    <3>7. CASE c.user # v
      <4>1. v \in conv' <=> v \in conv
        BY <2>11, <3>7 DEF OffServes
      <4>2. ~Concerns(d, v)
        BY <3>2, <3>7 DEF Concerns, Removes, WillBring
      <4>3. /\ Closing(v)' <=> Closing(v)
            /\ EntryComing(v)' <=> EntryComing(v)
            /\ EntryAsked(v)' <=> EntryAsked(v)
        BY <2>8, <3>2, <3>5, <3>6, <4>2
      <4> QED
        BY <2>0, <3>3, <3>4, <4>1, <4>3, AgreesKept
    <3>8. CASE c.user = v
      <4>1. ~c.orphan /\ ~EntryComing(v) /\ conv' = conv \ {v}
        BY <2>11, <3>1, <3>8 DEF OffServes
      <4>2. /\ Range(calls') \subseteq Range(calls) \cup {d}
            /\ d \in Range(calls')
        BY <2>0, <3>2, <3>5, <4>1, AdvanceCalls
      <4>3. Closing(v)'
        BY <3>2, <3>8, <4>1, <4>2, AsRangePrime DEF Removes
      <4>4. ~EntryComing(v)'
        <5>1. ~Brings(d, v)
          BY <3>2 DEF Brings
        <5> QED
          BY <4>1, <4>2, <5>1, AsRange, AsRangePrime
      <4> QED
        BY <4>1, <4>3, <4>4 DEF Agrees
    <3> QED
      BY <3>7, <3>8
  <2>12. ASSUME NEW i \in DOMAIN calls, ChatServes(i) PROVE Agrees(v)'
    <3> DEFINE c == calls[i]
               d == [c EXCEPT !.stage = "answered"]
    <3>1. c \in Calls /\ c.kind = "chat" /\ c.stage = "sent" /\ c.user \in Users
      BY <2>0, <2>12, CallType, CallFields DEF ChatServes, At
    <3>2. d \in Calls /\ d.kind = "chat" /\ d.stage = "answered" /\ d.user = c.user
          /\ d.orphan = c.orphan
      BY <3>1, CallFields DEF Calls
    <3>3. UNCHANGED <<greeted, inbox, items>>
      BY <2>12 DEF ChatServes
    <3>4. FrameComing(v)' <=> FrameComing(v)
      BY <3>3 DEF FrameComing
    <3>5. CASE c.orphan
      <4>1. ~Concerns(c, v)
        BY <3>1, <3>5 DEF Concerns, Removes, WillBring
      <4>2. Done(i) /\ v \notin raced /\ (v \in conv' <=> v \in conv)
        BY <2>12, <3>5 DEF ChatServes
      <4> QED
        BY <2>0, <2>8, <3>3, <3>4, <4>1, <4>2, AgreesKept
    <3>6. CASE ~c.orphan
      <4>1. Ensure(c.user) /\ Advance(i, d)
        BY <2>12, <3>6 DEF ChatServes
      <4>2. /\ v \notin raced /\ conv' = conv \cup {c.user}
            /\ c.user = v => v \in conv \/ ~Closing(v)
        BY <4>1 DEF Ensure
      <4>3. CASE c.user # v
        <5>1. ~Concerns(c, v) /\ ~Concerns(d, v)
          BY <3>1, <3>2, <4>3 DEF Concerns, Removes, WillBring
        <5>2. /\ Closing(v)' <=> Closing(v)
              /\ EntryComing(v)' <=> EntryComing(v)
              /\ EntryAsked(v)' <=> EntryAsked(v)
          BY <2>8, <3>2, <4>1, <5>1
        <5>3. v \in conv' <=> v \in conv
          BY <4>2, <4>3
        <5> QED
          BY <2>0, <3>3, <3>4, <4>2, <5>2, <5>3, AgreesKept
      <4>4. CASE c.user = v
        <5>1. /\ Range(calls') \subseteq Range(calls) \cup {d} /\ d \in Range(calls')
          BY <2>0, <3>2, <4>1, AdvanceCalls
        <5>2. EntryAsked(v)'
          <6>1. WillBring(d, v)
            BY <3>2, <3>6, <4>4 DEF WillBring
          <6> QED
            BY <5>1, <6>1 DEF EntryAsked, WillBring
        <5>3. Closing(v)' => Closing(v)
          <6>1. ~Removes(d, v)
            BY <3>2 DEF Removes
          <6> QED
            BY <5>1, <6>1, AsRange, AsRangePrime
        <5>4. v \in conv'
          BY <4>2, <4>4
        <5>5. ~Closing(v)
          BY <2>0, <4>2, <4>4 DEF Agrees
        <5> QED
          BY <5>2, <5>3, <5>4, <5>5 DEF Agrees
      <4> QED
        BY <4>3, <4>4
    <3> QED
      BY <3>5, <3>6
  <2>13. ASSUME NEW i \in DOMAIN calls, ListServes(i) PROVE Agrees(v)'
    <3> DEFINE c == calls[i]
               d == [c EXCEPT !.stage = "answered", !.found = conv]
    <3>1. c \in Calls /\ c.kind = "list" /\ ~c.orphan
      BY <2>0, <2>13, CallType DEF ListServes, Expects, At
    <3>2. /\ d \in Calls /\ d.kind = "list" /\ d.stage = "answered" /\ d.found = conv
          /\ ~d.orphan
      BY <1>2, <3>1, CallFields DEF Calls, TypeOK
    <3>3. UNCHANGED <<conv, greeted, inbox, items, raced>> /\ Advance(i, d)
      BY <2>13 DEF ListServes
    <3>4. FrameComing(v)' <=> FrameComing(v)
      BY <3>3 DEF FrameComing
    <3>5. /\ Range(calls') \subseteq Range(calls) \cup {d} /\ d \in Range(calls')
          /\ Range(calls) \subseteq Range(calls') \cup {c}
      BY <2>0, <3>2, <3>3, AdvanceCalls
    <3>6. Closing(v)' <=> Closing(v)
      <4>1. ~Removes(d, v) /\ ~Removes(c, v)
        BY <3>1, <3>2 DEF Removes
      <4> QED
        BY <3>5, <4>1, AsRange, AsRangePrime
    <3>7. EntryComing(v)' => EntryComing(v) \/ v \in conv
      <4>1. Brings(d, v) => v \in conv
        BY <3>2 DEF Brings
      <4> QED
        BY <3>5, <4>1, AsRange, AsRangePrime
    <3>8. v \in conv => EntryAsked(v)'
      <4>1. v \in conv => WillBring(d, v)
        BY <3>2 DEF WillBring
      <4> QED
        BY <3>5, <4>1 DEF EntryAsked, WillBring
    <3> HIDE DEF c, d
    <3> QED
      BY <2>0, <3>3, <3>4, <3>6, <3>7, <3>8 DEF Agrees
  <2>14. ASSUME NEW i \in DOMAIN calls, ChatAnswered(i) PROVE Agrees(v)'
    <3> DEFINE c == calls[i]
               d == Sent("init", c.user)
    <3>1. c \in Calls /\ c.kind = "chat" /\ c.stage = "answered" /\ ~c.orphan
      BY <2>0, <2>14, CallType DEF ChatAnswered, Expects, At
    <3>2. d \in Calls /\ ~Concerns(d, v)
      BY <3>1, CallFields, SentType DEF Sent, Concerns, Removes, WillBring
    <3>3. /\ UNCHANGED <<conv, greeted, inbox, raced>> /\ Advance(i, d)
          /\ items' = items \cup {c.user}
      BY <2>14 DEF ChatAnswered
    <3>4. FrameComing(v)' <=> FrameComing(v)
      BY <3>3 DEF FrameComing
    <3>5. CASE c.user # v
      <4>1. ~Concerns(c, v)
        BY <3>1, <3>5 DEF Concerns, Removes, WillBring
      <4>2. /\ Closing(v)' <=> Closing(v)
            /\ EntryComing(v)' <=> EntryComing(v)
            /\ EntryAsked(v)' <=> EntryAsked(v)
        BY <2>8, <3>2, <3>3, <4>1
      <4>3. v \in items' <=> v \in items
        BY <3>3, <3>5
      <4> QED
        BY <2>0, <3>3, <3>4, <4>2, <4>3, AgreesKept
    <3>6. CASE c.user = v
      <4>1. EntryComing(v)
        <5>1. Brings(c, v) /\ c \in Range(calls)
          BY <2>0, <3>1, <3>6, CallType DEF Brings
        <5> QED
          BY <5>1, AsRange
      <4>2. v \in conv /\ ~Closing(v) /\ v \in items'
        BY <2>0, <3>3, <3>6, <4>1 DEF Agrees
      <4>3. Range(calls') \subseteq Range(calls) \cup {d}
        BY <2>0, <3>2, <3>3, AdvanceCalls
      <4>4. ~Closing(v)'
        BY <3>2, <4>2, <4>3, AsRange, AsRangePrime DEF Concerns
      <4> QED
        BY <3>3, <4>2, <4>4 DEF Agrees
    <3> QED
      BY <3>5, <3>6
  <2>15. ASSUME NEW i \in DOMAIN calls, OffAnswered(i) PROVE Agrees(v)'
    <3> DEFINE c == calls[i]
               d == Sent("close", None)
    <3>1. c \in Calls /\ c.kind = "off" /\ c.stage = "answered" /\ ~c.orphan
      BY <2>0, <2>15, CallType DEF OffAnswered, Expects, At
    <3>2. d \in Calls /\ ~Concerns(d, v)
      BY SentType DEF Sent, Concerns, Removes, WillBring
    <3>3. /\ UNCHANGED <<conv, greeted, inbox>> /\ Advance(i, d)
          /\ items' = items \ {dest} /\ v \notin raced
          /\ dest # c.user => v # c.user /\ v # dest
      BY <2>15 DEF OffAnswered
    <3>4. FrameComing(v)' <=> FrameComing(v)
      BY <3>3 DEF FrameComing
    <3>5. CASE c.user # v
      <4>1. ~Concerns(c, v)
        BY <3>1, <3>5 DEF Concerns, Removes, WillBring
      <4>2. /\ Closing(v)' <=> Closing(v)
            /\ EntryComing(v)' <=> EntryComing(v)
            /\ EntryAsked(v)' <=> EntryAsked(v)
        BY <2>8, <3>2, <3>3, <4>1
      <4>3. v \in items' <=> v \in items
        BY <3>3, <3>5
      <4> QED
        BY <2>0, <3>3, <3>4, <4>2, <4>3, AgreesKept
    <3>6. CASE c.user = v
      <4>1. Closing(v)
        <5>1. Removes(c, v) /\ c \in Range(calls)
          BY <2>0, <3>1, <3>6, CallType DEF Removes
        <5> QED
          BY <5>1, AsRange
      <4>2. v \notin conv /\ v \notin items' /\ ~EntryComing(v)
        BY <2>0, <3>3, <3>6, <4>1 DEF Agrees
      <4>3. Range(calls') \subseteq Range(calls) \cup {d}
        BY <2>0, <3>2, <3>3, AdvanceCalls
      <4>4. ~EntryComing(v)'
        <5>1. ~Brings(d, v)
          BY DEF Sent, Brings
        <5> QED
          BY <4>2, <4>3, <5>1, AsRange, AsRangePrime
      <4> QED
        BY <3>3, <4>2, <4>4 DEF Agrees
    <3> QED
      BY <3>5, <3>6
  <2>16. ASSUME NEW i \in DOMAIN calls, CloseAnswered(i) \/ Forgotten(i) PROVE Agrees(v)'
    <3>1. /\ UNCHANGED <<conv, greeted, inbox, items, raced>> /\ Done(i)
          /\ calls[i].kind = "close" \/ calls[i].orphan
      BY <2>16 DEF CloseAnswered, Forgotten, Expects, At
    <3>2. ~Concerns(calls[i], v)
      BY <3>1 DEF Concerns, Removes, WillBring
    <3>3. FrameComing(v)' <=> FrameComing(v)
      BY <3>1 DEF FrameComing
    <3> QED
      BY <2>0, <2>8, <3>1, <3>2, <3>3, AgreesKept
  <2>17. ASSUME NEW i \in DOMAIN calls, ListAnswered(i) PROVE Agrees(v)'
    <3> DEFINE c == calls[i]
    <3>1. c.kind = "list" /\ c.stage = "answered" /\ ~c.orphan /\ c \in Range(calls)
      BY <2>0, <2>17, CallType DEF ListAnswered, Expects, At
    <3>2. /\ UNCHANGED <<conv, greeted, inbox, raced>> /\ Done(i)
          /\ items' = items \cup c.found
      BY <2>17 DEF ListAnswered
    <3>3. FrameComing(v)' <=> FrameComing(v)
      BY <3>2 DEF FrameComing
    <3>4. CASE v \notin c.found
      <4>1. ~Concerns(c, v)
        BY <3>1, <3>4 DEF Concerns, Removes, WillBring
      <4>2. v \in items' <=> v \in items
        BY <3>2, <3>4
      <4> QED
        BY <2>0, <2>8, <3>2, <3>3, <4>1, <4>2, AgreesKept
    <3>5. CASE v \in c.found
      <4>1. EntryComing(v)
        BY <3>1, <3>5, AsRange DEF Brings
      <4>2. v \in conv /\ ~Closing(v) /\ v \in items'
        BY <2>0, <3>2, <3>5, <4>1 DEF Agrees
      <4>3. Range(calls') \subseteq Range(calls)
        BY <2>0, <3>2, DoneCalls
      <4>4. ~Closing(v)'
        BY <4>2, <4>3, AsRange, AsRangePrime
      <4> QED
        BY <3>2, <4>2, <4>4 DEF Agrees
    <3> QED
      BY <3>4, <3>5
  <2>18. ASSUME NEW i \in DOMAIN calls, Lost(i) PROVE Agrees(v)'
    <3> DEFINE c == calls[i]
               d == [c EXCEPT !.orphan = TRUE]
    <3>1. c \in Calls /\ d \in Calls
      BY <2>0, CallType, CallFields
    <3>2. /\ UNCHANGED <<conv, greeted, inbox, items>>
          /\ v \notin raced /\ v \notin Doubtful(c)
          /\ Done(i) \/ Advance(i, d)
      BY <2>18 DEF Lost
    <3>3. ~Concerns(c, v)
      <4>1. c.kind # "list"
        BY <3>2 DEF Doubtful
      <4>2. c.kind \in {"off", "chat"} => c.user # v
        BY <3>2, <4>1 DEF Doubtful
      <4> QED
        BY <4>1, <4>2 DEF Concerns, Removes, WillBring
    <3>4. ~Concerns(d, v)
      <4>1. d.orphan
        BY <3>1 DEF Calls
      <4> QED
        BY <4>1 DEF Concerns, Removes, WillBring
    <3>5. FrameComing(v)' <=> FrameComing(v)
      BY <3>2 DEF FrameComing
    <3>6. /\ Closing(v)' <=> Closing(v)
          /\ EntryComing(v)' <=> EntryComing(v)
          /\ EntryAsked(v)' <=> EntryAsked(v)
      BY <2>8, <3>1, <3>2, <3>3, <3>4
    <3> QED
      BY <2>0, <3>2, <3>5, <3>6, AgreesKept
  <2>19. CASE Break
    <3>1. UNCHANGED <<calls, conv, items, raced>> /\ ~greeted'
      BY <2>19 DEF Break, Unlink
    <3>2. /\ Closing(v)' <=> Closing(v)
          /\ EntryComing(v)' <=> EntryComing(v)
      BY <3>1 DEF Closing, EntryComing, Expects, At
    <3> QED
      BY <2>0, <3>1, <3>2 DEF Agrees
  <2>20. CASE InitSuccess
    <3> DEFINE c == Sent("list", None)
    <3>1. c \in Calls /\ ~Removes(c, v) /\ ~Brings(c, v) /\ WillBring(c, v)
      BY SentType DEF Sent, Removes, Brings, WillBring
    <3>2. UNCHANGED <<conv, items, raced>> /\ Issue(<<c>>)
      BY <2>20 DEF InitSuccess
    <3>3. Range(calls') = Range(calls) \cup {c}
      <4>1. <<c>> \in Seq(Calls) /\ Range(<<c>>) = {c}
        BY <3>1 DEF Range
      <4> QED
        BY <2>0, <3>2, <4>1, IssueCalls
    <3>4. (Closing(v)' <=> Closing(v)) /\ (EntryComing(v)' <=> EntryComing(v))
      BY <3>1, <3>3, AsRange, AsRangePrime
    <3>5. EntryAsked(v)'
      BY <3>1, <3>3 DEF EntryAsked, WillBring
    <3> QED
      BY <2>0, <3>2, <3>4, <3>5 DEF Agrees
  <2>21. CASE Reload
    <3>1. /\ calls' = [i \in DOMAIN calls |-> [calls[i] EXCEPT !.orphan = TRUE]]
          /\ items' = {} /\ ~greeted'
      BY <2>21 DEF Reload, Unlink
    <3>2. \A i \in DOMAIN calls : calls[i] \in Calls
      BY <2>0, CallType
    <3>3. \A c \in Calls : [c EXCEPT !.orphan = TRUE].orphan
      BY DEF Calls
    <3>4. \A i \in DOMAIN calls' : calls'[i].orphan
      BY <3>1, <3>2, <3>3
    <3>5. ~Closing(v)' /\ ~EntryComing(v)'
      BY <3>4 DEF Closing, EntryComing, Expects, At
    <3> QED
      BY <3>1, <3>5 DEF Agrees
  <2> QED
    BY <1>2, <2>1, <2>3, <2>4, <2>5, <2>6, <2>7, <2>9, <2>10, <2>11, <2>12, <2>13, <2>14,
       <2>15, <2>16, <2>17, <2>18, <2>19, <2>20, <2>21
    DEF Next, Serve, Answer
<1> QED
  BY <1>1, <1>2

\* When nothing is under way, an untouched user has an entry exactly if it has a
\* conversation.
THEOREM DeskAgrees == Spec => []QuietDeskAgrees
<1>1. Spec => []TypeOK
  BY TypeCorrect
<1>2. ListInv => QuietDeskAgrees
  <2> SUFFICES ASSUME ListInv, greeted, calls = <<>>, inbox = <<>>,
                      NEW u \in Users, u \notin raced
               PROVE  u \in items <=> u \in conv
    BY DEF QuietDeskAgrees
  <2>1. Agrees(u)
    BY DEF ListInv
  <2>2. ~Closing(u) /\ ~FrameComing(u) /\ ~EntryAsked(u)
    BY DEF Closing, FrameComing, EntryAsked, Range
  <2> QED
    BY <2>1, <2>2 DEF Agrees
<1> QED
  BY <1>1, <1>2, ListInductive, PTL DEF Spec

=============================================================================
