------------------------ MODULE CustomerWindowsProofs ------------------------
(***************************************************************************)
(* Theorems about CustomerWindows, for any set of windows and any choice   *)
(* of events.                                                              *)
(***************************************************************************)
EXTENDS CustomerWindows, TLAPS

\* TypeOf(w) is one of the two types.
LEMMA TypeOfType == ASSUME NEW w PROVE TypeOf(w) \in Types
  BY DEF TypeOf, Types

\* A step of the established callback past saveSession keeps the types of est and old, and
\* touches no reference that saveSession holds.
LEMMA GoEstKeeps ==
  ASSUME TypeOK, NEW w \in Windows,
         NEW from \in EstStates \ {"tell", "put"}, NEW to \in EstStates \ {"tell", "put"},
         GoEst(w, from, to)
  PROVE  /\ est' \in [Windows -> EstStates]
         /\ old' \in [Windows -> Windows \cup {None}]
         /\ \A v \in Windows : est'[v] = "tell" <=> old'[v] # None
         /\ mapRef' = mapRef => \A v \in Windows : est'[v] = "put" <=> mapRef'[v] # None
<1>1. est \in [Windows -> EstStates] /\ old' = old /\ est' = [est EXCEPT ![w] = to]
  BY DEF TypeOK, GoEst
<1>2. \A v \in Windows : est'[v] = IF v = w THEN to ELSE est[v]
  BY <1>1
<1>3. est[w] \notin {"tell", "put"}
  BY DEF GoEst
<1> QED
  BY <1>1, <1>2, <1>3 DEF TypeOK

-----------------------------------------------------------------------------
\* Type correctness.  Its last conjunct says that an established callback is about
\* to write into an inner map exactly when it holds a reference to one: the null
\* check of saveSession is what keeps map.put from failing.
THEOREM TypeCorrect == Spec => []TypeOK
<1>1. Init => TypeOK
  BY ConstantsAssumption
  DEF Init, TypeOK, EstStates, ClsStates, ApiStates, ConnStates, Windows, Types
<1>2. TypeOK /\ [Next]_vars => TypeOK'
  <2> SUFFICES ASSUME TypeOK, [Next]_vars PROVE TypeOK'
    OBVIOUS
  <2> USE DEF TypeOK, EstStates, ClsStates, ApiStates, ConnStates, GoEst,
              registryVars, xmppVars
  <2>1. ASSUME NEW w \in Windows, Establish(w) PROVE TypeOK'
    <3>1. OpenRegistered("pc") # {} => Registered("pc") \in Windows
      BY DEF OpenRegistered
    <3>2. None \notin Windows
      BY ConstantsAssumption
    <3>3. /\ est' \in [Windows -> EstStates]
          /\ old' \in [Windows -> Windows \cup {None}]
      BY <2>1, <3>1 DEF Establish
    <3>4. \A v \in Windows : est'[v] = "tell" <=> old'[v] # None
      BY <2>1, <3>1, <3>2 DEF Establish
    <3>5. est'[w] # "put" /\ est[w] # "put" /\ \A v \in Windows \ {w} : est'[v] = est[v]
      BY <2>1 DEF Establish
    <3>6. told' \subseteq Windows /\ UNCHANGED <<cls, api, registryVars, xmppVars>>
      BY <2>1 DEF Establish
    <3> QED
      BY <3>3, <3>4, <3>5, <3>6
  <2>2. ASSUME NEW w \in Windows, LookupMap(w) PROVE TypeOK'
    BY <2>2 DEF LookupMap
  <2>3. ASSUME NEW w \in Windows, InstallMap(w) PROVE TypeOK'
    <3>1. w # None
      BY ConstantsAssumption
    <3> QED
      BY <2>3, <3>1 DEF InstallMap
  <2>4. ASSUME NEW w \in Windows, PutSession(w) PROVE TypeOK'
    <3>1. inner' \in [Windows -> [Types -> Windows \cup {None}]]
      BY <2>4, TypeOfType DEF PutSession
    <3> QED
      BY <2>4, <3>1 DEF PutSession
  <2>5. ASSUME NEW w \in Windows, PutSessionLost(w) PROVE TypeOK'
    BY <2>5 DEF PutSessionLost
  <2>6. ASSUME NEW w \in Windows, LoginCheck(w) \/ Online(w) \/ OnlineFails(w)
        PROVE  TypeOK'
    <3>1. /\ UNCHANGED <<cls, api, registry, inner, mapRef, xmpp, conn, broken, told>>
          /\ \E from, to \in EstStates \ {"tell", "put"} : GoEst(w, from, to)
      BY <2>6 DEF LoginCheck, Online, OnlineFails
    <3> HIDE DEF GoEst
    <3> QED
      BY <3>1, GoEstKeeps
  <2>7. ASSUME NEW w \in Windows, Connect(w) \/ Authenticate(w) \/ LoginFails(w)
        PROVE  TypeOK'
    <3>1. /\ UNCHANGED <<cls, api, registry, inner, mapRef, broken, told>>
          /\ \E from, to \in EstStates \ {"tell", "put"} : GoEst(w, from, to)
      BY <2>7 DEF Connect, Authenticate, LoginFails
    <3>2. conn' \in [Windows -> ConnStates] /\ xmpp' \in Windows \cup {None}
      BY <2>7 DEF Connect, Authenticate, LoginFails
    <3> HIDE DEF GoEst
    <3> QED
      BY <3>1, <3>2, GoEstKeeps
  <2>8. ASSUME NEW w \in Windows, EstDisconnect(w) \/ EstRemove(w) PROVE TypeOK'
    <3>1. /\ UNCHANGED <<cls, api, registry, inner, mapRef, broken, told>>
          /\ \E from, to \in EstStates \ {"tell", "put"} : GoEst(w, from, to)
      BY <2>8 DEF EstDisconnect, EstRemove
    <3>2. conn' \in [Windows -> ConnStates] /\ xmpp' \in Windows \cup {None}
      BY <2>8 DEF EstDisconnect, EstRemove, DisconnectStored, RemoveKey
    <3> HIDE DEF GoEst
    <3> QED
      BY <3>1, <3>2, GoEstKeeps
  <2>9. CASE ApiLogout \/ ApiRemove
    BY <2>9 DEF ApiLogout, ApiRemove, DisconnectStored, RemoveKey
  <2>10. ASSUME NEW w \in Windows, Close(w) \/ HeartBeat(w) PROVE TypeOK'
    BY <2>10 DEF Close, HeartBeat
  <2>11. ASSUME NEW w \in Windows, IgnoreClosed(w) \/ DecideLogout(w) \/ CloseThrows(w)
         PROVE  TypeOK'
    <3>1. inner' \in [Windows -> [Types -> Windows \cup {None}]]
      <4>1. PICK closed \in SUBSET Windows : DropFromRegistered(closed)
        BY <2>11 DEF IgnoreClosed, DecideLogout, CloseThrows
      <4> QED
        BY <4>1 DEF DropFromRegistered
    <3>2. cls' \in [Windows -> ClsStates]
      BY <2>11 DEF IgnoreClosed, DecideLogout, CloseThrows
    <3>3. UNCHANGED <<est, old, api, registry, mapRef, xmppVars, told>>
      BY <2>11 DEF IgnoreClosed, DecideLogout, CloseThrows
    <3> QED
      BY <3>1, <3>2, <3>3
  <2>12. ASSUME NEW w \in Windows, ClsDisconnect(w) \/ ClsRemove(w) PROVE TypeOK'
    BY <2>12 DEF ClsDisconnect, ClsRemove, DisconnectStored, RemoveKey
  <2>13. ASSUME NEW w \in Windows, Drop(w) \/ Reconnect(w) PROVE TypeOK'
    BY <2>13 DEF Drop, Reconnect
  <2>14. CASE UNCHANGED vars
    BY <2>14 DEF vars
  <2>15. ASSUME NEW w \in Windows, Tell(w) PROVE TypeOK'
    BY <2>15 DEF Tell, GoTell
  <2>16. ASSUME NEW w \in Windows, TellThrows(w) PROVE TypeOK'
    BY <2>16 DEF TellThrows, GoTell
  <2>17. ASSUME NEW w \in Windows, CloseWithError(w) PROVE TypeOK'
    BY <2>17 DEF CloseWithError
  <2> QED
    BY <2>1, <2>2, <2>3, <2>4, <2>5, <2>6, <2>7, <2>8, <2>9, <2>10, <2>11, <2>12,
       <2>13, <2>14, <2>15, <2>16, <2>17 DEF Next, Established, Closed
<1> QED
  BY <1>1, <1>2, PTL DEF Spec

-----------------------------------------------------------------------------
(***************************************************************************)
(* OnlineForSomebody.  The close callback sleeps long enough that it acts  *)
(* only after the established callback of its own session (SleepFirst),    *)
(* and only a connection that broke is ever stored again by Smack          *)
(* (BrokenFirst).                                                          *)
(***************************************************************************)
SleepFirst ==
  ~ SlowLogin => \A w \in Windows : cls[w] \notin {"none", "sleep"} => est[w] = "done"

BrokenFirst ==
  \A c \in Windows : conn[c] \in {"dropped", "reconnected"} => c \in broken

OnlineInv == SleepFirst /\ BrokenFirst /\ OnlineForSomebody

\* No step lets a close callback past its sleep before the session's login has ended.
LEMMA SleepFirstStep == TypeOK /\ SleepFirst /\ [Next]_vars => SleepFirst'
<1> SUFFICES ASSUME TypeOK, SleepFirst, [Next]_vars, ~ SlowLogin,
                    NEW w \in Windows, cls'[w] \notin {"none", "sleep"}
             PROVE  est'[w] = "done"
  BY DEF SleepFirst
<1>0. est \in [Windows -> EstStates] /\ cls \in [Windows -> ClsStates]
  BY DEF TypeOK
<1> USE <1>0 DEF SleepFirst, GoEst, registryVars, xmppVars
<1>1. ASSUME NEW v \in Windows, Establish(v) PROVE est'[w] = "done"
  BY <1>1 DEF Establish
<1>2. ASSUME NEW v \in Windows, Established(v) PROVE est'[w] = "done"
  BY <1>2 DEF Established, Tell, TellThrows, CloseWithError, GoTell, LookupMap, InstallMap,
     PutSession, PutSessionLost, LoginCheck, Connect, Authenticate, LoginFails, Online,
     OnlineFails, EstDisconnect, EstRemove
<1>3. ASSUME NEW v \in Windows, Closed(v) PROVE est'[w] = "done"
  BY <1>3 DEF Closed, IgnoreClosed, DecideLogout, CloseThrows, SleptEnough,
     ClsDisconnect, ClsRemove
<1>4. ASSUME NEW v \in Windows, Close(v) \/ HeartBeat(v) PROVE est'[w] = "done"
  BY <1>4 DEF Close, HeartBeat
<1>5. CASE ApiLogout \/ ApiRemove \/ (\E v \in Windows : Drop(v) \/ Reconnect(v))
  BY <1>5 DEF ApiLogout, ApiRemove, Drop, Reconnect
<1>6. CASE UNCHANGED vars
  BY <1>6 DEF vars
<1> QED
  BY <1>1, <1>2, <1>3, <1>4, <1>5, <1>6 DEF Next

\* No step takes a connection down behind the network's back.
LEMMA BrokenFirstStep == TypeOK /\ BrokenFirst /\ [Next]_vars => BrokenFirst'
<1> SUFFICES ASSUME TypeOK, BrokenFirst, [Next]_vars,
                    NEW c \in Windows, conn'[c] \in {"dropped", "reconnected"}
             PROVE  c \in broken'
  BY DEF BrokenFirst
<1>0. conn \in [Windows -> ConnStates] /\ xmpp \in Windows \cup {None}
  BY DEF TypeOK
<1> USE <1>0 DEF BrokenFirst, GoEst, registryVars, xmppVars, DisconnectStored, ConnStates
<1>1. ASSUME NEW v \in Windows, Establish(v) \/ Close(v) \/ HeartBeat(v) PROVE c \in broken'
  BY <1>1 DEF Establish, Close, HeartBeat
<1>2. ASSUME NEW v \in Windows, Established(v) PROVE c \in broken'
  BY <1>2 DEF Established, Tell, TellThrows, CloseWithError, GoTell, LookupMap, InstallMap,
     PutSession, PutSessionLost, LoginCheck, Connect, Authenticate, LoginFails, Online,
     OnlineFails, EstDisconnect, EstRemove
<1>3. ASSUME NEW v \in Windows, Closed(v) PROVE c \in broken'
  BY <1>3 DEF Closed, IgnoreClosed, DecideLogout, CloseThrows, ClsDisconnect, ClsRemove
<1>4. CASE ApiLogout \/ ApiRemove
  BY <1>4 DEF ApiLogout, ApiRemove
<1>5. ASSUME NEW v \in Windows, Drop(v) \/ Reconnect(v) PROVE c \in broken'
  BY <1>5 DEF Drop, Reconnect
<1>6. CASE UNCHANGED vars
  BY <1>6 DEF vars
<1> QED
  BY <1>1, <1>2, <1>3, <1>4, <1>5, <1>6 DEF Next

\* A step keeps the connection in use, or takes it out of XMPP_MAP.
LEMMA OnlineStep ==
  TypeOK /\ OnlineInv /\ [Next]_vars => OnlineForSomebody'
<1> SUFFICES ASSUME TypeOK, OnlineInv, [Next]_vars,
                    ~ SlowLogin, xmpp' # None, xmpp' \notin broken'
             PROVE  \E w \in Windows : InUse(w)'
  BY DEF OnlineForSomebody
<1> USE DEF GoEst, registryVars, xmppVars
<1>0. /\ est \in [Windows -> EstStates]
      /\ cls \in [Windows -> ClsStates]
      /\ \A w \in Windows : cls[w] \notin {"none", "sleep"} => est[w] = "done"
  BY DEF TypeOK, OnlineInv, SleepFirst
<1>1. ASSUME xmpp' = xmpp, broken \subseteq broken'
      PROVE  \E w \in Windows : InUse(w)
  BY <1>1 DEF OnlineInv, OnlineForSomebody
<1>2. ASSUME NEW w \in Windows, Establish(w) PROVE InUse(w)'
  BY <1>0, <1>2 DEF Establish, InUse, Establishing
<1>3. ASSUME NEW w \in Windows, Established(w) PROVE InUse(w)'
  <2>1. CASE CloseWithError(w)
    <3>1. est'[w] = "done" /\ cls'[w] \in {"none", "sleep"}
      BY <1>0, <2>1 DEF CloseWithError
    <3> QED
      BY <3>1 DEF InUse
  <2>2. CASE ~ CloseWithError(w)
    <3>1. est[w] \notin {"none", "done"} /\ est'[w] # "none" /\ cls' = cls
      BY <1>0, <1>3, <2>2 DEF Established, Tell, TellThrows, GoTell, LookupMap, InstallMap,
         PutSession, PutSessionLost, LoginCheck, Connect, Authenticate, LoginFails, Online,
         OnlineFails, EstDisconnect, EstRemove
    <3> QED
      BY <1>0, <3>1 DEF InUse, Establishing
  <2> QED
    BY <2>1, <2>2
<1>4. ASSUME NEW w \in Windows, Close(w) \/ HeartBeat(w)
      PROVE  \E v \in Windows : InUse(v)'
  <2>1. PICK v \in Windows : InUse(v)
    BY <1>1, <1>4 DEF Close, HeartBeat
  <2>2. est' = est /\ (cls'[v] = cls[v] \/ cls'[v] = "sleep")
    BY <1>0, <1>4 DEF Close, HeartBeat
  <2> QED
    BY <2>1, <2>2 DEF InUse, Establishing
<1>5. ASSUME NEW w \in Windows, IgnoreClosed(w) PROVE \E v \in Windows : InUse(v)'
  <2>1. PICK v \in Windows : Open(v)
    BY <1>5 DEF IgnoreClosed, Connected, OpenRegistered
  <2>2. v # w /\ est'[v] = est[v] /\ cls'[v] = "none"
    BY <1>0, <1>5, <2>1 DEF IgnoreClosed, Open
  <2> QED
    BY <2>1, <2>2 DEF Open, InUse, Establishing
<1>6. ASSUME NEW w \in Windows, CloseThrows(w) PROVE \E v \in Windows : InUse(v)'
  <2>1. PICK v \in Windows : est[v] = "put"
    BY <1>6 DEF CloseThrows
  <2> QED
    BY <1>6, <2>1 DEF CloseThrows, InUse, Establishing
<1>7. ASSUME NEW w \in Windows, DecideLogout(w) \/ ClsDisconnect(w) PROVE InUse(w)'
  <2>1. est'[w] = "done" /\ cls'[w] # "done"
    BY <1>0, <1>7 DEF DecideLogout, SleptEnough, ClsDisconnect
  <2> QED
    BY <2>1 DEF InUse
<1>8. CASE ApiLogout \/ \E c \in Windows : Drop(c)
  <2>1. PICK v \in Windows : InUse(v)
    BY <1>1, <1>8 DEF ApiLogout, Drop
  <2> QED
    BY <1>8, <2>1 DEF ApiLogout, Drop, InUse, Establishing
<1>9. ~ ApiRemove /\ \A w \in Windows : ~ ClsRemove(w)
  BY DEF ApiRemove, ClsRemove, RemoveKey
<1>10. ASSUME NEW c \in Windows PROVE ~ Reconnect(c)
  BY DEF Reconnect, OnlineInv, BrokenFirst
<1>11. CASE UNCHANGED vars
  <2>1. PICK v \in Windows : InUse(v)
    BY <1>1, <1>11 DEF vars
  <2> QED
    BY <1>11, <2>1 DEF vars, InUse, Establishing
<1> QED
  BY <1>2, <1>3, <1>4, <1>5, <1>6, <1>7, <1>8, <1>9, <1>10, <1>11 DEF Next, Closed

\* When every window is gone and every callback has returned, no connection of the
\* agent is left in XMPP_MAP, except one that broke (logins faster than the sleep).
THEOREM OnlineCorrect == Spec => []OnlineForSomebody
<1>1. Init => OnlineInv
  BY DEF Init, OnlineInv, SleepFirst, BrokenFirst, OnlineForSomebody
<1>2. TypeOK /\ OnlineInv /\ [Next]_vars => OnlineInv'
  BY SleepFirstStep, BrokenFirstStep, OnlineStep DEF OnlineInv
<1>3. OnlineInv => OnlineForSomebody
  BY DEF OnlineInv
<1> QED
  BY <1>1, <1>2, <1>3, TypeCorrect, PTL DEF Spec

-----------------------------------------------------------------------------
(***************************************************************************)
(* ToldIsReplaced, for an agent without mobile windows.  A session is told *)
(* or registered only after its own put (PastPut); an inner map is shared  *)
(* only after its maker installed it (FreshMaps); so the registered        *)
(* session that is told waits for the put of the session that told it.     *)
(***************************************************************************)
BeforeInstall == {"none", "tell", "lookup", "install"}
BeforePut     == BeforeInstall \cup {"put"}

PastPut ==
  /\ MobileWindows = {} => \A w \in told : est[w] \notin BeforePut
  /\ \A m, w \in Windows, t \in Types : inner[m][t] = w => est[w] \notin BeforePut
  /\ \A w \in Windows : old[w] # None => est[old[w]] \notin BeforePut

FreshMaps ==
  \A m \in Windows :
    est[m] \in BeforeInstall =>
      /\ registry # m
      /\ \A w \in Windows : mapRef[w] # m
      /\ \A t \in Types : inner[m][t] = None

ToldInv == PastPut /\ FreshMaps /\ ToldIsReplaced

\* Each step either leaves est alone where it is before the put, or is one of four.
LEMMA LaterSteps ==
  ASSUME TypeOK, NEW v \in Windows,
         \/ LoginCheck(v) \/ Connect(v) \/ Authenticate(v) \/ LoginFails(v)
         \/ Online(v) \/ OnlineFails(v) \/ EstDisconnect(v) \/ EstRemove(v)
  PROVE  /\ est[v] \notin BeforePut /\ est'[v] \notin BeforePut
         /\ est' = [est EXCEPT ![v] = est'[v]]
         /\ UNCHANGED <<old, registry, inner, mapRef, told>>
  BY DEF TypeOK, BeforePut, BeforeInstall, GoEst, registryVars,
     LoginCheck, Connect, Authenticate, LoginFails, Online, OnlineFails,
     EstDisconnect, EstRemove

\* The steps that touch none of the state of ToldInv but told and inner, where they
\* remove or add sessions that are past their put.
LEMMA OtherSteps ==
  ASSUME TypeOK,
         \/ ApiLogout \/ ApiRemove
         \/ \E v \in Windows : Closed(v) \/ Close(v) \/ Drop(v) \/ Reconnect(v)
  PROVE  /\ UNCHANGED <<est, old, registry, mapRef>> /\ told' \subseteq told
         /\ \A m \in Windows, t \in Types : inner'[m][t] \in {inner[m][t], None}
  BY DEF TypeOK, registryVars, ApiLogout, ApiRemove, Closed, IgnoreClosed,
     DecideLogout, CloseThrows, ClsDisconnect, ClsRemove, Close, Drop, Reconnect,
     DropFromRegistered

\* No step tells or registers a session before its put.
LEMMA PastPutStep == TypeOK /\ ToldInv /\ [Next]_vars => PastPut'
<1> SUFFICES ASSUME TypeOK, PastPut, [Next]_vars PROVE PastPut'
  BY DEF ToldInv
<1> USE DEF PastPut, BeforePut, BeforeInstall, GoEst, registryVars
<1>0. /\ est \in [Windows -> EstStates] /\ told \subseteq Windows
      /\ inner \in [Windows -> [Types -> Windows \cup {None}]]
      /\ mapRef \in [Windows -> Windows \cup {None}]
      /\ \A w \in Windows : est[w] = "put" <=> mapRef[w] # None
      /\ old \in [Windows -> Windows \cup {None}]
  BY DEF TypeOK
<1>1. ASSUME NEW v \in Windows, Establish(v) PROVE PastPut'
  <2>1. \A w \in OpenRegistered("pc") : est[w] \notin BeforePut
    BY <1>0, ConstantsAssumption DEF OpenRegistered, Registered, TypeOK, Types
  <2>2. TypeOf(v) = "mobile" => MobileWindows # {}
    BY DEF TypeOf
  <2>3. \A w \in Windows : est[w] \notin BeforePut => w # v /\ est'[w] = est[w]
    BY <1>0, <1>1 DEF Establish
  <2>4. MobileWindows = {} => told' = told
    BY <1>1, <2>2 DEF Establish
  <2>5. inner' = inner
    BY <1>1 DEF Establish
  <2>6. MobileWindows = {} => \A w \in told' : est'[w] \notin BeforePut
    BY <1>0, <2>3, <2>4
  <2>7. \A w \in Windows : old'[w] = old[w] \/ old'[w] \in OpenRegistered("pc")
    <3>1. OpenRegistered("pc") # {} => Registered("pc") \in OpenRegistered("pc")
      BY DEF OpenRegistered
    <3> QED
      BY <1>0, <1>1, <3>1 DEF Establish
  <2>8. \A w \in Windows : old'[w] # None => est'[old'[w]] \notin BeforePut
    BY <1>0, <2>1, <2>3, <2>7 DEF OpenRegistered
  <2> QED
    BY <1>0, <2>3, <2>5, <2>6, <2>8
<1>2. ASSUME NEW v \in Windows, LookupMap(v) \/ InstallMap(v) \/ PutSessionLost(v)
      PROVE  PastPut'
  BY <1>0, <1>2 DEF LookupMap, InstallMap, PutSessionLost
<1>3. ASSUME NEW v \in Windows, PutSession(v) PROVE PastPut'
  BY <1>0, <1>3, TypeOfType DEF PutSession
<1>4. ASSUME NEW v \in Windows, HeartBeat(v) PROVE PastPut'
  BY <1>0, <1>4 DEF HeartBeat
<1>5. ASSUME NEW v \in Windows,
             \/ LoginCheck(v) \/ Connect(v) \/ Authenticate(v) \/ LoginFails(v)
             \/ Online(v) \/ OnlineFails(v) \/ EstDisconnect(v) \/ EstRemove(v)
      PROVE  PastPut'
  BY <1>0, <1>5, LaterSteps
<1>6. ASSUME \/ ApiLogout \/ ApiRemove
             \/ \E v \in Windows : Closed(v) \/ Close(v) \/ Drop(v) \/ Reconnect(v)
      PROVE  PastPut'
  BY <1>0, <1>6, OtherSteps, ConstantsAssumption
<1>7. CASE UNCHANGED vars
  BY <1>7 DEF vars
<1>8. ASSUME NEW v \in Windows, Tell(v) \/ TellThrows(v) \/ CloseWithError(v) PROVE PastPut'
  <2>1. est' = [est EXCEPT ![v] = est'[v]] /\ (est[v] \notin BeforePut => est'[v] \notin BeforePut)
    BY <1>0, <1>8 DEF Tell, TellThrows, CloseWithError, GoTell
  <2>2. \A w \in Windows : est[w] \notin BeforePut => est'[w] \notin BeforePut
    BY <1>0, <2>1
  <2>3. told' \subseteq told \cup {old[v]} /\ inner' = inner /\ (told' \subseteq told \/ old[v] # None)
    BY <1>0, <1>8 DEF Tell, TellThrows, CloseWithError, GoTell, TypeOK
  <2>4. \A w \in Windows : old'[w] \in {old[w], None}
    BY <1>0, <1>8 DEF Tell, TellThrows, CloseWithError, GoTell
  <2> QED
    BY <1>0, <2>2, <2>3, <2>4
<1> QED
  BY <1>1, <1>2, <1>3, <1>4, <1>5, <1>6, <1>7, <1>8 DEF Next, Established

\* No step shares or fills the inner map of a callback that has not installed it.
LEMMA FreshMapsStep == TypeOK /\ ToldInv /\ [Next]_vars => FreshMaps'
<1> SUFFICES ASSUME TypeOK, FreshMaps, [Next]_vars PROVE FreshMaps'
  BY DEF ToldInv
<1> USE DEF FreshMaps, BeforePut, BeforeInstall, GoEst, registryVars
<1>0. /\ est \in [Windows -> EstStates] /\ registry \in Windows \cup {None}
      /\ inner \in [Windows -> [Types -> Windows \cup {None}]]
      /\ mapRef \in [Windows -> Windows \cup {None}]
      /\ \A w \in Windows : est[w] = "put" <=> mapRef[w] # None
  BY DEF TypeOK
<1>1. ASSUME NEW v \in Windows,
             Establish(v) \/ Tell(v) \/ TellThrows(v) \/ CloseWithError(v)
      PROVE  FreshMaps'
  BY <1>0, <1>1 DEF Establish, Tell, TellThrows, CloseWithError, GoTell
<1>2. ASSUME NEW v \in Windows, LookupMap(v) PROVE FreshMaps'
  BY <1>0, <1>2, ConstantsAssumption DEF LookupMap
<1>3. ASSUME NEW v \in Windows, InstallMap(v) PROVE FreshMaps'
  BY <1>0, <1>3 DEF InstallMap
<1>4. ASSUME NEW v \in Windows, PutSession(v) \/ PutSessionLost(v) PROVE FreshMaps'
  BY <1>0, <1>4, TypeOfType, ConstantsAssumption DEF PutSession, PutSessionLost
<1>5. ASSUME NEW v \in Windows, HeartBeat(v) PROVE FreshMaps'
  BY <1>5 DEF HeartBeat
<1>6. ASSUME NEW v \in Windows,
             \/ LoginCheck(v) \/ Connect(v) \/ Authenticate(v) \/ LoginFails(v)
             \/ Online(v) \/ OnlineFails(v) \/ EstDisconnect(v) \/ EstRemove(v)
      PROVE  FreshMaps'
  BY <1>0, <1>6, LaterSteps
<1>7. ASSUME \/ ApiLogout \/ ApiRemove
             \/ \E v \in Windows : Closed(v) \/ Close(v) \/ Drop(v) \/ Reconnect(v)
      PROVE  FreshMaps'
  BY <1>7, OtherSteps
<1>8. CASE UNCHANGED vars
  BY <1>8 DEF vars
<1> QED
  BY <1>1, <1>2, <1>3, <1>4, <1>5, <1>6, <1>7, <1>8 DEF Next, Established

\* No step leaves a told session registered without another one on its way.
LEMMA ToldStep == TypeOK /\ ToldInv /\ [Next]_vars => ToldIsReplaced'
<1> SUFFICES ASSUME TypeOK, ToldInv, [Next]_vars, MobileWindows = {},
                    NEW w \in told', Registered("pc")' = w
             PROVE  \E t \in Windows \ {w} : Replacing(t)'
  BY DEF ToldIsReplaced
<1> USE DEF Registered, Replacing, GoEst, registryVars
<1>0. /\ est \in [Windows -> EstStates] /\ told \subseteq Windows
      /\ registry \in Windows \cup {None} /\ None \notin Windows
      /\ inner \in [Windows -> [Types -> Windows \cup {None}]]
      /\ mapRef \in [Windows -> Windows \cup {None}]
      /\ \A v \in Windows : est[v] = "put" <=> mapRef[v] # None
      /\ "pc" \in Types
  BY ConstantsAssumption DEF TypeOK, Types
<1>1. w \in told /\ Registered("pc") = w => \E t \in Windows \ {w} : Replacing(t)
  BY DEF ToldInv, ToldIsReplaced
<1>2. /\ \A v \in told : est[v] \notin BeforePut
      /\ \A m, v \in Windows : inner[m]["pc"] = v => est[v] \notin BeforePut
  BY <1>0 DEF ToldInv, PastPut
<1>3. ASSUME NEW v \in Windows, Establish(v) \/ TellThrows(v) \/ CloseWithError(v)
      PROVE  \E t \in Windows \ {w} : Replacing(t)'
  <2>1. PICK t \in Windows \ {w} : Replacing(t)
    BY <1>0, <1>1, <1>3 DEF Establish, TellThrows, CloseWithError, TypeOf
  <2>2. t # v
    BY <1>0, <1>3, <2>1 DEF Establish, TellThrows, CloseWithError, GoTell
  <2> QED
    BY <1>0, <1>3, <2>1, <2>2 DEF Establish, TellThrows, CloseWithError, GoTell
<1>4. ASSUME NEW v \in Windows, LookupMap(v)
      PROVE  \E t \in Windows \ {w} : Replacing(t)'
  <2>1. PICK t \in Windows \ {w} : Replacing(t)
    BY <1>1, <1>4 DEF LookupMap
  <2>2. registry # None
    BY <1>0, <1>4 DEF LookupMap
  <2> QED
    BY <1>0, <1>4, <2>1, <2>2 DEF LookupMap
<1>5. ASSUME NEW v \in Windows, InstallMap(v) PROVE FALSE
  <2>1. inner[v]["pc"] = None
    BY <1>0, <1>5 DEF InstallMap, ToldInv, FreshMaps, BeforeInstall
  <2> QED
    BY <1>0, <1>5, <2>1 DEF InstallMap
<1>6. ASSUME NEW v \in Windows, PutSession(v)
      PROVE  \E t \in Windows \ {w} : Replacing(t)'
  <2>1. w \in told /\ w # v
    BY <1>2, <1>6 DEF PutSession, BeforePut
  <2>2. TypeOf(v) = "pc" /\ mapRef[v] \in Windows
    BY <1>0, <1>6 DEF PutSession, TypeOf
  <2>3. \A m \in Windows :
          inner'[m]["pc"] = IF m = mapRef[v] THEN v ELSE inner[m]["pc"]
    BY <1>0, <1>6, <2>2 DEF PutSession
  <2>4. registry' = registry /\ mapRef[v] # registry /\ Registered("pc") = w
    BY <1>0, <1>6, <2>1, <2>2, <2>3 DEF PutSession
  <2>5. PICK t \in Windows \ {w} : Replacing(t)
    BY <1>1, <2>1, <2>4
  <2> QED
    BY <1>0, <1>6, <2>4, <2>5 DEF PutSession
<1>7. ASSUME NEW v \in Windows, PutSessionLost(v)
      PROVE  \E t \in Windows \ {w} : Replacing(t)'
  <2>1. PICK t \in Windows \ {w} : Replacing(t)
    BY <1>1, <1>7 DEF PutSessionLost
  <2>2. mapRef[v] # registry
    BY <1>0, <1>7 DEF PutSessionLost
  <2> QED
    BY <1>0, <1>7, <2>1, <2>2 DEF PutSessionLost
<1>8. ASSUME NEW v \in Windows, HeartBeat(v)
      PROVE  \E t \in Windows \ {w} : Replacing(t)'
  BY <1>1, <1>8 DEF HeartBeat
<1>9. ASSUME NEW v \in Windows,
             \/ LoginCheck(v) \/ Connect(v) \/ Authenticate(v) \/ LoginFails(v)
             \/ Online(v) \/ OnlineFails(v) \/ EstDisconnect(v) \/ EstRemove(v)
      PROVE  \E t \in Windows \ {w} : Replacing(t)'
  BY <1>0, <1>1, <1>9, LaterSteps DEF BeforePut, BeforeInstall
<1>10. ASSUME \/ ApiLogout \/ ApiRemove
              \/ \E v \in Windows : Closed(v) \/ Close(v) \/ Drop(v) \/ Reconnect(v)
       PROVE  \E t \in Windows \ {w} : Replacing(t)'
  BY <1>0, <1>1, <1>10, OtherSteps
<1>11. CASE UNCHANGED vars
  BY <1>1, <1>11 DEF vars
<1>12. ASSUME NEW v \in Windows, Tell(v)
       PROVE  \E t \in Windows \ {w} : Replacing(t)'
  <2>1. Replacing(v)'
    BY <1>0, <1>12 DEF Tell, GoTell
  <2>2. \A u \in told' : est[u] \notin BeforePut
    <3>1. old[v] # None /\ told' = told \cup {old[v]}
      BY <1>12 DEF Tell, GoTell, TypeOK
    <3> QED
      BY <1>2, <3>1 DEF ToldInv, PastPut
  <2>3. v # w
    BY <1>12, <2>2 DEF Tell, GoTell, BeforePut, BeforeInstall
  <2> QED
    BY <2>1, <2>3
<1> QED
  BY <1>3, <1>4, <1>5, <1>6, <1>7, <1>8, <1>9, <1>10, <1>11, <1>12
  DEF Next, Established

\* So the invariant holds in every state.
LEMMA ToldAlways == Spec => []ToldInv
<1>1. Init => ToldInv
  BY ConstantsAssumption
  DEF Init, ToldInv, PastPut, FreshMaps, ToldIsReplaced, Registered, Types
<1>2. TypeOK /\ ToldInv /\ [Next]_vars => ToldInv'
  BY PastPutStep, FreshMapsStep, ToldStep DEF ToldInv
<1> QED
  BY <1>1, <1>2, TypeCorrect, PTL DEF Spec

\* An agent without mobile windows: the registered window is told "notHeartBeat"
\* only when another window is already on its way to replace it.
THEOREM ToldCorrect == Spec => []ToldIsReplaced
<1>1. ToldInv => ToldIsReplaced
  BY DEF ToldInv
<1> QED
  BY <1>1, ToldAlways, PTL

-----------------------------------------------------------------------------
(***************************************************************************)
(* The refinement of CurrentSession.  A put into an inner map that another *)
(* callback has replaced is a miss; a callback that installs its own map,  *)
(* which is empty (FreshMaps), forgets whatever was registered; and what   *)
(* isConnected drops has closed (PastPut).                                 *)
(***************************************************************************)
Shown == <<Stages, Gone, Current>>

\* What the stage of a session is.
LEMMA StageIs ==
  ASSUME NEW w \in Windows
  PROVE  /\ est[w] = "none" => Stages[w] = "new"
         /\ est[w] \in {"tell", "lookup", "install", "put"} => Stages[w] = "arriving"
         /\ est[w] \notin BeforePut => Stages[w] = "settled"
  BY DEF Stages, BeforePut, BeforeInstall

\* A step of one established callback changes the stage of its session only.
LEMMA StageOfOne ==
  ASSUME TypeOK, NEW v \in Windows, NEW x, est' = [est EXCEPT ![v] = x]
  PROVE  /\ x \in {"tell", "lookup", "install", "put"} => Stages' = [Stages EXCEPT ![v] = "arriving"]
         /\ x \notin BeforePut => Stages' = [Stages EXCEPT ![v] = "settled"]
<1>1. \A w \in Windows : est'[w] = IF w = v THEN x ELSE est[w]
  BY DEF TypeOK
<1>2. CASE x \in {"tell", "lookup", "install", "put"}
  BY <1>1, <1>2 DEF Stages, BeforePut, BeforeInstall
<1>3. CASE x \notin BeforePut
  BY <1>1, <1>3 DEF Stages, BeforePut, BeforeInstall
<1> QED
  BY <1>2, <1>3

\* Steps that leave est, cls and what is registered alone do not show.
LEMMA StagesKept == ASSUME est' = est PROVE Stages' = Stages
  BY DEF Stages

\* Sessions close in their close callback,
LEMMA GoneKept == ASSUME cls' = cls PROVE Gone' = Gone
  BY DEF Gone

\* and the current ones depend on the maps alone.
LEMMA CurrentKept == ASSUME UNCHANGED <<registry, inner>> PROVE Current' = Current
  BY DEF Current, Registered

\* A session that is registered is past its put, so it is open or has closed.
LEMMA RegisteredClosed ==
  ASSUME TypeOK, PastPut, NEW t \in Types, NEW closed \in SUBSET {v \in Windows : ~ Open(v)},
         Current[t] \in closed
  PROVE  Current[t] \in Gone
<1>1. Current[t] = Registered(t) /\ Registered(t) \in Windows /\ ~ Open(Registered(t))
  BY DEF Current
<1>2. registry \in Windows /\ inner[registry][t] = Registered(t)
  BY <1>1, ConstantsAssumption DEF Registered, TypeOK
<1>3. est[Registered(t)] # "none"
  BY <1>1, <1>2 DEF PastPut, BeforePut, BeforeInstall
<1> QED
  BY <1>1, <1>3 DEF Open, Gone

\* isConnected forgets sessions that have closed.
LEMMA DropForgets ==
  ASSUME TypeOK, PastPut, NEW closed \in SUBSET {v \in Windows : ~ Open(v)},
         DropFromRegistered(closed), registry' = registry
  PROVE  \E kinds \in SUBSET Types :
           /\ \A k \in kinds : Current[k] \in Gone
           /\ Current' = Sessions!Without(kinds)
<1> DEFINE kinds == {t \in Types : Current[t] \in closed}
<1>1. \A t \in Types : Registered(t)' = IF Registered(t) \in closed THEN None ELSE Registered(t)
  BY ConstantsAssumption DEF TypeOK, DropFromRegistered, Registered, Open
<1>2. \A k \in kinds : Current[k] \in Gone
  BY RegisteredClosed
<1>3. Current' = Sessions!Without(kinds)
  BY <1>1 DEF Current, Sessions!Without
<1> QED
  BY <1>2, <1>3

\* Every step is a step of CurrentSession, or one it does not see.
LEMMA CurrentStep ==
  TypeOK /\ ToldInv /\ [Next]_vars => [Sessions!Next]_Shown
<1> SUFFICES ASSUME TypeOK, PastPut, FreshMaps, [Next]_vars
             PROVE  Sessions!Next \/ UNCHANGED Shown
  BY DEF ToldInv, Shown
<1> USE DEF GoEst, registryVars, xmppVars
<1>0. /\ est \in [Windows -> EstStates] /\ cls \in [Windows -> ClsStates]
      /\ registry \in Windows \cup {None} /\ None \notin Windows
      /\ inner \in [Windows -> [Types -> Windows \cup {None}]]
      /\ mapRef \in [Windows -> Windows \cup {None}]
      /\ \A w \in Windows : est[w] = "put" <=> mapRef[w] # None
  BY ConstantsAssumption DEF TypeOK
<1>1. ASSUME NEW w \in Windows, Establish(w) PROVE Sessions!Next
  <2>1. Stages[w] = "new" /\ Stages' = [Stages EXCEPT ![w] = "arriving"]
    BY <1>1, StageIs, StageOfOne DEF Establish
  <2>2. Gone' = Gone /\ Current' = Current
    BY <1>1, GoneKept, CurrentKept DEF Establish
  <2>3. Sessions!Arrive(w)
    BY <2>1, <2>2 DEF Sessions!Arrive
  <2> QED
    BY <2>3 DEF Sessions!Next
<1>2. ASSUME NEW w \in Windows, LookupMap(w) PROVE UNCHANGED Shown
  <2>1. Stages[w] = "arriving" /\ Stages' = [Stages EXCEPT ![w] = "arriving"]
    BY <1>2, StageIs, StageOfOne DEF LookupMap
  <2>2. Stages' = Stages
    BY <2>1 DEF Stages
  <2>3. Gone' = Gone /\ Current' = Current
    BY <1>2, GoneKept, CurrentKept DEF LookupMap
  <2> QED
    BY <2>2, <2>3 DEF Shown
<1>3. ASSUME NEW w \in Windows, InstallMap(w) PROVE Sessions!Next
  <2>1. Stages[w] = "arriving" /\ Stages' = [Stages EXCEPT ![w] = "arriving"]
    BY <1>3, StageIs, StageOfOne DEF InstallMap
  <2>2. Stages' = Stages
    BY <2>1 DEF Stages
  <2>3. Gone' = Gone
    BY <1>3, GoneKept DEF InstallMap
  <2>4. \A t \in Types : Registered(t)' = None
    BY <1>0, <1>3 DEF InstallMap, Registered, FreshMaps, BeforeInstall
  <2>5. Current' = Sessions!Without(Types)
    BY <2>4 DEF Current, Sessions!Without
  <2>6. Sessions!Forget(Types)
    BY <2>1, <2>2, <2>3, <2>5 DEF Sessions!Forget
  <2> QED
    BY <2>6 DEF Sessions!Next
<1>4. ASSUME NEW w \in Windows, PutSession(w) PROVE Sessions!Next
  <2>1. Stages[w] = "arriving" /\ Stages' = [Stages EXCEPT ![w] = "settled"]
    <3>1. est[w] = "put" /\ est' = [est EXCEPT ![w] = "check"]
      BY <1>4 DEF PutSession
    <3>2. "check" \notin BeforePut
      BY DEF BeforePut, BeforeInstall
    <3>3. Stages' = [Stages EXCEPT ![w] = "settled"]
      BY <3>1, <3>2, StageOfOne
    <3> QED
      BY <3>1, <3>3, StageIs
  <2>2. Gone' = Gone
    BY <1>4, GoneKept DEF PutSession
  <2>3. mapRef[w] \in Windows /\ registry' = registry /\ TypeOf(w) \in Types
    BY <1>0, <1>4, TypeOfType DEF PutSession
  <2>4. \A m \in Windows, t \in Types :
          inner'[m][t] = IF m = mapRef[w] /\ t = TypeOf(w) THEN w ELSE inner[m][t]
    BY <1>0, <1>4, <2>3 DEF PutSession
  <2>5. CASE mapRef[w] = registry
    <3>1. \A t \in Types : Registered(t)' = IF t = TypeOf(w) THEN w ELSE Registered(t)
      BY <1>0, <2>3, <2>4, <2>5 DEF Registered
    <3>2. Current' = [Current EXCEPT ![[v \in Windows |-> TypeOf(v)][w]] = w]
      BY <3>1 DEF Current
    <3>3. Sessions!Register(w)
      BY <2>1, <2>2, <3>2 DEF Sessions!Register
    <3> QED
      BY <3>3 DEF Sessions!Next
  <2>6. CASE mapRef[w] # registry
    <3>1. \A t \in Types : Registered(t)' = Registered(t)
      BY <1>0, <2>3, <2>4, <2>6 DEF Registered
    <3>2. Current' = Current
      BY <3>1 DEF Current
    <3>3. Sessions!Miss(w)
      BY <2>1, <2>2, <3>2 DEF Sessions!Miss
    <3> QED
      BY <3>3 DEF Sessions!Next
  <2> QED
    BY <2>5, <2>6
<1>5. ASSUME NEW w \in Windows, PutSessionLost(w) PROVE Sessions!Next
  <2>1. Stages[w] = "arriving" /\ Stages' = [Stages EXCEPT ![w] = "settled"]
    <3>1. est[w] = "put" /\ est' = [est EXCEPT ![w] = "check"]
      BY <1>5 DEF PutSessionLost
    <3>2. "check" \notin BeforePut
      BY DEF BeforePut, BeforeInstall
    <3>3. Stages' = [Stages EXCEPT ![w] = "settled"]
      BY <3>1, <3>2, StageOfOne
    <3> QED
      BY <3>1, <3>3, StageIs
  <2>2. Gone' = Gone /\ Current' = Current
    BY <1>5, GoneKept, CurrentKept DEF PutSessionLost
  <2>3. Sessions!Miss(w)
    BY <2>1, <2>2 DEF Sessions!Miss
  <2> QED
    BY <2>3 DEF Sessions!Next
<1>6. ASSUME NEW w \in Windows,
             \/ LoginCheck(w) \/ Connect(w) \/ Authenticate(w) \/ LoginFails(w)
             \/ Online(w) \/ OnlineFails(w) \/ EstDisconnect(w) \/ EstRemove(w)
      PROVE  UNCHANGED Shown
  <2>1. /\ est[w] \notin BeforePut /\ est'[w] \notin BeforePut
        /\ est' = [est EXCEPT ![w] = est'[w]] /\ UNCHANGED <<registry, inner>>
    BY <1>6, LaterSteps
  <2>2. Stages[w] = "settled" /\ Stages' = [Stages EXCEPT ![w] = "settled"]
    BY <2>1, StageIs, StageOfOne DEF BeforePut, BeforeInstall
  <2>3. Stages' = Stages
    BY <2>2 DEF Stages
  <2>4. cls' = cls
    BY <1>6 DEF LoginCheck, Connect, Authenticate, LoginFails, Online, OnlineFails,
       EstDisconnect, EstRemove
  <2> QED
    BY <2>1, <2>3, <2>4, GoneKept, CurrentKept DEF Shown
<1>7. ASSUME NEW w \in Windows, Close(w) \/ HeartBeat(w)
      PROVE  Sessions!Next \/ UNCHANGED Shown
  <2>1. Stages' = Stages /\ Current' = Current
    BY <1>7, StagesKept, CurrentKept DEF Close, HeartBeat
  <2>2. CASE cls' = cls
    BY <2>1, <2>2, GoneKept DEF Shown
  <2>3. CASE cls' # cls
    <3>1. Open(w) /\ cls' = [cls EXCEPT ![w] = "sleep"]
      BY <1>7, <2>3 DEF Close, HeartBeat
    <3>2. w \notin Gone /\ Gone' = Gone \cup {w}
      BY <1>0, <3>1 DEF Open, Gone
    <3>3. Stages[w] # "new"
      BY <3>1 DEF Open, Stages
    <3>4. Sessions!Leave(w)
      BY <2>1, <3>2, <3>3 DEF Sessions!Leave
    <3> QED
      BY <3>4 DEF Sessions!Next
  <2> QED
    BY <2>2, <2>3
<1>8. ASSUME NEW w \in Windows, IgnoreClosed(w) \/ DecideLogout(w) \/ CloseThrows(w)
      PROVE  Sessions!Next
  <2>1. PICK closed \in SUBSET {v \in Windows : ~ Open(v)} : DropFromRegistered(closed)
    BY <1>8 DEF IgnoreClosed, DecideLogout, CloseThrows
  <2>2. registry' = registry /\ Stages' = Stages
    BY <1>8, StagesKept DEF IgnoreClosed, DecideLogout, CloseThrows
  <2>3. Gone' = Gone
    BY <1>0, <1>8 DEF IgnoreClosed, DecideLogout, CloseThrows, Gone
  <2>4. PICK kinds \in SUBSET Types : /\ \A k \in kinds : Current[k] \in Gone
                                      /\ Current' = Sessions!Without(kinds)
    BY <2>1, <2>2, DropForgets
  <2>5. Sessions!Forget(kinds)
    BY <2>2, <2>3, <2>4 DEF Sessions!Forget
  <2> QED
    BY <2>5 DEF Sessions!Next
<1>9. ASSUME NEW w \in Windows, ClsDisconnect(w) \/ ClsRemove(w) PROVE UNCHANGED Shown
  <2>1. UNCHANGED <<est, registry, inner>>
    BY <1>9 DEF ClsDisconnect, ClsRemove
  <2>2. Gone' = Gone
    BY <1>0, <1>9 DEF ClsDisconnect, ClsRemove, Gone
  <2> QED
    BY <2>1, <2>2, StagesKept, CurrentKept DEF Shown
<1>10. ASSUME \/ ApiLogout \/ ApiRemove \/ UNCHANGED vars
              \/ \E w \in Windows : Drop(w) \/ Reconnect(w)
       PROVE  UNCHANGED Shown
  <2>1. UNCHANGED <<est, cls, registry, inner>>
    BY <1>10 DEF ApiLogout, ApiRemove, Drop, Reconnect, vars
  <2> QED
    BY <2>1, StagesKept, GoneKept, CurrentKept DEF Shown
<1>11. ASSUME NEW w \in Windows, Tell(w) \/ TellThrows(w)
       PROVE  Sessions!Next \/ UNCHANGED Shown
  <2>1. Stages[w] = "arriving" /\ Gone' = Gone /\ Current' = Current
    BY <1>11, StageIs, GoneKept, CurrentKept DEF Tell, TellThrows, GoTell
  <2>2. CASE est' = [est EXCEPT ![w] = "lookup"]
    <3>1. Stages' = [Stages EXCEPT ![w] = "arriving"]
      BY <2>2, StageOfOne
    <3>2. Stages' = Stages
      BY <2>1, <3>1 DEF Stages
    <3> QED
      BY <2>1, <3>2 DEF Shown
  <2>3. CASE est' = [est EXCEPT ![w] = "failed"]
    <3>1. "failed" \notin BeforePut
      BY DEF BeforePut, BeforeInstall
    <3>2. Stages' = [Stages EXCEPT ![w] = "settled"]
      BY <2>3, <3>1, StageOfOne
    <3>3. Sessions!Miss(w)
      BY <2>1, <3>2 DEF Sessions!Miss
    <3> QED
      BY <3>3 DEF Sessions!Next
  <2> QED
    BY <1>11, <2>2, <2>3 DEF Tell, TellThrows, GoTell
<1>12. ASSUME NEW w \in Windows, CloseWithError(w)
       PROVE  Sessions!Next \/ UNCHANGED Shown
  <2>1. est[w] = "failed" /\ est' = [est EXCEPT ![w] = "done"] /\ Current' = Current
    BY <1>12, CurrentKept DEF CloseWithError
  <2>2. "failed" \notin BeforePut /\ "done" \notin BeforePut
    BY DEF BeforePut, BeforeInstall
  <2>3. Stages[w] = "settled" /\ Stages' = Stages
    <3>1. Stages[w] = "settled" /\ Stages' = [Stages EXCEPT ![w] = "settled"]
      BY <2>1, <2>2, StageIs, StageOfOne
    <3> QED
      BY <3>1 DEF Stages
  <2>4. CASE Open(w)
    <3>1. w \notin Gone /\ Gone' = Gone \cup {w}
      BY <1>0, <1>12, <2>4 DEF CloseWithError, Open, Gone
    <3>2. Sessions!Leave(w)
      BY <2>1, <2>3, <3>1 DEF Sessions!Leave
    <3> QED
      BY <3>2 DEF Sessions!Next
  <2>5. CASE ~ Open(w)
    BY <1>12, <2>1, <2>3, <2>5, GoneKept DEF CloseWithError, Shown
  <2> QED
    BY <2>4, <2>5
<1> QED
  BY <1>1, <1>2, <1>3, <1>4, <1>5, <1>6, <1>7, <1>8, <1>9, <1>10, <1>11, <1>12
  DEF Next, Established, Closed

\* For each type the server keeps at most one current session, which became current by
\* its own registration, once; an open one is lost only to another that arrives.
THEOREM CurrentKeptCorrect == Spec => KeepsCurrent
<1>1. Init => Sessions!Init
  BY DEF Init, Sessions!Init, Stages, Gone, Current, Registered
<1> QED
  BY <1>1, CurrentStep, TypeCorrect, ToldAlways, PTL
  DEF Spec, KeepsCurrent, Sessions!Spec, Shown

=============================================================================
