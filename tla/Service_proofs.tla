---------------------------- MODULE Service_proofs ----------------------------
(***************************************************************************)
(* Proofs about the parts of the service that outlive a request: its       *)
(* lifespan, the sessions of the gateway, the house that the agent for     *)
(* Home Assistant remembers; and about the other agents: the one that asks *)
(* the language model, and those that are generated, while they are built  *)
(* and while they run.                                                     *)
(***************************************************************************)
EXTENDS MCService, Requests_proofs

-----------------------------------------------------------------------------
(* The lifespan (HostLifecycle).                                           *)

(* What runs was switched on by the settings that will switch it off, and  *)
(* while the server stops, what precedes the position is off.              *)
StoppedInOrder ==
  /\ up["objects"] = "off"
  /\ up["watchdog"] = "on" => "watchdog" \in enabled
  /\ up["wdbot"] = "on" => "watchdog" \in enabled
  /\ up["telegram"] = "on" => telegramSeen
  /\ hostPhase = "stopping" =>
       hostAt \in 1..7 /\ \A i \in 1..(hostAt - 1) : up[StopOrder[i]] # "on"

LifecycleInv == HostLifecycleTypeOK /\ StoppedInOrder /\ NothingLeftRunning

LEMMA PartsAre ==
  /\ Parts = {"monitor", "objects", "ha", "scheduler", "gateway", "telegram",
              "watchdog", "wdbot"}
  /\ \A i \in 1..8 : StartOrder[i] \in Parts
  /\ \A i \in 1..7 : StopOrder[i] \in Parts
  /\ \A p \in Parts : p = "objects" \/ \E i \in 1..7 : StopOrder[i] = p
<1>1. DOMAIN StartOrder = 1..8
  BY DEF StartOrder
<1>2. /\ StartOrder[1] = "monitor" /\ StartOrder[2] = "objects" /\ StartOrder[3] = "ha"
      /\ StartOrder[4] = "scheduler" /\ StartOrder[5] = "gateway"
      /\ StartOrder[6] = "telegram" /\ StartOrder[7] = "watchdog"
      /\ StartOrder[8] = "wdbot"
  BY DEF StartOrder
<1>3. /\ StopOrder[1] = "monitor" /\ StopOrder[2] = "scheduler" /\ StopOrder[3] = "ha"
      /\ StopOrder[4] = "gateway" /\ StopOrder[5] = "wdbot"
      /\ StopOrder[6] = "watchdog" /\ StopOrder[7] = "telegram"
  BY DEF StopOrder
<1>4. 1..8 = {1, 2, 3, 4, 5, 6, 7, 8} /\ 1..7 = {1, 2, 3, 4, 5, 6, 7}
  OBVIOUS
<1>5. Parts = {"monitor", "objects", "ha", "scheduler", "gateway", "telegram",
               "watchdog", "wdbot"}
  BY <1>1, <1>2, <1>4 DEF Parts
<1> QED
  BY <1>2, <1>3, <1>4, <1>5

(* What a start may leave behind.                                          *)
LEMMA StartLeaves ==
  ASSUME NEW p \in Parts, NEW o \in StartOutcomes(p)
  PROVE  /\ o.leaves \in {"off", "on", "half"}
         /\ o.leaves = "half" => p \in Bots
         /\ p = "objects" => o.leaves = "off"
         /\ o.leaves = "on" => Wanted(p)
<1>1. ~Wanted(p) => StartOutcomes(p) = {[leaves |-> "off", raises |-> FALSE]}
  BY DEF StartOutcomes
<1>2. Wanted(p) /\ p \in {"monitor", "watchdog"} =>
        StartOutcomes(p) = {[leaves |-> "on", raises |-> FALSE]}
  BY DEF StartOutcomes
<1>3. Wanted(p) /\ p = "objects" =>
        StartOutcomes(p) = {[leaves |-> "off", raises |-> r] : r \in BOOLEAN}
  BY DEF StartOutcomes
<1>4. Wanted(p) /\ p \in {"ha", "scheduler"} =>
        StartOutcomes(p) = {[leaves |-> "on", raises |-> FALSE],
                            [leaves |-> "off", raises |-> TRUE]}
  BY DEF StartOutcomes
<1>5. Wanted(p) /\ p = "gateway" =>
        StartOutcomes(p) = {[leaves |-> s, raises |-> FALSE] : s \in {"on", "off"}}
  BY DEF StartOutcomes
<1>6. Wanted(p) /\ p = "telegram" =>
        StartOutcomes(p) = {[leaves |-> s, raises |-> FALSE] :
                              s \in {"on", "half", "off"}}
  BY DEF StartOutcomes
<1>7. Wanted(p) /\ p = "wdbot" =>
        StartOutcomes(p) = {[leaves |-> "on", raises |-> FALSE],
                            [leaves |-> "half", raises |-> TRUE]}
  BY DEF StartOutcomes
<1> QED
  <2>0. o \in StartOutcomes(p)
    OBVIOUS
  <2>1. CASE ~Wanted(p)
    BY <1>1, <2>0, <2>1
  <2>2. CASE Wanted(p) /\ p \in {"monitor", "watchdog"}
    BY <1>2, <2>0, <2>2
  <2>3. CASE Wanted(p) /\ p = "objects"
    BY <1>3, <2>0, <2>3
  <2>4. CASE Wanted(p) /\ p \in {"ha", "scheduler"}
    BY <1>4, <2>0, <2>4
  <2>5. CASE Wanted(p) /\ p = "gateway"
    BY <1>5, <2>0, <2>5
  <2>6. CASE Wanted(p) /\ p = "telegram"
    BY <1>6, <2>0, <2>6 DEF Bots
  <2>7. CASE Wanted(p) /\ p = "wdbot"
    BY <1>7, <2>0, <2>7 DEF Bots
  <2> QED
    BY <2>1, <2>2, <2>3, <2>4, <2>5, <2>6, <2>7, PartsAre

LEMMA StartPartKept == LifecycleInv /\ StartPart => LifecycleInv'
<1> SUFFICES ASSUME LifecycleInv, StartPart PROVE LifecycleInv'
  OBVIOUS
<1> DEFINE p == StartOrder[hostAt]
<1>t. HostLifecycleTypeOK /\ StoppedInOrder
  BY DEF LifecycleInv
<1>1. p \in Parts
  BY <1>t, PartsAre DEF HostLifecycleTypeOK
<1>2. PICK o \in StartOutcomes(p) :
        /\ up' = [up EXCEPT ![p] = o.leaves]
        /\ hostPhase' = IF o.raises THEN "stopping"
                        ELSE IF hostAt = 8 THEN "serving" ELSE hostPhase
        /\ hostAt' = IF o.raises \/ hostAt = 8 THEN 1 ELSE hostAt + 1
  BY DEF StartPart
<1>3. /\ hostPhase = "starting" /\ UNCHANGED enabled
      /\ telegramSeen' = IF p = "telegram" THEN "telegram" \in enabled ELSE telegramSeen
  BY DEF StartPart
<1> HIDE DEF p
<1>4. /\ o.leaves \in {"off", "on", "half"}
      /\ o.leaves = "half" => p \in Bots
      /\ p = "objects" => o.leaves = "off"
      /\ o.leaves = "on" => Wanted(p)
  BY <1>1, StartLeaves
<1>5. HostLifecycleTypeOK'
  <2>1. up' \in [Parts -> {"off", "on", "half"}]
    BY <1>t, <1>2, <1>4 DEF HostLifecycleTypeOK
  <2>2. \A q \in Parts \ Bots : up'[q] # "half"
    BY <1>t, <1>1, <1>2, <1>4 DEF HostLifecycleTypeOK
  <2>3. hostPhase' \in {"starting", "serving", "stopping", "down"} /\ hostAt' \in 1..8
    BY <1>t, <1>2, <1>3, <1>4 DEF HostLifecycleTypeOK
  <2>4. enabled' \subseteq Parts /\ telegramSeen' \in BOOLEAN
    <3>1. CASE p = "telegram"
      BY <1>t, <1>3, <3>1 DEF HostLifecycleTypeOK
    <3>2. CASE p # "telegram"
      BY <1>t, <1>3, <3>2 DEF HostLifecycleTypeOK
    <3> QED
      BY <3>1, <3>2
  <2> QED
    BY <2>1, <2>2, <2>3, <2>4 DEF HostLifecycleTypeOK
<1>6. StoppedInOrder'
  <2>1. hostPhase' = "stopping" => hostAt' = 1
    BY <1>2, <1>3, <1>4
  <2>2. /\ up'["objects"] = "off"
        /\ up'["watchdog"] = "on" => "watchdog" \in enabled
        /\ up'["wdbot"] = "on" => "watchdog" \in enabled
        /\ up'["telegram"] = "on" => telegramSeen'
    <3>1. \A q \in Parts : up'[q] = "on" => (q # p /\ up[q] = "on") \/ (q = p /\ Wanted(q))
      BY <1>t, <1>1, <1>2, <1>4 DEF HostLifecycleTypeOK
    <3>2. up'["objects"] # up["objects"] => p = "objects" /\ up'["objects"] = "off"
      BY <1>t, <1>1, <1>2, <1>4, PartsAre DEF HostLifecycleTypeOK
    <3>3. p = "telegram" /\ "telegram" \in enabled => telegramSeen'
      BY <1>3
    <3>4. p # "telegram" => telegramSeen' = telegramSeen
      BY <1>3
    <3> QED
      BY <1>t, <3>1, <3>2, <3>3, <3>4, PartsAre DEF StoppedInOrder, Wanted
  <2> QED
    BY <1>3, <2>1, <2>2 DEF StoppedInOrder
<1>7. NothingLeftRunning'
  BY <1>2, <1>3 DEF NothingLeftRunning
<1> QED
  BY <1>5, <1>6, <1>7 DEF LifecycleInv

LEMMA StopPartKept == LifecycleInv /\ StopPart => LifecycleInv'
<1> SUFFICES ASSUME LifecycleInv, StopPart PROVE LifecycleInv'
  OBVIOUS
<1> DEFINE p == StopOrder[hostAt]
<1>t. HostLifecycleTypeOK /\ StoppedInOrder
  BY DEF LifecycleInv
<1>1. /\ hostPhase = "stopping" /\ hostAt \in 1..7 /\ UNCHANGED <<enabled, telegramSeen>>
      /\ up' = IF Guarded(p) /\ up[p] = "on" THEN [up EXCEPT ![p] = "off"] ELSE up
      /\ hostPhase' = IF hostAt = 7 THEN "down" ELSE hostPhase
      /\ hostAt' = IF hostAt = 7 THEN hostAt ELSE hostAt + 1
  BY <1>t DEF StopPart, StoppedInOrder
<1>2. p \in Parts /\ p # "objects"
  BY <1>1, PartsAre DEF StopOrder
<1> HIDE DEF p
<1>3. up[p] = "on" => Guarded(p)
  BY <1>t, <1>2, PartsAre DEF Guarded, StoppedInOrder
<1>4. up'[p] # "on" /\ \A q \in Parts : up'[q] = "on" => up[q] = "on"
  BY <1>t, <1>1, <1>2, <1>3 DEF HostLifecycleTypeOK
<1>5. \A i \in 1..hostAt : up'[StopOrder[i]] # "on"
  <2>1. ASSUME NEW i \in 1..hostAt PROVE up'[StopOrder[i]] # "on"
    <3>1. CASE i = hostAt
      BY <1>4, <3>1 DEF p
    <3>2. CASE i # hostAt
      <4>1. i \in 1..(hostAt - 1) /\ i \in 1..7
        BY <1>1, <3>2
      <4>2. StopOrder[i] \in Parts
        BY <4>1, PartsAre
      <4> QED
        BY <1>t, <1>1, <1>4, <4>1, <4>2 DEF StoppedInOrder
    <3> QED
      BY <3>1, <3>2
  <2> QED
    BY <2>1
<1>6. HostLifecycleTypeOK'
  BY <1>t, <1>1, <1>2 DEF HostLifecycleTypeOK
<1>7. up'["objects"] = "off"
  BY <1>t, <1>1, <1>2, PartsAre DEF StoppedInOrder, HostLifecycleTypeOK
<1>8. StoppedInOrder'
  BY <1>t, <1>1, <1>4, <1>5, <1>7, PartsAre DEF StoppedInOrder
<1>9. NothingLeftRunning'
  BY <1>1, <1>5, <1>7, PartsAre DEF NothingLeftRunning
<1> QED
  BY <1>6, <1>8, <1>9 DEF LifecycleInv

LEMMA LifecycleStep == LifecycleInv /\ [LifecycleNext]_lifecycleVars => LifecycleInv'
<1> SUFFICES ASSUME LifecycleInv, [LifecycleNext]_lifecycleVars PROVE LifecycleInv'
  OBVIOUS
<1>1. CASE GatewayEnds
  BY <1>1, PartsAre
  DEF GatewayEnds, LifecycleInv, HostLifecycleTypeOK, StoppedInOrder, NothingLeftRunning, Bots
<1>2. CASE Shutdown
  BY <1>2
  DEF Shutdown, LifecycleInv, HostLifecycleTypeOK, StoppedInOrder, NothingLeftRunning
<1>3. CASE UNCHANGED lifecycleVars
  BY <1>3
  DEF lifecycleVars, LifecycleInv, HostLifecycleTypeOK, StoppedInOrder, NothingLeftRunning
<1> QED
  BY <1>1, <1>2, <1>3, StartPartKept, StopPartKept DEF LifecycleNext

LEMMA LifecycleStart == LifecycleInit => LifecycleInv
<1> SUFFICES ASSUME LifecycleInit PROVE LifecycleInv
  OBVIOUS
<1>1. /\ hostPhase = "starting" /\ hostAt = 1 /\ up = [p \in Parts |-> "off"]
      /\ telegramSeen = FALSE
  BY DEF LifecycleInit
<1>2. PICK s \in SUBSET {"ha", "scheduler", "telegram", "watchdog", "wdbot"} :
        enabled = s \cup {"monitor", "objects", "gateway"}
  BY DEF LifecycleInit
<1>3. HostLifecycleTypeOK
  <2>1. enabled \subseteq Parts
    BY <1>2, PartsAre
  <2>2. up \in [Parts -> {"off", "on", "half"}] /\ \A p \in Parts : up[p] # "half"
    BY <1>1
  <2>3. telegramSeen \in BOOLEAN
    BY <1>1
  <2> QED
    BY <1>1, <2>1, <2>2, <2>3 DEF HostLifecycleTypeOK
<1>4. StoppedInOrder
  BY <1>1, PartsAre DEF StoppedInOrder
<1> QED
  BY <1>1, <1>3, <1>4 DEF LifecycleInv, NothingLeftRunning

(* However far the start came and whatever raised, the finally block       *)
(* leaves no task, job or polling bot of the lifespan running.             *)
THEOREM NothingLeftRunningCorrect == LifecycleSpec => []NothingLeftRunning
<1>1. LifecycleInv => NothingLeftRunning
  BY DEF LifecycleInv
<1> QED
  BY <1>1, LifecycleStart, LifecycleStep, PTL DEF LifecycleSpec

(* From the first part started to the last one stopped, every part is off, *)
(* on or, a bot only, half up, and the lifespan's position is in its list. *)
THEOREM LifecycleTypeCorrect == LifecycleSpec => []HostLifecycleTypeOK
<1>1. LifecycleInv => HostLifecycleTypeOK
  BY DEF LifecycleInv
<1> QED
  BY <1>1, LifecycleStart, LifecycleStep, PTL DEF LifecycleSpec
-----------------------------------------------------------------------------
(* The sessions of the gateway (Gateway).                                  *)

(* No creation that was answered is newer than the newest session.         *)
ToldIsPast ==
  told \in [Ids -> Nat] /\ version \in 0..MaxVersion /\ \A i \in Ids : told[i] <= version

(* The limit counts every open connection.                                 *)
OpenIsCounted == \A c \in Clients : conn[c] # "none" => c \in clients

GatewayInv == GatewayTypeOK /\ OpenIsCounted /\ ToldIsPast /\ ToldSessionsLast

LEMMA NoneIsSession ==
  ASSUME NEW i \in Ids PROVE None \in Sessions /\ None.version = 0
BY StemAssumption DEF None, Sessions

(* An id that shares its file with no other has the file of its own name.  *)
LEMMA AloneHasItsFile ==
  ASSUME NEW i \in Ids, Alone(i)
  PROVE  Stem[i] = i /\ \A j \in Ids : Stem[j] = i => j = i
BY StemAssumption DEF Alone

(* Steps that only touch sockets.                                          *)
LEMMA StoreUnchanged ==
  ASSUME GatewayInv, UNCHANGED storeVars,
         conn' \in [Clients -> {"none", "greeting", "reading", "calling"}],
         trusted' \subseteq clients', clients' \subseteq Clients, OpenIsCounted'
  PROVE  GatewayInv'
BY DEF GatewayInv, GatewayTypeOK, ToldIsPast, ToldSessionsLast, storeVars

LEMMA NewSessionKept ==
  ASSUME GatewayInv, NEW c \in Clients, NewSession(c)
  PROVE  GatewayInv'
<1>t. GatewayTypeOK /\ ToldIsPast /\ ToldSessionsLast /\ MaxVersion \in Nat
  BY StemAssumption DEF GatewayInv
<1> DEFINE n == version + 1
<1>1. PICK i \in Ids, fails \in BOOLEAN :
        /\ cache' = [cache EXCEPT ![i] = [id |-> i, version |-> n]]
        /\ files' = IF fails THEN files
                    ELSE [files EXCEPT ![Stem[i]] = [id |-> i, version |-> n]]
        /\ told' = told \/ (~fails /\ told' = [told EXCEPT ![i] = n])
  BY DEF NewSession, Saved
<1>2. version < MaxVersion /\ version' = n /\ UNCHANGED socketVars
  BY DEF NewSession
<1>3. n \in 1..MaxVersion /\ [id |-> i, version |-> n] \in Sessions /\ Stem[i] \in Ids
      /\ version \in Nat
  BY <1>t, <1>2, StemAssumption DEF ToldIsPast, Sessions
<1>4. GatewayTypeOK'
  <2>1. cache' \in [Ids -> Sessions] /\ files' \in [Ids -> Sessions]
    BY <1>t, <1>1, <1>3 DEF GatewayTypeOK
  <2> QED
    BY <1>t, <1>2, <2>1 DEF GatewayTypeOK, socketVars
<1>5. ToldIsPast'
  BY <1>t, <1>1, <1>2, <1>3 DEF ToldIsPast
<1>6. ASSUME NEW j \in Ids, told'[j] > 0, Alone(j)
      PROVE  /\ files'[j].id = j /\ files'[j].version >= told'[j]
             /\ cache'[j] # None => cache'[j].version >= told'[j]
  <2>1. Stem[j] = j /\ \A k \in Ids : Stem[k] = j => k = j
    BY <1>6, AloneHasItsFile
  <2>2. CASE j = i /\ told'[j] = n
    <3>1. told'[j] # told[j]
      BY <1>t, <1>3, <2>2 DEF ToldIsPast
    <3>2. ~fails
      BY <1>1, <3>1
    <3>3. files'[j] = [id |-> j, version |-> n] /\ cache'[j] = [id |-> j, version |-> n]
      BY <1>t, <1>1, <2>1, <2>2, <3>2 DEF GatewayTypeOK
    <3> QED
      BY <1>3, <2>2, <3>3
  <2>3. CASE told'[j] = told[j]
    <3>1. /\ files[j].id = j /\ files[j].version >= told[j]
          /\ cache[j] # None => cache[j].version >= told[j]
      BY <1>t, <1>6, <2>3 DEF ToldSessionsLast
    <3>2. told[j] <= n
      BY <1>t, <1>3 DEF ToldIsPast
    <3>3. files'[j] = files[j] \/ files'[j] = [id |-> j, version |-> n]
      BY <1>t, <1>1, <1>3, <2>1 DEF GatewayTypeOK
    <3>4. cache'[j] = cache[j] \/ cache'[j] = [id |-> j, version |-> n]
      BY <1>t, <1>1 DEF GatewayTypeOK
    <3> QED
      BY <1>t, <1>3, <2>3, <3>1, <3>2, <3>3, <3>4 DEF ToldIsPast
  <2>4. told'[j] = told[j] \/ (j = i /\ told'[j] = n)
    BY <1>t, <1>1 DEF ToldIsPast
  <2> QED
    BY <2>2, <2>3, <2>4
<1>7. ToldSessionsLast'
  BY <1>6 DEF ToldSessionsLast, Alone
<1> QED
  BY <1>2, <1>4, <1>5, <1>7 DEF GatewayInv, OpenIsCounted, socketVars

(* What is read into the cache is the file of the id.                      *)
LEMMA ReadKept ==
  ASSUME GatewayInv, UNCHANGED <<socketVars, files, version, told>>,
         cache' \in [Ids -> Sessions \union {None}],
         \A i \in Ids : cache'[i] \in {None, cache[i], files[Stem[i]]}
  PROVE  GatewayInv'
<1>t. GatewayTypeOK /\ ToldIsPast /\ ToldSessionsLast
  BY DEF GatewayInv
<1>1. GatewayTypeOK'
  <2>1. \A i \in Ids : None \in Sessions
    BY NoneIsSession
  <2> QED
    BY <1>t, <2>1 DEF GatewayTypeOK, socketVars
<1>2. ToldSessionsLast'
  <2> SUFFICES ASSUME NEW i \in Ids, told[i] > 0, Alone(i)
               PROVE  /\ files[i].id = i /\ files[i].version >= told[i]
                      /\ cache'[i] # None => cache'[i].version >= told[i]
    BY DEF ToldSessionsLast, Alone
  <2>1. Stem[i] = i
    BY AloneHasItsFile
  <2> QED
    BY <1>t, <2>1 DEF ToldSessionsLast
<1> QED
  BY <1>t, <1>1, <1>2 DEF GatewayInv, ToldIsPast, OpenIsCounted, socketVars

LEMMA GatewayStep == GatewayInv /\ [GatewayNext]_gatewayVars => GatewayInv'
<1> SUFFICES ASSUME GatewayInv, [GatewayNext]_gatewayVars PROVE GatewayInv'
  OBVIOUS
<1>t. GatewayTypeOK /\ OpenIsCounted
  BY DEF GatewayInv
<1>n. \A i \in Ids : None \in Sessions
  BY NoneIsSession
<1>1. ASSUME NEW c \in Clients,
             \/ Connect(c) \/ Greet(c) \/ Disconnect(c) \/ Reject(c)
             \/ Authenticate(c) \/ CallSkill(c) \/ SkillReturns(c) \/ Chat(c)
      PROVE  GatewayInv'
  <2>1. UNCHANGED storeVars
    BY <1>1
    DEF Connect, Greet, Disconnect, Reject, Authenticate, CallSkill, SkillReturns, Chat
  <2>2. conn' \in [Clients -> {"none", "greeting", "reading", "calling"}]
    BY <1>1, <1>t
    DEF Connect, Greet, Disconnect, Reject, Authenticate, CallSkill, SkillReturns,
        Chat, GatewayTypeOK, socketVars
  <2>3. trusted' \subseteq clients' /\ clients' \subseteq Clients
    <3>1. c \in clients \/ ~Authenticate(c)
      BY <1>t DEF Authenticate, OpenIsCounted
    <3>2. trusted \subseteq clients /\ clients \subseteq Clients
      BY <1>t DEF GatewayTypeOK
    <3>3. CASE Connect(c)
      BY <3>2, <3>3 DEF Connect, socketVars
    <3>4. CASE Disconnect(c)
      BY <3>2, <3>4 DEF Disconnect
    <3>5. CASE Authenticate(c)
      BY <3>1, <3>2, <3>5 DEF Authenticate
    <3>6. CASE Greet(c) \/ Reject(c) \/ CallSkill(c) \/ SkillReturns(c) \/ Chat(c)
      BY <3>2, <3>6 DEF Greet, Reject, CallSkill, SkillReturns, Chat, socketVars
    <3> QED
      BY <1>1, <3>3, <3>4, <3>5, <3>6
  <2>4. OpenIsCounted'
    <3>1. conn \in [Clients -> {"none", "greeting", "reading", "calling"}]
      BY <1>t DEF GatewayTypeOK
    <3>2. CASE Connect(c)
      BY <1>t, <3>1, <3>2 DEF Connect, OpenIsCounted, socketVars
    <3>3. CASE Disconnect(c)
      BY <1>t, <3>1, <3>3 DEF Disconnect, OpenIsCounted
    <3>4. CASE Greet(c) \/ CallSkill(c) \/ SkillReturns(c)
      BY <1>t, <3>1, <3>4 DEF Greet, CallSkill, SkillReturns, Serving, OpenIsCounted
    <3>5. CASE Authenticate(c) \/ Reject(c) \/ Chat(c)
      BY <1>t, <3>5 DEF Authenticate, Reject, Chat, OpenIsCounted, socketVars
    <3> QED
      BY <1>1, <3>2, <3>3, <3>4, <3>5
  <2> QED
    BY <2>1, <2>2, <2>3, <2>4, StoreUnchanged
<1>2. ASSUME NEW c \in Clients, GetSession(c) \/ ListSessions(c) PROVE GatewayInv'
  <2>1. UNCHANGED <<socketVars, files, version, told>>
    BY <1>2 DEF GetSession, ListSessions
  <2>2. \A i \in Ids : Get(i) \in {cache[i], files[Stem[i]]} /\ Get(i) \in Sessions
    BY <1>t, StemAssumption DEF Get, GatewayTypeOK
  <2>3. cache' \in [Ids -> Sessions]
        /\ \A i \in Ids : cache'[i] \in {cache[i], Get(i)}
    BY <1>2, <1>t, <2>2 DEF GetSession, ListSessions, GatewayTypeOK
  <2> QED
    BY <2>1, <2>2, <2>3, ReadKept
<1>3. CASE Restart
  <2>1. UNCHANGED <<files, version, told>> /\ cache' = [i \in Ids |-> None]
    BY <1>3 DEF Restart
  <2>2. GatewayTypeOK'
    BY <1>3, <1>t, <1>n, <2>1 DEF Restart, GatewayTypeOK
  <2>3. OpenIsCounted'
    BY <1>3 DEF Restart, OpenIsCounted
  <2> QED
    BY <2>1, <2>2, <2>3 DEF GatewayInv, ToldIsPast, ToldSessionsLast
<1>4. CASE UNCHANGED gatewayVars
  BY <1>4
  DEF gatewayVars, GatewayInv, GatewayTypeOK, OpenIsCounted, ToldIsPast,
      ToldSessionsLast
<1> QED
  BY <1>1, <1>2, <1>3, <1>4, NewSessionKept DEF GatewayNext

LEMMA GatewayStart == GatewayInit => GatewayInv
<1> SUFFICES ASSUME GatewayInit PROVE GatewayInv
  OBVIOUS
<1>1. \A i \in Ids : None \in Sessions
  BY NoneIsSession
<1>2. GatewayTypeOK
  BY <1>1 DEF GatewayInit, GatewayTypeOK
<1> QED
  BY <1>2, StemAssumption DEF GatewayInit, GatewayInv, OpenIsCounted, ToldIsPast, ToldSessionsLast

(* Neither a save that fails nor the death of the process loses a session  *)
(* whose creation a client was told of, unless two ids share a file.       *)
THEOREM ToldSessionsLastCorrect == GatewaySpec => []ToldSessionsLast
<1>1. GatewayInv => ToldSessionsLast
  BY DEF GatewayInv
<1> QED
  BY <1>1, GatewayStart, GatewayStep, PTL DEF GatewaySpec

(* Whatever the clients send and whenever the process dies, a session in   *)
(* the store or on disk is one that was created or None, and only clients  *)
(* that are connected are trusted.                                         *)
THEOREM GatewayTypeCorrect == GatewaySpec => []GatewayTypeOK
<1>1. GatewayInv => GatewayTypeOK
  BY DEF GatewayInv
<1> QED
  BY <1>1, GatewayStart, GatewayStep, PTL DEF GatewaySpec
-----------------------------------------------------------------------------
(* The house (HomeAssistant).                                              *)

(* Nothing is remembered, read or asked before the agent has started.      *)
HomeInv ==
  /\ DOMAIN speech = Speakers
  /\ ~started => /\ cached = NoStates /\ reading = {}
                 /\ \A s \in Speakers : speech[s].pc = "idle"

LEMMA HomeStart == HomeInit => HomeInv
BY DEF HomeInit, HomeInv, Listening

(* A request that parses is still the same request.                        *)
LEMMA ParseKept ==
  ASSUME HomeInv, NEW s \in Speakers, NEW w, NEW lights, Parse(s, w, lights)
  PROVE  DOMAIN speech' = Speakers
BY DEF Parse, Answered, HomeInv

LEMMA HomeStep == HomeInv /\ [HomeNext]_homeVars => HomeInv'
<1> SUFFICES ASSUME HomeInv, [HomeNext]_homeVars PROVE HomeInv'
  OBVIOUS
<1>1. ASSUME NEW s \in Speakers, Ask(s) PROVE HomeInv'
  <2>1. PICK w \in Wishes :
          \/ Parse(s, w, cached)
          \/ speech' = [speech EXCEPT ![s].pc = "loading", ![s].wish = w]
    BY <1>1 DEF Ask
  <2>2. DOMAIN speech' = Speakers
    BY <2>1, ParseKept DEF HomeInv
  <2> QED
    BY <1>1, <2>2 DEF Ask, HomeInv
<1>2. ASSUME NEW s \in Speakers, Loaded(s) PROVE HomeInv'
  <2>1. started /\ UNCHANGED started
    BY <1>2 DEF Loaded, HomeInv
  <2>2. CASE \E lights : Parse(s, speech[s].wish, lights)
    BY <2>1, <2>2, ParseKept DEF HomeInv
  <2>3. CASE Answered(s, "out of reach")
    BY <2>1, <2>3 DEF Answered, HomeInv
  <2> QED
    BY <1>2, <2>2, <2>3 DEF Loaded
<1>3. ASSUME NEW s \in Speakers, Posted(s) PROVE HomeInv'
  BY <1>3 DEF Posted, Answered, HomeInv
<1>4. CASE OnStart \/ HouseChanges \/ UNCHANGED homeVars
  BY <1>4 DEF OnStart, HouseChanges, homeVars, HomeInv
<1>5. ASSUME NEW by \in Refreshes, BeginReload(by) \/ Reload(by) PROVE HomeInv'
  BY <1>5 DEF BeginReload, Reload, HomeInv
<1> QED
  BY <1>1, <1>2, <1>3, <1>4, <1>5 DEF HomeNext

(* The step in which the house is forgotten.                               *)
ForgottenOnRequest ==
  cached # NoStates /\ cached' = NoStates =>
    \E s \in Speakers : speech[s].pc = "loading" /\ speech'[s].answer = "out of reach"

LEMMA ForgottenStep == HomeInv /\ [HomeNext]_homeVars => ForgottenOnRequest
<1> SUFFICES ASSUME HomeInv, [HomeNext]_homeVars, cached # NoStates, cached' = NoStates
             PROVE  \E s \in Speakers :
                      speech[s].pc = "loading" /\ speech'[s].answer = "out of reach"
  BY DEF ForgottenOnRequest
<1>1. ASSUME NEW s \in Speakers, Loaded(s)
      PROVE  speech[s].pc = "loading" /\ speech'[s].answer = "out of reach"
  <2>1. speech[s].pc = "loading" /\ Answered(s, "out of reach")
    BY <1>1 DEF Loaded
  <2>2. speech'[s] = [Listening EXCEPT !.pc = "done", !.answer = "out of reach"]
    BY <2>1 DEF Answered, HomeInv
  <2> QED
    BY <2>1, <2>2 DEF Listening
<1>2. started
  BY DEF HomeInv
<1>3. ~(\E by \in Refreshes : BeginReload(by) \/ Reload(by))
  BY DEF BeginReload, Reload, Kept
<1>4. ~(OnStart \/ HouseChanges \/ UNCHANGED homeVars)
  BY <1>2 DEF OnStart, HouseChanges, homeVars
<1>5. ~(\E s \in Speakers : Ask(s) \/ Posted(s))
  BY DEF Ask, Posted
<1> QED
  BY <1>1, <1>3, <1>4, <1>5 DEF HomeNext

(* However refreshes and requests overlap, an outage makes the agent       *)
(* forget the house only through a request that had found nothing itself.  *)
THEOREM OutageKeepsCacheCorrect == HomeSpec => OutageKeepsCache
<1>1. HomeInv /\ [HomeNext]_homeVars =>
        [cached # NoStates /\ cached' = NoStates =>
           \E s \in Speakers : speech[s].pc = "loading"
                               /\ speech'[s].answer = "out of reach"]_homeVars
  BY ForgottenStep DEF ForgottenOnRequest
<1> QED
  BY HomeStart, HomeStep, <1>1, PTL DEF HomeSpec, OutageKeepsCache

(* What a request of the house agent is made of.                           *)
Wanting == Wishes \cup {Listening.wish}
Named == {Domain[e] : e \in Entities} \cup {w.domain : w \in Wanting} \cup {"none"}
Speech ==
  [pc : {"idle", "loading", "posting", "done"}, wish : Wanting,
   targets : SUBSET Entities, domain : Named,
   answer : {"none", "no entity", "unknown", "out of reach", "done", "timeout", "refused"} \cup States]

HouseTypes ==
  /\ house \in [Entities -> States] /\ cached \in [Entities -> States]
  /\ reading \in SUBSET Refreshes /\ started \in BOOLEAN /\ speech \in [Speakers -> Speech]

LEMMA ListeningIs == Listening \in Speech
BY DEF Listening, Speech, Wanting, Named

LEMMA AnsweredKeepsSpeech ==
  ASSUME speech \in [Speakers -> Speech], NEW s \in Speakers,
         NEW saying \in {"none", "no entity", "unknown", "out of reach", "done", "timeout", "refused"} \cup States,
         Answered(s, saying)
  PROVE  speech' \in [Speakers -> Speech]
<1> DEFINE r == [Listening EXCEPT !.pc = "done", !.answer = saying]
<1>1. r \in Speech
  <2> DEFINE l == Listening
  <2>1. l \in Speech
    BY ListeningIs
  <2> HIDE DEF l
  <2>2. [l EXCEPT !.pc = "done", !.answer = saying] \in Speech
    BY <2>1 DEF Speech
  <2> QED
    BY <2>2 DEF l
<1> HIDE DEF r
<1>2. speech' = [speech EXCEPT ![s] = r]
  BY DEF Answered, r
<1> QED
  BY <1>1, <1>2

(* Nothing but the house is named by a query, whatever it says.            *)
LEMMA TargetsAre ==
  ASSUME NEW w, NEW lights
  PROVE  Targets(w, lights) \in SUBSET Entities
BY DEF Targets, Best, Candidates

LEMMA ParseKeepsSpeech ==
  ASSUME speech \in [Speakers -> Speech], NEW s \in Speakers, NEW w \in Wanting,
         NEW lights \in [Entities -> States], Parse(s, w, lights)
  PROVE  speech' \in [Speakers -> Speech]
<1>0. Targets(w, lights) \in SUBSET Entities
  BY TargetsAre
<1>1. CASE Answered(s, "no entity")
  BY <1>1, AnsweredKeepsSpeech
<1>2. CASE \E state \in Told(w, lights) : Answered(s, state)
  <2>1. PICK state \in Told(w, lights) : Answered(s, state)
    BY <1>2
  <2>2. state \in {"unknown"} \cup States
    BY <1>0 DEF Told
  <2> QED
    BY <2>1, <2>2, AnsweredKeepsSpeech
<1>3. CASE \E d \in ServiceDomains(w, lights) :
             speech' = [speech EXCEPT ![s] = [pc |-> "posting", wish |-> w,
                          targets |-> Targets(w, lights), domain |-> d, answer |-> "none"]]
  <2>1. PICK d \in ServiceDomains(w, lights) :
          speech' = [speech EXCEPT ![s] = [pc |-> "posting", wish |-> w,
                       targets |-> Targets(w, lights), domain |-> d, answer |-> "none"]]
    BY <1>3
  <2>2. d \in Named
    BY <1>0, <2>1 DEF ServiceDomains, Named
  <2> DEFINE t == Targets(w, lights)
  <2> HIDE DEF t
  <2>3. [pc |-> "posting", wish |-> w, targets |-> t, domain |-> d, answer |-> "none"] \in Speech
    BY <1>0, <2>2 DEF Speech, t
  <2> QED
    BY <2>1, <2>3 DEF t
<1> QED
  BY <1>1, <1>2, <1>3 DEF Parse

LEMMA HouseStart == HomeInit => HouseTypes
<1> SUFFICES ASSUME HomeInit PROVE HouseTypes
  OBVIOUS
<1>1. NoStates \in [Entities -> States] /\ {"absent", "off"} \subseteq States
  BY DEF NoStates, States
<1>2. house \in [Entities -> States]
  BY <1>1 DEF HomeInit
<1>3. cached \in [Entities -> States] /\ reading = {} /\ started = FALSE
  BY <1>1 DEF HomeInit
<1>4. speech \in [Speakers -> Speech]
  BY ListeningIs DEF HomeInit
<1> QED
  BY <1>2, <1>3, <1>4 DEF HouseTypes

LEMMA HouseStep == HouseTypes /\ HomeInv /\ [HomeNext]_homeVars => HouseTypes'
<1> SUFFICES ASSUME HouseTypes, HomeInv, [HomeNext]_homeVars PROVE HouseTypes'
  OBVIOUS
<1>0. NoStates \in [Entities -> States]
  BY DEF NoStates, States
<1>00. /\ house \in [Entities -> States] /\ cached \in [Entities -> States]
       /\ reading \in SUBSET Refreshes /\ started \in BOOLEAN /\ speech \in [Speakers -> Speech]
  BY DEF HouseTypes
<1>1. ASSUME NEW s \in Speakers, Ask(s) PROVE HouseTypes'
  <2>1. PICK w \in Wishes :
          \/ Parse(s, w, cached)
          \/ speech' = [speech EXCEPT ![s].pc = "loading", ![s].wish = w]
    BY <1>1 DEF Ask
  <2>2. [speech[s] EXCEPT !.pc = "loading", !.wish = w] \in Speech
    BY <1>00 DEF Speech, Wanting
  <2>3. ASSUME speech' = [speech EXCEPT ![s].pc = "loading", ![s].wish = w]
        PROVE  speech' \in [Speakers -> Speech]
    <3> DEFINE r == [speech[s] EXCEPT !.pc = "loading", !.wish = w]
    <3>1. speech' = [speech EXCEPT ![s] = r]
      BY <1>00, <2>3
    <3> HIDE DEF r
    <3>2. r \in Speech
      BY <2>2 DEF r
    <3> QED
      BY <1>00, <3>1, <3>2, Zenon
  <2>4. speech' \in [Speakers -> Speech]
    <3>1. w \in Wanting
      BY DEF Wanting
    <3>2. Parse(s, w, cached) => speech' \in [Speakers -> Speech]
      BY <1>00, <3>1, ParseKeepsSpeech
    <3> QED
      BY <2>1, <2>3, <3>2, Zenon
  <2> QED
    BY <1>00, <1>1, <2>4 DEF Ask, HouseTypes
<1>2. ASSUME NEW s \in Speakers, Loaded(s) PROVE HouseTypes'
  <2>1. PICK read \in Readings :
          /\ cached' = read
          /\ IF read = NoStates THEN Answered(s, "out of reach")
             ELSE Parse(s, speech[s].wish, read)
    BY <1>2 DEF Loaded
  <2>2. read \in [Entities -> States]
    BY <1>0, <1>00 DEF Readings
  <2>3. speech' \in [Speakers -> Speech]
    <3>1. speech[s].wish \in Wanting
      BY <1>00 DEF Speech
    <3> QED
      BY <1>00, <2>1, <2>2, <3>1, AnsweredKeepsSpeech, ParseKeepsSpeech
  <2> QED
    BY <1>00, <1>2, <2>1, <2>2, <2>3 DEF Loaded, HouseTypes
<1>3. ASSUME NEW s \in Speakers, Posted(s) PROVE HouseTypes'
  <2>1. Switched(s) \in [Entities -> States]
    BY <1>00 DEF Switched, States
  <2>2. house' \in [Entities -> States]
    BY <1>00, <1>3, <2>1 DEF Posted
  <2>3. speech' \in [Speakers -> Speech]
    BY <1>00, <1>3, AnsweredKeepsSpeech DEF Posted
  <2> QED
    BY <1>00, <1>3, <2>2, <2>3 DEF Posted, HouseTypes
<1>4. CASE OnStart
  BY <1>0, <1>00, <1>4 DEF OnStart, Readings, HouseTypes
<1>5. CASE HouseChanges
  BY <1>00, <1>5 DEF HouseChanges, HouseTypes
<1>6. CASE UNCHANGED homeVars
  BY <1>00, <1>6 DEF homeVars, HouseTypes
<1>7. ASSUME NEW by \in Refreshes, BeginReload(by) \/ Reload(by) PROVE HouseTypes'
  <2>1. cached' \in [Entities -> States]
    BY <1>0, <1>00, <1>7 DEF BeginReload, Reload, Readings, Kept
  <2> QED
    BY <1>00, <1>7, <2>1 DEF BeginReload, Reload, HouseTypes
<1> QED
  BY <1>1, <1>2, <1>3, <1>4, <1>5, <1>6, <1>7 DEF HomeNext

(* Whatever is asked of the house agent and however its readings overlap,  *)
(* what it keeps and commands is of the house: for any house and queries.  *)
THEOREM HomeTypeCorrect == HomeSpec => []HomeTypeOK
<1>1. HouseTypes => HomeTypeOK
  BY DEF HouseTypes, HomeTypeOK, Speech
<1> QED
  BY <1>1, HouseStart, HouseStep, HomeStart, HomeStep, PTL DEF HomeSpec
-----------------------------------------------------------------------------
(* The language model's client (LLMClient).                                *)

Texts == {"token", "whole", "apology"}
CallRecord ==
  [by : {"none", "execute", "stream"},
   pc : {"idle", "attempt", "waiting", "opening", "streaming", "done"},
   attempt : Nat, end : {"none", "success", "failure"}]

CallTypes == call \in [Calls -> CallRecord] /\ received \in [Calls -> Seq(Texts)]

(* Before a stream opens nothing was read, while it lasts only tokens, and *)
(* the text of generate() is read by a caller that has read nothing.       *)
ReadSoFar(c) ==
  /\ call[c].pc \notin {"streaming", "done"} => received[c] = <<>>
  /\ call[c].pc = "streaming" => \A i \in 1 .. Len(received[c]) : received[c][i] = "token"
  /\ call[c].pc = "done" =>
       \/ Len(received[c]) <= 1
       \/ \A i \in 1 .. Len(received[c]) : received[c][i] = "token"
  /\ call[c].by = "execute" => call[c].pc \in {"attempt", "waiting", "done"}
  /\ call[c].by = "execute" /\ call[c].pc = "done" =>
       (call[c].end = "success" <=> received[c] = <<"whole">>)

CallInv == CallTypes /\ \A c \in Calls : ReadSoFar(c)

LEMMA CallInvImpliesOneAnswer == CallInv => OneAnswer
<1> SUFFICES ASSUME CallInv, NEW c \in Calls
             PROVE  LET texts == {received[c][i] : i \in DOMAIN received[c]}
                    IN /\ texts # {"token"} => Len(received[c]) <= 1
                       /\ call[c].by = "execute" /\ call[c].pc = "done" =>
                            (call[c].end = "success" <=> received[c] = <<"whole">>)
  BY DEF OneAnswer
<1> DEFINE texts == {received[c][i] : i \in DOMAIN received[c]}
<1>1. received[c] \in Seq(Texts) /\ ReadSoFar(c) /\ call[c] \in CallRecord
  BY DEF CallInv, CallTypes
<1>2. ASSUME ~(Len(received[c]) <= 1),
             \A i \in 1 .. Len(received[c]) : received[c][i] = "token"
      PROVE  texts = {"token"}
  <2>1. DOMAIN received[c] = 1 .. Len(received[c]) /\ 1 \in 1 .. Len(received[c])
    BY <1>1, <1>2
  <2> QED
    BY <2>1, <1>2
<1>3. texts # {"token"} => Len(received[c]) <= 1
  <2>1. CASE call[c].pc = "done"
    BY <2>1, <1>1, <1>2 DEF ReadSoFar
  <2>2. CASE call[c].pc = "streaming"
    BY <2>2, <1>1, <1>2 DEF ReadSoFar
  <2>3. CASE call[c].pc \notin {"streaming", "done"}
    BY <2>3, <1>1 DEF ReadSoFar
  <2> QED
    BY <2>1, <2>2, <2>3
<1> QED
  BY <1>1, <1>3 DEF ReadSoFar

LEMMA NothingReadIsShort ==
  ASSUME NEW s \in Seq(Texts), s = <<>>
  PROVE  Len(s) <= 1
OBVIOUS

(* A call of whom neither the position nor what was read changes stays as  *)
(* it was.                                                                 *)
LEMMA OthersKeepReading ==
  ASSUME CallInv, NEW c \in Calls,
         \A d \in Calls \ {c} : call'[d] = call[d] /\ received'[d] = received[d],
         ReadSoFar(c)'
  PROVE  \A d \in Calls : ReadSoFar(d)'
<1> SUFFICES ASSUME NEW d \in Calls PROVE ReadSoFar(d)'
  OBVIOUS
<1> CASE d = c
  OBVIOUS
<1> CASE d # c
  BY DEF CallInv, ReadSoFar
<1> QED
  OBVIOUS

(* Delivering a text to a caller who has read nothing.                     *)
LEMMA DeliverKeepsCallInv ==
  ASSUME CallInv, NEW c \in Calls, NEW what \in {"whole", "apology"},
         call[c].pc \in {"attempt", "waiting"}, Deliver(c, what)
  PROVE  CallInv'
<1> DEFINE end == IF call[c].by = "execute" /\ what = "apology" THEN "failure" ELSE "success"
<1>1. /\ call[c] \in CallRecord /\ received[c] = <<>>
      /\ call \in [Calls -> CallRecord] /\ received \in [Calls -> Seq(Texts)]
  BY DEF CallInv, CallTypes, ReadSoFar
<1>2. call'[c] = [call[c] EXCEPT !.pc = "done", !.end = end]
  BY <1>1 DEF Deliver, Return
<1>3. received'[c] = <<what>> /\ received' \in [Calls -> Seq(Texts)]
  <2>1. received' = [received EXCEPT ![c] = Append(received[c], what)]
    BY DEF Deliver
  <2>2. Append(received[c], what) = <<what>> /\ <<what>> \in Seq(Texts)
    BY <1>1 DEF Texts
  <2> QED
    BY <2>1, <2>2, <1>1
<1>4. call' \in [Calls -> CallRecord]
  <2>1. call' = [call EXCEPT ![c].pc = "done", ![c].end = end]
    BY DEF Deliver, Return
  <2>2. end \in {"success", "failure"}
    OBVIOUS
  <2>3. [call[c] EXCEPT !.pc = "done", !.end = end] \in CallRecord
    BY <1>1, <2>2 DEF CallRecord
  <2> QED
    BY <1>1, <1>2, <2>1, <2>3
<1>5. \A d \in Calls \ {c} : call'[d] = call[d] /\ received'[d] = received[d]
  BY <1>1 DEF Deliver, Return
<1>6. ReadSoFar(c)'
  <2>1. call'[c].pc = "done" /\ call'[c].by = call[c].by /\ call'[c].end = end
    BY <1>1, <1>2 DEF CallRecord
  <2>2. Len(received'[c]) = 1
    BY <1>3
  <2>3. call'[c].by = "execute" => (end = "success" <=> what = "whole")
    BY <2>1
  <2>4. received'[c] = <<"whole">> <=> what = "whole"
    BY <1>3
  <2> QED
    BY <2>1, <2>2, <2>3, <2>4 DEF ReadSoFar
<1> QED
  BY <1>3, <1>4, <1>5, <1>6, OthersKeepReading DEF CallInv, CallTypes

(* A step that moves a caller and reads nothing.                           *)
LEMMA MoveKeepsCallInv ==
  ASSUME CallInv, NEW c \in Calls, NEW e \in CallRecord,
         call' = [call EXCEPT ![c] = e], received' = received, ReadSoFar(c)'
  PROVE  CallInv'
<1>1. call \in [Calls -> CallRecord]
  BY DEF CallInv, CallTypes
<1>2. \A d \in Calls \ {c} : call'[d] = call[d] /\ received'[d] = received[d]
  BY <1>1
<1>3. \A d \in Calls : ReadSoFar(d)'
  BY <1>2, OthersKeepReading
<1> QED
  BY <1>1, <1>3 DEF CallInv, CallTypes

LEMMA LLMStep == CallInv /\ [LLMNext]_llmVars => CallInv'
<1> SUFFICES ASSUME CallInv, [LLMNext]_llmVars PROVE CallInv'
  OBVIOUS
<1>0. call \in [Calls -> CallRecord] /\ received \in [Calls -> Seq(Texts)]
  BY DEF CallInv, CallTypes
<1>1. CASE UNCHANGED llmVars
  <2>1. call' = call /\ received' = received
    BY <1>1 DEF llmVars
  <2> QED
    BY <2>1 DEF CallInv, CallTypes, ReadSoFar
<1>2. ASSUME NEW c \in Calls, Execute(c) PROVE CallInv'
  <2> DEFINE e == [Unused EXCEPT !.by = "execute", !.pc = "attempt", !.attempt = 1]
  <2>1. call' = [call EXCEPT ![c] = e] /\ received' = received /\ received[c] = <<>>
    BY <1>2 DEF Execute, CallInv, ReadSoFar
  <2>2. e \in CallRecord /\ e.by = "execute" /\ e.pc = "attempt" /\ call'[c] = e
    BY <1>0, <2>1 DEF CallRecord, Unused
  <2>3. ReadSoFar(c)'
    BY <2>1, <2>2 DEF ReadSoFar
  <2> QED
    BY <2>1, <2>2, <2>3, MoveKeepsCallInv
<1>3. ASSUME NEW c \in Calls, Post(c) PROVE CallInv'
  <2> DEFINE e == [call[c] EXCEPT !.pc = "waiting"]
  <2>1. call' = [call EXCEPT ![c] = e] /\ received' = received /\ received[c] = <<>>
    BY <1>0, <1>3 DEF Post, Goto, CallInv, ReadSoFar
  <2>2. e \in CallRecord /\ call'[c] = e /\ e.pc = "waiting" /\ e.by = call[c].by
    BY <1>0, <2>1 DEF CallRecord
  <2>3. ReadSoFar(c)'
    BY <2>1, <2>2 DEF ReadSoFar
  <2> QED
    BY <2>1, <2>2, <2>3, MoveKeepsCallInv
<1>4. ASSUME NEW c \in Calls, AttemptFails(c) PROVE CallInv'
  <2>1. call[c].pc \in {"attempt", "waiting"} /\ TryAgain(c)
    BY <1>4 DEF AttemptFails
  <2>2. CASE call[c].attempt <= Retries
    <3> DEFINE e == [call[c] EXCEPT !.pc = "attempt", !.attempt = call[c].attempt + 1]
    <3>0. call[c] \in CallRecord /\ call[c].attempt + 1 \in Nat
      BY <1>0 DEF CallRecord
    <3>1. call' = [call EXCEPT ![c] = e] /\ received' = received /\ received[c] = <<>>
      BY <1>0, <2>1, <2>2 DEF TryAgain, CallInv, ReadSoFar
    <3>2. e \in CallRecord /\ call'[c] = e /\ e.pc = "attempt" /\ e.by = call[c].by
      BY <1>0, <3>0, <3>1 DEF CallRecord
    <3>3. ReadSoFar(c)'
      BY <3>1, <3>2 DEF ReadSoFar
    <3> QED
      BY <3>1, <3>2, <3>3, MoveKeepsCallInv
  <2>3. CASE ~(call[c].attempt <= Retries)
    BY <2>1, <2>3, DeliverKeepsCallInv DEF TryAgain
  <2> QED
    BY <2>2, <2>3
<1>5. ASSUME NEW c \in Calls, Refused(c) PROVE CallInv'
  BY <1>5, DeliverKeepsCallInv DEF Refused
<1>6. ASSUME NEW c \in Calls, NEW n \in 1 .. (Retries + 1), Generated(c, n) PROVE CallInv'
  <2>1. CASE call[c].pc = "waiting" /\ call[c].attempt = n
    BY <1>6, <2>1, DeliverKeepsCallInv DEF Generated
  <2>2. CASE ~(call[c].pc = "waiting" /\ call[c].attempt = n)
    <3>1. call' = call /\ received' = received
      BY <1>6, <2>2 DEF Generated
    <3> QED
      BY <3>1 DEF CallInv, CallTypes, ReadSoFar
  <2> QED
    BY <2>1, <2>2
<1>7. ASSUME NEW c \in Calls, BeginStream(c) PROVE CallInv'
  <2> DEFINE e == [Unused EXCEPT !.by = "stream", !.pc = "opening"]
  <2>1. call' = [call EXCEPT ![c] = e] /\ received' = received /\ received[c] = <<>>
    BY <1>7 DEF BeginStream, CallInv, ReadSoFar
  <2>2. e \in CallRecord /\ e.by = "stream" /\ e.pc = "opening" /\ call'[c] = e
    BY <1>0, <2>1 DEF CallRecord, Unused
  <2>3. ReadSoFar(c)'
    BY <2>1, <2>2 DEF ReadSoFar
  <2> QED
    BY <2>1, <2>2, <2>3, MoveKeepsCallInv
<1>8. ASSUME NEW c \in Calls, StreamOpens(c) PROVE CallInv'
  <2> DEFINE e == [call[c] EXCEPT !.pc = "streaming"]
  <2>1. /\ call' = [call EXCEPT ![c] = e] /\ received' = received /\ received[c] = <<>>
        /\ call[c].by # "execute"
    BY <1>0, <1>8 DEF StreamOpens, Goto, CallInv, ReadSoFar
  <2>2. e \in CallRecord /\ call'[c] = e /\ e.pc = "streaming" /\ e.by = call[c].by
    BY <1>0, <2>1 DEF CallRecord
  <2>3. ReadSoFar(c)'
    BY <2>1, <2>2 DEF ReadSoFar
  <2> QED
    BY <2>1, <2>2, <2>3, MoveKeepsCallInv
<1>9. ASSUME NEW c \in Calls, Token(c) PROVE CallInv'
  <2>1. /\ call' = call /\ call[c].pc = "streaming"
        /\ received' = [received EXCEPT ![c] = Append(received[c], "token")]
        /\ received'[c] = Append(received[c], "token")
        /\ \A i \in 1 .. Len(received[c]) : received[c][i] = "token"
        /\ call[c].by # "execute"
    BY <1>0, <1>9 DEF Token, CallInv, ReadSoFar
  <2>2. received' \in [Calls -> Seq(Texts)]
    BY <1>0, <2>1 DEF Texts
  <2>3. \A i \in 1 .. Len(received'[c]) : received'[c][i] = "token"
    BY <1>0, <2>1
  <2>4. ReadSoFar(c)'
    BY <2>1, <2>3 DEF ReadSoFar
  <2>5. \A d \in Calls \ {c} : call'[d] = call[d] /\ received'[d] = received[d]
    BY <1>0, <2>1
  <2>6. \A d \in Calls : ReadSoFar(d)'
    BY <2>4, <2>5, OthersKeepReading
  <2> QED
    BY <1>0, <2>1, <2>2, <2>6 DEF CallInv, CallTypes
<1>10. ASSUME NEW c \in Calls, EndStream(c) PROVE CallInv'
  <2> DEFINE e == [call[c] EXCEPT !.pc = "done", !.end = "success"]
  <2>1. /\ call' = [call EXCEPT ![c] = e] /\ received' = received
        /\ \A i \in 1 .. Len(received[c]) : received[c][i] = "token"
        /\ call[c].by # "execute"
    BY <1>0, <1>10 DEF EndStream, Return, CallInv, ReadSoFar
  <2>2. e \in CallRecord /\ call'[c] = e /\ e.pc = "done" /\ e.by = call[c].by
    BY <1>0, <2>1 DEF CallRecord
  <2>3. ReadSoFar(c)'
    BY <2>1, <2>2 DEF ReadSoFar
  <2> QED
    BY <2>1, <2>2, <2>3, MoveKeepsCallInv
<1>11. ASSUME NEW c \in Calls, NEW error \in {"no connection", "status", "timeout", "broken"},
              StreamFails(c, error)
       PROVE  CallInv'
  <2>1. /\ received' = received /\ call[c].pc \in {"opening", "streaming"}
        /\ call[c].by # "execute"
    BY <1>11 DEF StreamFails, CallInv, ReadSoFar
  <2>2. CASE FallBack(c, error)
    <3> DEFINE e == [call[c] EXCEPT !.pc = "attempt", !.attempt = 1]
    <3>1. call[c].pc = "opening" /\ received[c] = <<>>
      BY <1>11, <2>2 DEF StreamFails, FallBack, CallInv, ReadSoFar
    <3>2. call' = [call EXCEPT ![c] = e]
      BY <1>0, <1>11, <2>2 DEF StreamFails, AskForText
    <3>3. e \in CallRecord /\ call'[c] = e /\ e.pc = "attempt" /\ e.by = call[c].by
      BY <1>0, <3>2 DEF CallRecord
    <3>4. ReadSoFar(c)'
      BY <2>1, <3>1, <3>3 DEF ReadSoFar
    <3> QED
      BY <2>1, <3>2, <3>3, <3>4, MoveKeepsCallInv
  <2>3. CASE ~FallBack(c, error)
    <3> DEFINE e == [call[c] EXCEPT !.pc = "done", !.end = "success"]
    <3>1. call' = [call EXCEPT ![c] = e]
      BY <1>0, <1>11, <2>3 DEF StreamFails, Return
    <3>2. e \in CallRecord /\ call'[c] = e /\ e.pc = "done" /\ e.by = call[c].by
      BY <1>0, <3>1 DEF CallRecord
    <3>3. \/ Len(received[c]) <= 1
          \/ \A i \in 1 .. Len(received[c]) : received[c][i] = "token"
      <4>1. call[c].pc = "opening" => received[c] = <<>>
        BY DEF CallInv, ReadSoFar
      <4>2. call[c].pc = "streaming" =>
              \A i \in 1 .. Len(received[c]) : received[c][i] = "token"
        BY DEF CallInv, ReadSoFar
      <4>3. received[c] \in Seq(Texts)
        BY <1>0
      <4>4. CASE call[c].pc = "opening"
        BY <4>1, <4>3, <4>4, NothingReadIsShort
      <4>5. CASE call[c].pc = "streaming"
        BY <4>2, <4>5
      <4> QED
        BY <2>1, <4>4, <4>5
    <3>4. ReadSoFar(c)'
      BY <2>1, <3>2, <3>3 DEF ReadSoFar
    <3> QED
      BY <2>1, <3>1, <3>2, <3>4, MoveKeepsCallInv
  <2> QED
    BY <2>2, <2>3
<1> QED
  BY <1>1, <1>2, <1>3, <1>4, <1>5, <1>6, <1>7, <1>8, <1>9, <1>10, <1>11 DEF LLMNext

LEMMA LLMStart == LLMInit => CallInv
<1> SUFFICES ASSUME LLMInit PROVE CallInv
  OBVIOUS
<1>1. Unused \in CallRecord /\ \A c \in Calls : call[c] = Unused /\ received[c] = <<>>
  BY DEF LLMInit, Unused, CallRecord
<1>2. CallTypes
  <2>1. <<>> \in Seq(Texts)
    OBVIOUS
  <2> QED
    BY <1>1, <2>1 DEF LLMInit, CallTypes
<1>3. ASSUME NEW c \in Calls PROVE ReadSoFar(c)
  <2>1. call[c].pc = "idle" /\ call[c].by = "none" /\ received[c] = <<>>
    BY <1>1 DEF Unused
  <2> QED
    BY <2>1 DEF ReadSoFar
<1> QED
  BY <1>2, <1>3 DEF CallInv

(* A caller reads the tokens of one stream or one text of generate(),      *)
(* whatever was tried again and whatever the service ends late, and        *)
(* execute reports success exactly of a text that was generated            *)
(* (core/agents/core/llm_agent.py, core/llm_client/client.py): whatever    *)
(* the number of calls, attempts and tokens.                               *)
THEOREM OneAnswerCorrect == LLMSpec => []OneAnswer
BY LLMStart, LLMStep, CallInvImpliesOneAnswer, PTL DEF LLMSpec

(* No attempt after the last that the retries allow, and none unnumbered.  *)
Tried(c) ==
  /\ call[c].attempt \in 0 .. (Retries + 1)
  /\ call[c].pc \in {"attempt", "waiting"} => call[c].attempt \in 1 .. (Retries + 1)

Attempts ==
  /\ jobs \in SUBSET (Calls \X (1 .. (Retries + 1)))
  /\ \A c \in Calls : Tried(c)

LEMMA MoveKeepsTried ==
  ASSUME call \in [Calls -> CallRecord], NEW c \in Calls, NEW e,
         call' = [call EXCEPT ![c] = e], e.attempt \in 0 .. (Retries + 1),
         e.pc \in {"attempt", "waiting"} => e.attempt \in 1 .. (Retries + 1),
         \A d \in Calls : Tried(d)
  PROVE  \A d \in Calls : Tried(d)'
<1>1. call'[c] = e /\ \A d \in Calls \ {c} : call'[d] = call[d]
  OBVIOUS
<1>2. Tried(c)'
  BY <1>1 DEF Tried
<1>3. \A d \in Calls \ {c} : Tried(d)'
  BY <1>1 DEF Tried
<1> QED
  BY <1>2, <1>3

LEMMA ReturnKeepsTried ==
  ASSUME call \in [Calls -> CallRecord], \A d \in Calls : Tried(d), NEW c \in Calls,
         NEW pc \in {"done", "streaming"}, NEW end,
         \/ call' = [call EXCEPT ![c].pc = pc, ![c].end = end]
         \/ call' = [call EXCEPT ![c].pc = pc]
  PROVE  \A d \in Calls : Tried(d)'
<1> DEFINE e == [call[c] EXCEPT !.pc = pc, !.end = end]
           f == [call[c] EXCEPT !.pc = pc]
<1>1. call' = [call EXCEPT ![c] = e] \/ call' = [call EXCEPT ![c] = f]
  OBVIOUS
<1>2. /\ e.attempt = call[c].attempt /\ e.pc = pc /\ f.attempt = call[c].attempt /\ f.pc = pc
      /\ call[c].attempt \in 0 .. (Retries + 1)
  BY DEF CallRecord, Tried
<1> HIDE DEF e, f
<1> QED
  BY <1>1, <1>2, MoveKeepsTried

LEMMA TryKeepsTried ==
  ASSUME CallTypes, \A d \in Calls : Tried(d), NEW c \in Calls,
         call[c].pc \in {"attempt", "waiting"}, TryAgain(c)
  PROVE  \A d \in Calls : Tried(d)'
<1>0. Retries \in Nat /\ call \in [Calls -> CallRecord] /\ call[c].attempt \in 1 .. (Retries + 1)
  BY LLMAssumption DEF CallTypes, Tried
<1>1. CASE call[c].attempt <= Retries
  <2> DEFINE e == [call[c] EXCEPT !.pc = "attempt", !.attempt = call[c].attempt + 1]
  <2>1. call' = [call EXCEPT ![c] = e]
    BY <1>0, <1>1 DEF TryAgain
  <2>2. e.pc = "attempt" /\ e.attempt = call[c].attempt + 1
    BY <1>0 DEF CallRecord
  <2> HIDE DEF e
  <2>3. e.attempt \in 1 .. (Retries + 1) /\ e.attempt \in 0 .. (Retries + 1)
    BY <1>0, <1>1, <2>2
  <2> QED
    BY <1>0, <2>1, <2>3, MoveKeepsTried
<1>2. CASE ~(call[c].attempt <= Retries)
  BY <1>0, <1>2, ReturnKeepsTried DEF TryAgain, Deliver, Return
<1> QED
  BY <1>1, <1>2

LEMMA AttemptsStart == LLMInit => Attempts
<1> SUFFICES ASSUME LLMInit PROVE Attempts
  OBVIOUS
<1>1. \A c \in Calls : call[c].attempt = 0 /\ call[c].pc = "idle"
  BY DEF LLMInit, Unused
<1>2. 0 \in 0 .. (Retries + 1)
  BY LLMAssumption
<1> QED
  BY <1>1, <1>2 DEF LLMInit, Attempts, Tried

LEMMA AttemptsStep == CallInv /\ Attempts /\ [LLMNext]_llmVars => Attempts'
<1> SUFFICES ASSUME CallInv, Attempts, [LLMNext]_llmVars PROVE Attempts'
  OBVIOUS
<1> DEFINE Asked == Calls \X (1 .. (Retries + 1))
<1>0. /\ CallTypes /\ call \in [Calls -> CallRecord] /\ \A c \in Calls : Tried(c)
      /\ Retries \in Nat /\ jobs \in SUBSET Asked
      /\ 1 \in 1 .. (Retries + 1) /\ 1 \in 0 .. (Retries + 1) /\ 0 \in 0 .. (Retries + 1)
  BY LLMAssumption DEF CallInv, CallTypes, Attempts
<1>00. ASSUME jobs' \in SUBSET Asked, \A c \in Calls : Tried(c)' PROVE Attempts'
  BY <1>00 DEF Attempts
<1> HIDE DEF Asked
<1>1. CASE UNCHANGED llmVars
  BY <1>0, <1>00, <1>1 DEF llmVars, Tried
<1>2. ASSUME NEW c \in Calls, Execute(c) PROVE Attempts'
  <2> DEFINE e == [Unused EXCEPT !.by = "execute", !.pc = "attempt", !.attempt = 1]
  <2>1. call' = [call EXCEPT ![c] = e] /\ e.pc = "attempt" /\ e.attempt = 1
    BY <1>2 DEF Execute, Unused
  <2> HIDE DEF e
  <2>2. \A d \in Calls : Tried(d)'
    BY <1>0, <2>1, MoveKeepsTried
  <2> QED
    BY <1>0, <1>00, <1>2, <2>2 DEF Execute
<1>12. ASSUME NEW c \in Calls, BeginStream(c) PROVE Attempts'
  <2> DEFINE e == [Unused EXCEPT !.by = "stream", !.pc = "opening"]
  <2>1. call' = [call EXCEPT ![c] = e] /\ e.pc = "opening" /\ e.attempt = 0
    BY <1>12 DEF BeginStream, Unused
  <2> HIDE DEF e
  <2>2. \A d \in Calls : Tried(d)'
    BY <1>0, <2>1, MoveKeepsTried
  <2> QED
    BY <1>0, <1>00, <1>12, <2>2 DEF BeginStream
<1>3. ASSUME NEW c \in Calls, Post(c) PROVE Attempts'
  <2> DEFINE e == [call[c] EXCEPT !.pc = "waiting"]
  <2>1. call' = [call EXCEPT ![c] = e] /\ call[c].attempt \in 1 .. (Retries + 1)
    BY <1>0, <1>3 DEF Post, Goto, Tried
  <2>2. e.pc = "waiting" /\ e.attempt = call[c].attempt
    BY <1>0 DEF CallRecord
  <2> HIDE DEF e
  <2>3. \A d \in Calls : Tried(d)'
    BY <1>0, <2>1, <2>2, MoveKeepsTried DEF Tried
  <2>4. jobs' \in SUBSET Asked
    BY <1>0, <1>3, <2>1 DEF Post, Asked
  <2> QED
    BY <1>00, <2>3, <2>4
<1>4. ASSUME NEW c \in Calls, AttemptFails(c) PROVE Attempts'
  <2>1. \A d \in Calls : Tried(d)'
    BY <1>0, <1>4, TryKeepsTried DEF AttemptFails
  <2>2. jobs' \in SUBSET Asked
    BY <1>0, <1>4 DEF AttemptFails
  <2> QED
    BY <1>00, <2>1, <2>2
<1>5. ASSUME NEW c \in Calls, NEW what, Deliver(c, what) PROVE \A d \in Calls : Tried(d)'
  BY <1>0, <1>5, ReturnKeepsTried DEF Deliver, Return
<1>6. ASSUME NEW c \in Calls, Refused(c) PROVE Attempts'
  BY <1>0, <1>00, <1>5, <1>6 DEF Refused
<1>7. ASSUME NEW c \in Calls, NEW n \in 1 .. (Retries + 1), Generated(c, n) PROVE Attempts'
  <2>1. \A d \in Calls : Tried(d)'
    <3>1. CASE call' = call
      BY <1>0, <3>1 DEF Tried
    <3> QED
      BY <1>5, <1>7, <3>1 DEF Generated
  <2> QED
    BY <1>0, <1>00, <1>7, <2>1 DEF Generated
<1>8. ASSUME NEW c \in Calls, StreamOpens(c) PROVE Attempts'
  <2>1. \A d \in Calls : Tried(d)'
    BY <1>0, <1>8, ReturnKeepsTried DEF StreamOpens, Goto
  <2> QED
    BY <1>0, <1>00, <1>8, <2>1 DEF StreamOpens
<1>9. ASSUME NEW c \in Calls, Token(c) PROVE Attempts'
  BY <1>0, <1>00, <1>9 DEF Token, Tried
<1>10. ASSUME NEW c \in Calls, EndStream(c) PROVE Attempts'
  <2>1. \A d \in Calls : Tried(d)'
    BY <1>0, <1>10, ReturnKeepsTried DEF EndStream, Return
  <2> QED
    BY <1>0, <1>00, <1>10, <2>1 DEF EndStream
<1>11. ASSUME NEW c \in Calls, NEW error, StreamFails(c, error) PROVE Attempts'
  <2>1. CASE AskForText(c)
    <3> DEFINE e == [call[c] EXCEPT !.pc = "attempt", !.attempt = 1]
    <3>1. call' = [call EXCEPT ![c] = e]
      BY <1>0, <2>1 DEF AskForText
    <3>2. e.pc = "attempt" /\ e.attempt = 1
      BY <1>0 DEF CallRecord
    <3> HIDE DEF e
    <3> QED
      BY <1>0, <1>00, <1>11, <3>1, <3>2, MoveKeepsTried DEF StreamFails
  <2>2. CASE Return(c, "success")
    <3>1. \A d \in Calls : Tried(d)'
      BY <1>0, <2>2, ReturnKeepsTried DEF Return
    <3> QED
      BY <1>0, <1>00, <1>11, <3>1 DEF StreamFails
  <2> QED
    BY <1>11, <2>1, <2>2 DEF StreamFails
<1> QED
  BY <1>1, <1>2, <1>3, <1>4, <1>6, <1>7, <1>8, <1>9, <1>10, <1>11, <1>12 DEF LLMNext

(* The language model is asked at most Retries + 1 times for a text and    *)
(* generates nothing that was not asked (client.py, the loop of attempts): *)
(* for any number of calls, retries and tokens.                            *)
THEOREM LLMTypeCorrect == LLMSpec => []LLMTypeOK
<1>1. CallInv /\ Attempts => LLMTypeOK
  BY DEF CallInv, CallTypes, CallRecord, Texts, Attempts, Tried, LLMTypeOK
<1> QED
  BY <1>1, AttemptsStart, AttemptsStep, LLMStart, LLMStep, PTL DEF LLMSpec
-----------------------------------------------------------------------------
(* The generated agents at work (AgentRuntime).                            *)

StateRecord == [object : Nat, runs : Nat, failures : Nat]
RunAnswers ==
  {"none", "list", "raised", "status", "response", "not found", "conversation", "error"}
RunRecord ==
  [pc : {"idle", "running", "delegated", "done"}, agent : Agents \cup {Waiting.agent},
   object : Nat, answer : RunAnswers]

RuntimeTypes ==
  /\ module \in [Agents -> {"none", "good", "broken"}]
  /\ states \in [Agents -> StateRecord]
  /\ begun \in [Agents -> Nat]
  /\ run \in [Runs -> RunRecord]

(* As long as its file was not taken away: the executions in flight hold   *)
(* the very state of the table, an agent without a file or a state has run *)
(* nothing, and the counters and those in flight are all that was begun.   *)
Accounted(a) ==
  /\ \A r \in InFlight(a) : run[r].object = states[a].object
  /\ module[a] = "none" => states[a] = NoState
  /\ states[a] = NoState => begun[a] = 0
  /\ states[a].runs + Cardinality(InFlight(a)) = begun[a]
  /\ states[a].failures <= states[a].runs

RuntimeInv == RuntimeTypes /\ \A a \in Agents \ removed : Accounted(a)

LEMMA InFlightIsFinite ==
  ASSUME NEW a
  PROVE  IsFiniteSet(InFlight(a)) /\ Cardinality(InFlight(a)) \in Nat
<1>1. InFlight(a) \in SUBSET Runs
  BY DEF InFlight
<1>2. IsFiniteSet(InFlight(a))
  BY <1>1, RunsAssumption, FS_Subset
<1> QED
  BY <1>2, FS_CardinalityType

(* Where nothing has been begun nothing is in flight.                      *)
LEMMA NothingInFlight ==
  ASSUME RuntimeInv, NEW a \in Agents \ removed, states[a] = NoState
  PROVE  InFlight(a) = {}
<1>1. Cardinality(InFlight(a)) = 0
  BY InFlightIsFinite DEF RuntimeInv, Accounted, NoState
<1> QED
  BY <1>1, InFlightIsFinite, FS_EmptySet

(* Reloading an agent whose file was not taken away keeps its state, if it *)
(* has one, and otherwise makes a new one or none: it counts nothing.      *)
LEMMA ReloadKeepsAccounts ==
  ASSUME RuntimeInv, NEW loaded \in Imports, ReloadInto(loaded)
  PROVE  /\ states' \in [Agents -> StateRecord]
         /\ \A a \in Agents \ removed :
              /\ states'[a].runs = states[a].runs
              /\ states'[a].failures = states[a].failures
              /\ states'[a] = NoState => states[a] = NoState
              /\ module[a] = "none" => states'[a] = NoState
              /\ \A r \in InFlight(a) : states'[a].object = states[a].object
         /\ Broken = {} => \A a \in loaded : states'[a] # NoState
<1>0. /\ states \in [Agents -> StateRecord] /\ begun \in [Agents -> Nat]
      /\ module \in [Agents -> {"none", "good", "broken"}]
  BY DEF RuntimeInv, RuntimeTypes
<1>1. CASE Broken # {}
  <2>1. states' = states
    BY <1>0, <1>1 DEF ReloadInto
  <2> QED
    BY <1>0, <1>1, <2>1 DEF RuntimeInv, Accounted
<1>2. CASE Broken = {}
  <2>1. loaded = Good
    BY <1>2 DEF Imports
  <2>2. states' = [a \in Agents |-> Refreshed(a, loaded)]
    BY <1>2 DEF ReloadInto
  <2>3. NoState \in StateRecord
    BY DEF NoState, StateRecord
  <2>4. \A a \in Agents : NewObject(a) \in StateRecord /\ NewObject(a) # NoState
    <3> TAKE a \in Agents
    <3>1. begun[a] + 1 \in Nat /\ begun[a] + 1 # 0
      BY <1>0
    <3>2. NewObject(a).object = begun[a] + 1 /\ NoState.object = 0
      BY DEF NewObject, NoState
    <3> QED
      BY <3>1, <3>2 DEF NewObject, StateRecord
  <2>5. \A a \in Agents : Refreshed(a, loaded) \in StateRecord
    BY <1>0, <2>3, <2>4 DEF Refreshed
  <2>6. states' \in [Agents -> StateRecord]
    BY <2>2, <2>5
  <2>7. ASSUME NEW a \in loaded PROVE states'[a] # NoState
    BY <2>1, <2>2, <2>4, <2>7 DEF Refreshed, Good
  <2>8. ASSUME NEW a \in Agents \ removed
        PROVE  /\ states'[a].runs = states[a].runs
               /\ states'[a].failures = states[a].failures
               /\ states'[a] = NoState => states[a] = NoState
               /\ module[a] = "none" => states'[a] = NoState
               /\ \A r \in InFlight(a) : states'[a].object = states[a].object
    <3>1. Accounted(a) /\ states'[a] = Refreshed(a, loaded)
      BY <2>2 DEF RuntimeInv
    <3>2. CASE a \notin loaded
      <4>1. module[a] = "none"
        BY <1>0, <1>2, <2>1, <3>2 DEF Good, Broken
      <4>2. states[a] = NoState /\ states'[a] = NoState
        BY <3>1, <3>2, <4>1 DEF Accounted, Refreshed
      <4> QED
        BY <4>2
    <3>3. CASE a \in loaded /\ states[a] = NoState
      <4>1. states'[a] = NewObject(a) /\ module[a] # "none" /\ InFlight(a) = {}
        BY <2>1, <3>1, <3>3, NothingInFlight DEF Refreshed, Good
      <4>2. /\ NewObject(a).runs = 0 /\ NewObject(a).failures = 0
            /\ NoState.runs = 0 /\ NoState.failures = 0
        BY DEF NewObject, NoState
      <4> QED
        BY <3>3, <4>1, <4>2
    <3>4. CASE a \in loaded /\ states[a] # NoState
      BY <2>1, <3>1, <3>4 DEF Refreshed, Good
    <3> QED
      BY <3>2, <3>3, <3>4
  <2> QED
    BY <2>6, <2>7, <2>8
<1> QED
  BY <1>1, <1>2

LEMMA SaidIsAnswer == \A ok : Said(ok) \in RunAnswers
<1> SUFFICES ASSUME NEW ok PROVE Said(ok) \in RunAnswers
  OBVIOUS
<1>1. Said(ok) = "response" \/ Said(ok) = "not found"
  BY Zenon DEF Said
<1> QED
  BY <1>1 DEF RunAnswers

(* A request that ends without having run changes no account.              *)
LEMMA EndedRuns ==
  ASSUME RuntimeInv, NEW r \in Runs, NEW given \in RunAnswers, Ended(r, given)
  PROVE  /\ run' \in [Runs -> RunRecord]
         /\ \A q \in Runs \ {r} : run'[q] = run[q]
         /\ run'[r].pc = "done"
         /\ \A a : InFlight(a)' = InFlight(a) \ {r}
<1> DEFINE e == [Waiting EXCEPT !.pc = "done", !.answer = given]
<1>0. run \in [Runs -> RunRecord]
  BY DEF RuntimeInv, RuntimeTypes
<1>1. e \in RunRecord /\ e.pc = "done"
  BY DEF Waiting, RunRecord
<1>2. run' = [run EXCEPT ![r] = e]
  BY DEF Ended
<1>3. /\ run' \in [Runs -> RunRecord] /\ run'[r] = e
      /\ \A q \in Runs \ {r} : run'[q] = run[q]
  BY <1>0, <1>1, <1>2
<1>4. ASSUME NEW a PROVE InFlight(a)' = InFlight(a) \ {r}
  BY <1>1, <1>3 DEF InFlight
<1> QED
  BY <1>1, <1>3, <1>4

(* A request that was not running ends: nobody's executions in flight      *)
(* change.                                                                 *)
LEMMA EndedBeforeRunning ==
  ASSUME RuntimeInv, NEW r \in Runs, run[r].pc # "running",
         NEW given \in RunAnswers, Ended(r, given)
  PROVE  /\ run' \in [Runs -> RunRecord]
         /\ \A a : InFlight(a)' = InFlight(a) /\ r \notin InFlight(a)
         /\ \A a, q : q \in InFlight(a) => run'[q] = run[q]
<1>1. \A a : r \notin InFlight(a)
  BY DEF InFlight
<1>2. \A a : InFlight(a) \subseteq Runs
  BY DEF InFlight
<1> QED
  BY <1>1, <1>2, EndedRuns
(* What becomes of a request that did not run, and of a reload, leaves     *)
(* every account right.                                                    *)
LEMMA AccountsKept ==
  ASSUME RuntimeInv, NEW a \in Agents \ removed,
         InFlight(a)' = InFlight(a), begun'[a] = begun[a],
         \A r \in InFlight(a) : run'[r] = run[r],
         states'[a].runs = states[a].runs, states'[a].failures = states[a].failures,
         states'[a] = NoState => states[a] = NoState,
         module'[a] = "none" => states'[a] = NoState,
         \A r \in InFlight(a) : states'[a].object = states[a].object
  PROVE  Accounted(a)'
<1>1. Accounted(a)
  BY DEF RuntimeInv
<1>2. \A r \in InFlight(a)' : run'[r].object = states'[a].object
  BY <1>1 DEF Accounted
<1> QED
  BY <1>1, <1>2 DEF Accounted

(* Nothing but the requests and the registry changes.                      *)
LEMMA StatesKept ==
  ASSUME RuntimeInv, run' \in [Runs -> RunRecord],
         \A a : InFlight(a)' = InFlight(a),
         \A a, q : q \in InFlight(a) => run'[q] = run[q],
         UNCHANGED <<module, states, begun, removed>>
  PROVE  RuntimeInv'
<1>1. \A a \in Agents \ removed : Accounted(a)'
  <2> TAKE a \in Agents \ removed
  <2>1. Accounted(a)
    BY DEF RuntimeInv
  <2> QED
    BY <2>1, AccountsKept DEF Accounted
<1> QED
  BY <1>1 DEF RuntimeInv, RuntimeTypes

LEMMA FinishKeepsAccounts ==
  ASSUME RuntimeInv, NEW r \in Runs, Finish(r)
  PROVE  RuntimeInv'
<1> DEFINE a == run[r].agent
<1>0. /\ states \in [Agents -> StateRecord] /\ begun \in [Agents -> Nat]
      /\ run[r] \in RunRecord
  BY DEF RuntimeInv, RuntimeTypes
<1>1. PICK fails \in {0, 1} :
        /\ states' = [states EXCEPT ![a] =
             IF states[a].object = run[r].object THEN CountUp(states[a], fails)
             ELSE states[a]]
        /\ Ended(r, Said(fails = 0))
  BY DEF Finish
<1> DEFINE counted == CountUp(states[a], fails)
<1>2. run[r].pc = "running" /\ UNCHANGED <<module, registry, begun, removed>>
  BY DEF Finish
<1>3. Said(fails = 0) \in RunAnswers
  BY SaidIsAnswer
<1>4. /\ run' \in [Runs -> RunRecord]
      /\ \A q \in Runs \ {r} : run'[q] = run[q]
      /\ \A b : InFlight(b)' = InFlight(b) \ {r}
  BY <1>1, <1>3, EndedRuns
<1>5. states' \in [Agents -> StateRecord]
  <2>1. CASE a \in Agents
    <3>1. /\ states[a] \in StateRecord
          /\ states[a].runs + 1 \in Nat /\ states[a].failures + fails \in Nat
      BY <1>0, <2>1 DEF StateRecord
    <3>2. counted \in StateRecord
      BY <3>1 DEF StateRecord, CountUp
    <3>3. CASE states[a].object # run[r].object
      <4>1. states' = [states EXCEPT ![a] = states[a]]
        BY <1>1, <3>3, Zenon
      <4> QED
        BY <1>0, <4>1
    <3>4. CASE states[a].object = run[r].object
      <4>1. states' = [states EXCEPT ![a] = counted]
        BY <1>1, <3>4, Zenon
      <4> QED
        BY <1>0, <3>2, <4>1
    <3> QED
      BY <3>3, <3>4
  <2>2. CASE a \notin Agents
    BY <1>0, <1>1, <2>2
  <2> QED
    BY <2>1, <2>2
<1>6. ASSUME NEW b \in Agents \ removed PROVE Accounted(b)'
  <2>1. Accounted(b) /\ states[b] \in StateRecord
    BY <1>0 DEF RuntimeInv
  <2>2. CASE b # a
    <3>1. states'[b] = states[b]
      BY <1>0, <1>1, <2>2
    <3>2. r \notin InFlight(b)
      BY <2>2 DEF InFlight
    <3>3. InFlight(b)' = InFlight(b) /\ InFlight(b) \subseteq Runs \ {r}
      BY <1>4, <3>2 DEF InFlight
    <3> QED
      BY <1>2, <1>4, <2>1, <3>1, <3>3, AccountsKept DEF Accounted
  <2>3. CASE b = a
    <3>1. r \in InFlight(b)
      BY <1>2, <2>3 DEF InFlight
    <3>2. run[r].object = states[b].object
      BY <2>1, <3>1 DEF Accounted
    <3>3. states'[b] = counted
      <4>1. states' = [states EXCEPT ![a] = counted]
        BY <1>1, <2>3, <3>2, Zenon
      <4> QED
        BY <1>0, <2>3, <4>1
    <3>4. /\ states'[b].object = states[b].object
          /\ states'[b].runs = states[b].runs + 1
          /\ states'[b].failures = states[b].failures + fails
      BY <2>1, <2>3, <3>3 DEF StateRecord, CountUp
    <3>5. /\ Cardinality(InFlight(b)') = Cardinality(InFlight(b)) - 1
          /\ Cardinality(InFlight(b)) \in Nat
      BY <1>4, <3>1, InFlightIsFinite, FS_RemoveElement
    <3>6. /\ states[b].runs \in Nat /\ states[b].failures \in Nat /\ begun[b] \in Nat
      BY <1>0, <2>1 DEF StateRecord
    <3>7. /\ states'[b].runs + Cardinality(InFlight(b)') = begun'[b]
          /\ states'[b].failures <= states'[b].runs
      BY <1>2, <2>1, <3>4, <3>5, <3>6 DEF Accounted
    <3>8. states[b] # NoState /\ states'[b] # NoState
      <4>1. NoState.runs = 0 /\ states'[b].runs # 0
        BY <3>4, <3>6 DEF NoState
      <4>2. states[b] # NoState
        BY <2>1, <3>1, NothingInFlight
      <4> QED
        BY <4>1, <4>2
    <3>9. \A q \in InFlight(b)' : run'[q].object = states'[b].object
      BY <1>4, <2>1, <3>4 DEF Accounted, InFlight
    <3>10. module'[b] # "none"
      BY <1>2, <2>1, <3>8 DEF Accounted
    <3> QED
      BY <3>7, <3>8, <3>9, <3>10 DEF Accounted
  <2> QED
    BY <2>2, <2>3
<1> QED
  BY <1>2, <1>4, <1>5, <1>6 DEF RuntimeInv, RuntimeTypes

LEMMA RunByNameKeepsAccounts ==
  ASSUME RuntimeInv, NEW r \in Runs, RunByName(r)
  PROVE  RuntimeInv'
<1>0. /\ run \in [Runs -> RunRecord] /\ begun \in [Agents -> Nat]
      /\ run[r].pc # "running" /\ UNCHANGED <<module, removed>>
  BY DEF RuntimeInv, RuntimeTypes, RunByName
<1>1. PICK a \in Agents, loaded \in Imports :
        /\ registry' = loaded /\ ReloadInto(loaded)
        /\ \/ Broken # {} /\ Ended(r, "raised") /\ UNCHANGED begun
           \/ Broken = {} /\ a \notin loaded /\ Ended(r, Said(FALSE)) /\ UNCHANGED begun
           \/ /\ Broken = {} /\ a \in loaded
              /\ run' = [run EXCEPT ![r] = [pc |-> "running", agent |-> a,
                                            object |-> states'[a].object, answer |-> "none"]]
              /\ begun' = [begun EXCEPT ![a] = @ + 1]
  BY Zenon DEF RunByName
<1>2. /\ states' \in [Agents -> StateRecord]
      /\ \A b \in Agents \ removed :
           /\ states'[b].runs = states[b].runs
           /\ states'[b].failures = states[b].failures
           /\ states'[b] = NoState => states[b] = NoState
           /\ module[b] = "none" => states'[b] = NoState
           /\ \A q \in InFlight(b) : states'[b].object = states[b].object
      /\ Broken = {} => \A b \in loaded : states'[b] # NoState
  BY <1>1, ReloadKeepsAccounts
<1>3. ASSUME NEW given \in RunAnswers, Ended(r, given), UNCHANGED begun PROVE RuntimeInv'
  <2>1. /\ run' \in [Runs -> RunRecord]
        /\ \A b : InFlight(b)' = InFlight(b) /\ r \notin InFlight(b)
        /\ \A b, q : q \in InFlight(b) => run'[q] = run[q]
    BY <1>0, <1>3, EndedBeforeRunning
  <2>2. \A b \in Agents \ removed : Accounted(b)'
    BY <1>0, <1>2, <1>3, <2>1, AccountsKept
  <2> QED
    BY <1>0, <1>2, <1>3, <2>1, <2>2 DEF RuntimeInv, RuntimeTypes
<1>4. ASSUME Broken = {}, a \in loaded,
             run' = [run EXCEPT ![r] = [pc |-> "running", agent |-> a,
                                        object |-> states'[a].object, answer |-> "none"]],
             begun' = [begun EXCEPT ![a] = @ + 1]
      PROVE  RuntimeInv'
  <2>1. /\ run'[r] = [pc |-> "running", agent |-> a,
                      object |-> states'[a].object, answer |-> "none"]
        /\ \A q \in Runs \ {r} : run'[q] = run[q]
    BY <1>0, <1>4
  <2>2. run' \in [Runs -> RunRecord]
    <3>1. states'[a].object \in Nat
      BY <1>2 DEF StateRecord
    <3>2. [pc |-> "running", agent |-> a, object |-> states'[a].object,
           answer |-> "none"] \in RunRecord
      BY <3>1 DEF RunRecord, RunAnswers
    <3> QED
      BY <1>0, <1>4, <3>2
  <2>3. begun' \in [Agents -> Nat] /\ begun'[a] = begun[a] + 1
    BY <1>0, <1>4
  <2>4. \A b : r \notin InFlight(b) /\ InFlight(b) \subseteq Runs
    BY <1>0 DEF InFlight
  <2>5. InFlight(a)' = InFlight(a) \cup {r}
    BY <2>1 DEF InFlight
  <2>6. \A b : b # a => InFlight(b)' = InFlight(b)
    BY <1>0, <2>1 DEF InFlight
  <2>7. ASSUME NEW b \in Agents \ removed PROVE Accounted(b)'
    <3>1. Accounted(b)
      BY DEF RuntimeInv
    <3>2. CASE b # a
      <4>1. begun'[b] = begun[b]
        BY <1>0, <1>4, <3>2
      <4> QED
        BY <1>0, <1>2, <2>1, <2>4, <2>6, <3>2, <4>1, AccountsKept
    <3>3. CASE b = a
      <4>1. /\ Cardinality(InFlight(b)') = Cardinality(InFlight(b)) + 1
            /\ Cardinality(InFlight(b)) \in Nat
        BY <2>4, <2>5, <3>3, InFlightIsFinite, FS_AddElement
      <4>2. /\ states[b].runs \in Nat /\ states'[b].runs = states[b].runs
            /\ states'[b].failures = states[b].failures
        BY <1>2 DEF RuntimeInv, RuntimeTypes, StateRecord
      <4>3. /\ states'[b].runs + Cardinality(InFlight(b)') = begun'[b]
            /\ states'[b].failures <= states'[b].runs
        BY <2>3, <3>1, <3>3, <4>1, <4>2 DEF Accounted
      <4>4. states'[b] # NoState
        BY <1>2, <1>4, <3>3
      <4>5. module'[b] # "none"
        BY <1>0, <1>2, <4>4
      <4>6. \A q \in InFlight(b)' : run'[q].object = states'[b].object
        BY <1>2, <2>1, <2>4, <2>5, <3>1, <3>3 DEF Accounted
      <4> QED
        BY <4>3, <4>4, <4>5, <4>6 DEF Accounted
    <3> QED
      BY <3>2, <3>3
  <2> QED
    BY <1>0, <1>2, <2>2, <2>3, <2>7 DEF RuntimeInv, RuntimeTypes
<1>5. "raised" \in RunAnswers /\ Said(FALSE) \in RunAnswers
  BY SaidIsAnswer DEF RunAnswers
<1> QED
  BY <1>1, <1>3, <1>4, <1>5
LEMMA RuntimeStep == RuntimeInv /\ [RuntimeNext]_runtimeVars => RuntimeInv'
<1> SUFFICES ASSUME RuntimeInv, [RuntimeNext]_runtimeVars PROVE RuntimeInv'
  OBVIOUS
<1>0. /\ run \in [Runs -> RunRecord] /\ module \in [Agents -> {"none", "good", "broken"}]
      /\ states \in [Agents -> StateRecord]
  BY DEF RuntimeInv, RuntimeTypes
<1>1. CASE UNCHANGED runtimeVars
  <2>1. UNCHANGED <<module, registry, states, run, begun, removed>>
    BY <1>1 DEF runtimeVars
  <2> QED
    BY <2>1 DEF RuntimeInv, RuntimeTypes, Accounted, InFlight
<1>2. ASSUME NEW r \in Runs, ListAgents(r) PROVE RuntimeInv'
  <2>1. PICK given \in RunAnswers : Ended(r, given)
    <3>1. Ended(r, "list") \/ Ended(r, "raised")
      BY <1>2 DEF ListAgents
    <3> QED
      BY <3>1 DEF RunAnswers
  <2>2. run[r].pc # "running" /\ UNCHANGED <<module, states, begun, removed>>
    BY <1>2 DEF ListAgents
  <2>3. /\ run' \in [Runs -> RunRecord]
        /\ \A a : InFlight(a)' = InFlight(a)
        /\ \A a, q : q \in InFlight(a) => run'[q] = run[q]
    BY <2>1, <2>2, EndedBeforeRunning
  <2> QED
    BY <2>2, <2>3, StatesKept
<1>3. ASSUME NEW r \in Runs, SelfStatus(r) PROVE RuntimeInv'
  <2>1. PICK given \in RunAnswers : Ended(r, given)
    <3>1. Ended(r, "status") \/ Ended(r, "raised")
      BY <1>3 DEF SelfStatus
    <3> QED
      BY <3>1 DEF RunAnswers
  <2>2. run[r].pc # "running" /\ UNCHANGED <<module, begun, removed>>
    BY <1>3 DEF SelfStatus
  <2>3. PICK loaded \in Imports : ReloadInto(loaded)
    BY <1>3 DEF SelfStatus
  <2>4. /\ run' \in [Runs -> RunRecord]
        /\ \A a : InFlight(a)' = InFlight(a)
        /\ \A a, q : q \in InFlight(a) => run'[q] = run[q]
    BY <2>1, <2>2, EndedBeforeRunning
  <2>5. /\ states' \in [Agents -> StateRecord]
        /\ \A a \in Agents \ removed :
              /\ states'[a].runs = states[a].runs
              /\ states'[a].failures = states[a].failures
              /\ states'[a] = NoState => states[a] = NoState
              /\ module[a] = "none" => states'[a] = NoState
              /\ \A q \in InFlight(a) : states'[a].object = states[a].object
    BY <2>3, ReloadKeepsAccounts
  <2>6. \A a \in Agents \ removed : Accounted(a)'
    BY <2>2, <2>4, <2>5, AccountsKept
  <2> QED
    BY <2>2, <2>4, <2>5, <2>6 DEF RuntimeInv, RuntimeTypes
<1>4. ASSUME NEW r \in Runs, RunByName(r) PROVE RuntimeInv'
  BY <1>4, RunByNameKeepsAccounts
<1>5. ASSUME NEW r \in Runs, Finish(r) PROVE RuntimeInv'
  BY <1>5, FinishKeepsAccounts
<1>6. ASSUME NEW r \in Runs, HandOver(r) PROVE RuntimeInv'
  <2>1. run[r].pc = "idle" /\ UNCHANGED <<module, states, begun, removed>>
    BY <1>6 DEF HandOver
  <2>2. PICK loaded \in Imports :
          \/ Broken # {} /\ Ended(r, "raised")
          \/ /\ Broken = {}
             /\ \E match \in Matching(loaded) :
                  IF match = {} THEN Ended(r, "conversation")
                  ELSE \E a \in match :
                         run' = [run EXCEPT ![r].pc = "delegated", ![r].agent = a]
    BY <1>6, Zenon DEF HandOver
  <2>3. ASSUME NEW given \in RunAnswers, Ended(r, given) PROVE RuntimeInv'
    <3>1. /\ run' \in [Runs -> RunRecord]
          /\ \A a : InFlight(a)' = InFlight(a)
          /\ \A a, q : q \in InFlight(a) => run'[q] = run[q]
      BY <2>1, <2>3, EndedBeforeRunning
    <3> QED
      BY <2>1, <3>1, StatesKept
  <2>4. ASSUME NEW a \in loaded,
               run' = [run EXCEPT ![r].pc = "delegated", ![r].agent = a]
        PROVE  RuntimeInv'
    <3> DEFINE e == [run[r] EXCEPT !.pc = "delegated", !.agent = a]
    <3>0. a \in Agents
      <4>1. loaded \subseteq Good
        BY DEF Imports
      <4> QED
        BY <4>1 DEF Good
    <3>1. run' = [run EXCEPT ![r] = e]
      BY <1>0, <2>4
    <3>2. e \in RunRecord /\ e.pc = "delegated"
      BY <1>0, <3>0 DEF RunRecord
    <3>3. /\ run' \in [Runs -> RunRecord] /\ run'[r] = e
          /\ \A q \in Runs \ {r} : run'[q] = run[q]
      BY <1>0, <3>1, <3>2
    <3>4. \A b : r \notin InFlight(b) /\ InFlight(b) \subseteq Runs
      BY <2>1 DEF InFlight
    <3>5. \A b : InFlight(b)' = InFlight(b)
      BY <2>1, <3>2, <3>3, ZenonT(40) DEF InFlight
    <3>6. \A b, q : q \in InFlight(b) => run'[q] = run[q]
      BY <3>3, <3>4
    <3> QED
      BY <2>1, <3>3, <3>5, <3>6, StatesKept
  <2>5. CASE Ended(r, "raised") \/ Ended(r, "conversation")
    BY <2>3, <2>5 DEF RunAnswers
  <2>6. CASE ~(Ended(r, "raised") \/ Ended(r, "conversation"))
    <3>1. PICK match \in Matching(loaded) :
            /\ match # {}
            /\ \E a \in match : run' = [run EXCEPT ![r].pc = "delegated", ![r].agent = a]
      BY <2>2, <2>6, Zenon
    <3>2. match \subseteq loaded
      BY DEF Matching
    <3> QED
      BY <2>4, <3>1, <3>2
  <2> QED
    BY <2>5, <2>6
<1>7. ASSUME NEW r \in Runs, HandedBack(r) PROVE RuntimeInv'
  <2>1. PICK given \in RunAnswers : Ended(r, given)
    BY <1>7 DEF HandedBack, RunAnswers
  <2>2. run[r].pc # "running" /\ UNCHANGED <<module, states, begun, removed>>
    BY <1>7 DEF HandedBack
  <2>3. /\ run' \in [Runs -> RunRecord]
        /\ \A a : InFlight(a)' = InFlight(a)
        /\ \A a, q : q \in InFlight(a) => run'[q] = run[q]
    BY <2>1, <2>2, EndedBeforeRunning
  <2> QED
    BY <2>2, <2>3, StatesKept
<1>8. ASSUME NEW a \in Agents, FileChanges(a) PROVE RuntimeInv'
  <2>1. UNCHANGED <<registry, states, run, begun>>
    BY <1>8 DEF FileChanges
  <2>2. /\ module' \in [Agents -> {"none", "good", "broken"}]
        /\ \A b \in Agents \ removed' :
             b \notin removed /\ (module'[b] = "none" => module[b] = "none")
    <3>1. CASE module' \in {[module EXCEPT ![a] = m] : m \in {"good", "broken"}}
               /\ UNCHANGED removed
      <4>1. PICK m \in {"good", "broken"} : module' = [module EXCEPT ![a] = m]
        BY <3>1
      <4> QED
        BY <1>0, <3>1, <4>1
    <3>2. CASE module' = [module EXCEPT ![a] = "none"] /\ removed' = removed \cup {a}
      BY <1>0, <3>2
    <3> QED
      BY <1>8, <3>1, <3>2 DEF FileChanges
  <2>3. ASSUME NEW b \in Agents \ removed' PROVE Accounted(b)'
    <3>1. Accounted(b)
      BY <2>2 DEF RuntimeInv
    <3>2. InFlight(b)' = InFlight(b)
      BY <2>1 DEF InFlight
    <3> QED
      BY <2>1, <2>2, <3>1, <3>2 DEF Accounted
  <2> QED
    BY <2>1, <2>2, <2>3 DEF RuntimeInv, RuntimeTypes
<1> QED
  BY <1>1, <1>2, <1>3, <1>4, <1>5, <1>6, <1>7, <1>8 DEF RuntimeNext

LEMMA RuntimeStart == RuntimeInit => RuntimeInv
<1> SUFFICES ASSUME RuntimeInit PROVE RuntimeInv
  OBVIOUS
<1>1. Waiting \in RunRecord /\ NoState \in StateRecord /\ Waiting.pc = "idle"
  BY DEF Waiting, RunRecord, RunAnswers, NoState, StateRecord
<1>2. /\ run = [r \in Runs |-> Waiting] /\ states = [a \in Agents |-> NoState]
      /\ begun = [a \in Agents |-> 0] /\ module \in [Agents -> {"none", "good"}]
  BY DEF RuntimeInit
<1>3. RuntimeTypes
  BY <1>1, <1>2 DEF RuntimeTypes
<1>4. ASSUME NEW a \in Agents PROVE Accounted(a)
  <2>1. InFlight(a) = {}
    BY <1>1, <1>2 DEF InFlight
  <2>2. Cardinality(InFlight(a)) = 0
    BY <2>1, FS_EmptySet
  <2>3. states[a] = NoState /\ begun[a] = 0 /\ NoState.runs = 0 /\ NoState.failures = 0
    BY <1>2 DEF NoState
  <2> QED
    BY <2>1, <2>2, <2>3 DEF Accounted
<1> QED
  BY <1>3, <1>4 DEF RuntimeInv

(* The counters shown of a generated agent miss none of its executions, as *)
(* long as its file was not taken away, whatever reloads, replacements of  *)
(* the file and imports that raise have overtaken them                     *)
(* (AgentRuntimeManager.run, reload): for any finite number of requests    *)
(* and whatever the agents.                                                *)
THEOREM RunsAreCountedCorrect == RuntimeSpec => []RunsAreCounted
<1>1. RuntimeInv => RunsAreCounted
  BY DEF RuntimeInv, Accounted, RunsAreCounted
<1> QED
  BY <1>1, RuntimeStart, RuntimeStep, PTL DEF RuntimeSpec

(* Each request begins one execution at most.                              *)
Attended == {r \in Runs : run[r].pc # "idle"}

RunsBegin ==
  /\ registry \in SUBSET Agents /\ removed \in SUBSET Agents
  /\ \A a \in Agents : begun[a] <= Cardinality(Attended)

LEMMA AttendedIsFinite ==
  /\ IsFiniteSet(Attended) /\ Cardinality(Attended) \in Nat
  /\ Cardinality(Attended) <= Cardinality(Runs) /\ Cardinality(Runs) \in Nat
<1>1. Attended \subseteq Runs
  BY DEF Attended
<1> QED
  BY <1>1, RunsAssumption, FS_Subset, FS_CardinalityType

(* A request that ends or goes on has been attended to.                    *)
LEMMA AttendedGrows ==
  ASSUME RuntimeTypes, NEW r \in Runs, NEW e, e.pc # "idle", run' = [run EXCEPT ![r] = e]
  PROVE  /\ Attended' = Attended \cup {r}
         /\ Cardinality(Attended) <= Cardinality(Attended')
         /\ run[r].pc = "idle" => Cardinality(Attended') = Cardinality(Attended) + 1
<1>1. run'[r] = e /\ \A d \in Runs \ {r} : run'[d] = run[d]
  BY DEF RuntimeTypes
<1>2. Attended' = Attended \cup {r}
  BY <1>1 DEF Attended
<1>3. IsFiniteSet(Attended) /\ Cardinality(Attended) \in Nat
  BY AttendedIsFinite
<1>4. Cardinality(Attended') = IF r \in Attended THEN Cardinality(Attended)
                               ELSE Cardinality(Attended) + 1
  BY <1>2, <1>3, FS_AddElement
<1>5. run[r].pc = "idle" => r \notin Attended
  BY DEF Attended
<1> QED
  BY <1>2, <1>3, <1>4, <1>5

LEMMA RunsBeginStart == RuntimeInit => RunsBegin
<1> SUFFICES ASSUME RuntimeInit PROVE RunsBegin
  OBVIOUS
<1>1. \A a \in Agents : begun[a] = 0
  BY DEF RuntimeInit
<1> QED
  BY <1>1, AttendedIsFinite DEF RuntimeInit, RunsBegin

LEMMA RunsBeginStep == RuntimeInv /\ RunsBegin /\ [RuntimeNext]_runtimeVars => RunsBegin'
<1> SUFFICES ASSUME RuntimeInv, RunsBegin, [RuntimeNext]_runtimeVars PROVE RunsBegin'
  OBVIOUS
<1> DEFINE n == Cardinality(Attended)
<1>0. /\ RuntimeTypes /\ begun \in [Agents -> Nat] /\ n \in Nat /\ n' \in Nat
      /\ registry \in SUBSET Agents /\ removed \in SUBSET Agents /\ \A a \in Agents : begun[a] <= n
  <2>1. n \in Nat /\ n' \in Nat
    <3>1. Attended' \subseteq Runs
      BY DEF Attended
    <3> QED
      BY <3>1, AttendedIsFinite, RunsAssumption, FS_Subset, FS_CardinalityType
  <2> QED
    BY <2>1 DEF RuntimeInv, RuntimeTypes, RunsBegin
<1>00. \A loaded \in Imports : loaded \subseteq Agents
  BY DEF Imports, Good
<1>1. ASSUME n <= n', begun' = begun, registry' \in SUBSET Agents, removed' \in SUBSET Agents
      PROVE  RunsBegin'
  <2> HIDE DEF n
  <2>1. \A a \in Agents : begun[a] <= n'
    BY <1>0, <1>1
  <2> QED
    BY <1>1, <2>1 DEF RunsBegin, n
<1>2. ASSUME NEW r \in Runs, NEW saying, Ended(r, saying)
      PROVE  n <= n' /\ (run[r].pc = "idle" => n' = n + 1)
  <2> DEFINE e == [Waiting EXCEPT !.pc = "done", !.answer = saying]
  <2>1. e.pc = "done" /\ run' = [run EXCEPT ![r] = e]
    BY <1>2 DEF Ended, Waiting
  <2> HIDE DEF e
  <2> QED
    BY <1>0, <2>1, AttendedGrows
<1>3. ASSUME NEW r \in Runs, ListAgents(r) \/ SelfStatus(r) PROVE RunsBegin'
  BY <1>0, <1>00, <1>1, <1>2, <1>3 DEF ListAgents, SelfStatus
<1>4. ASSUME NEW r \in Runs, Finish(r) \/ HandedBack(r) PROVE RunsBegin'
  BY <1>0, <1>1, <1>2, <1>4 DEF Finish, HandedBack
<1>5. ASSUME NEW r \in Runs, RunByName(r) PROVE RunsBegin'
  <2>1. PICK a \in Agents, loaded \in Imports :
          /\ registry' = loaded
          /\ \/ (\E saying : Ended(r, saying)) /\ UNCHANGED begun
             \/ /\ run' = [run EXCEPT ![r] = [pc |-> "running", agent |-> a,
                                              object |-> states'[a].object, answer |-> "none"]]
                /\ begun' = [begun EXCEPT ![a] = begun[a] + 1]
    BY <1>5 DEF RunByName
  <2>2. registry' \in SUBSET Agents /\ removed' \in SUBSET Agents /\ run[r].pc = "idle"
    BY <1>0, <1>00, <1>5, <2>1 DEF RunByName
  <2>3. CASE (\E saying : Ended(r, saying)) /\ UNCHANGED begun
    BY <1>1, <1>2, <2>2, <2>3
  <2>4. CASE /\ run' = [run EXCEPT ![r] = [pc |-> "running", agent |-> a,
                                           object |-> states'[a].object, answer |-> "none"]]
             /\ begun' = [begun EXCEPT ![a] = begun[a] + 1]
    <3> DEFINE e == [pc |-> "running", agent |-> a, object |-> states'[a].object, answer |-> "none"]
    <3>1. e.pc # "idle" /\ run' = [run EXCEPT ![r] = e]
      BY <2>4
    <3> HIDE DEF e
    <3>2. n' = n + 1
      BY <1>0, <2>2, <3>1, AttendedGrows
    <3> HIDE DEF n
    <3>3. \A b \in Agents : begun'[b] <= n'
      BY <1>0, <2>4, <3>2
    <3> QED
      BY <2>2, <3>3 DEF RunsBegin, n
  <2> QED
    BY <2>1, <2>3, <2>4
<1>6. ASSUME NEW r \in Runs, HandOver(r) PROVE RunsBegin'
  <2>1. PICK loaded \in Imports :
          /\ registry' = loaded
          /\ \/ \E saying : Ended(r, saying)
             \/ \E a : run' = [run EXCEPT ![r].pc = "delegated", ![r].agent = a]
    BY <1>6 DEF HandOver
  <2>2. n <= n'
    <3>1. ASSUME NEW a, run' = [run EXCEPT ![r].pc = "delegated", ![r].agent = a] PROVE n <= n'
      <4> DEFINE e == [run[r] EXCEPT !.pc = "delegated", !.agent = a]
      <4>1. e.pc # "idle" /\ run' = [run EXCEPT ![r] = e]
        BY <1>0, <3>1 DEF RuntimeTypes, RunRecord
      <4> HIDE DEF e
      <4> QED
        BY <1>0, <4>1, AttendedGrows
    <3> QED
      BY <1>2, <2>1, <3>1
  <2> QED
    BY <1>0, <1>00, <1>1, <1>6, <2>1, <2>2 DEF HandOver
<1>7. ASSUME NEW a \in Agents, FileChanges(a) PROVE RunsBegin'
  <2>1. n' = n
    BY <1>7 DEF FileChanges, Attended
  <2> QED
    BY <1>0, <1>1, <1>7, <2>1 DEF FileChanges
<1>8. CASE UNCHANGED runtimeVars
  <2>1. n' = n
    BY <1>8 DEF runtimeVars, Attended
  <2> QED
    BY <1>0, <1>1, <1>8, <2>1 DEF runtimeVars
<1> QED
  BY <1>3, <1>4, <1>5, <1>6, <1>7, <1>8 DEF RuntimeNext

(* Only modules of the directory are ever registered, and the manager      *)
(* begins at most one execution for each request that comes.               *)
THEOREM RuntimeTypeCorrect == RuntimeSpec => []RuntimeTypeOK
<1>1. RuntimeInv /\ RunsBegin => RuntimeTypeOK
  <2> SUFFICES ASSUME RuntimeInv, RunsBegin PROVE RuntimeTypeOK
    OBVIOUS
  <2>1. \A a \in Agents : begun[a] <= Cardinality(Runs)
    BY AttendedIsFinite DEF RuntimeInv, RuntimeTypes, RunsBegin
  <2> QED
    BY <2>1 DEF RuntimeInv, RuntimeTypes, RunsBegin, RuntimeTypeOK
<1> QED
  BY <1>1, RunsBeginStart, RunsBeginStep, RuntimeStart, RuntimeStep, PTL DEF RuntimeSpec
-----------------------------------------------------------------------------
(* The building of agents (BuildPipeline).                                 *)

(* Where a build is, or goes on when it has saved.                         *)
Stage(b) == IF build[b].pc = "saving" THEN build[b].next ELSE build[b].pc
Drafted ==
  {"validate", "compile", "compile failed", "test", "tests passed", "tests failed",
   "register", "verify", "created"}
InWork == Drafted \cup {"plan", "generate", "unclear", "failed"}
BuildRecord ==
  [pc : InWork \cup {"idle", "consult", "saving", "done"}, spec : Specs,
   next : InWork \cup {"idle"},
   answer : {"none", "available", "consulted", "unavailable", "created", "unclear",
             "failed"}]

BuildTypes ==
  /\ build \in [Builds -> BuildRecord]
  /\ DOMAIN draft = Names /\ DOMAIN generated = Names

(* A build in work holds the event loop.  What it has drafted is not       *)
(* overwritten before it ends, is tested before it is registered, and is   *)
(* registered and has answered before the build says that it is created.   *)
Worked(b) ==
  /\ build[b].pc = "saving" => build[b].next \in InWork
  /\ Stage(b) \in InWork => busy = b
  /\ Stage(b) \in Drafted => draft[build[b].spec.name] = build[b].spec.sig
  /\ Stage(b) \in {"tests passed", "register", "verify", "created"} =>
       build[b].spec.sig \in tested
  /\ Stage(b) \in {"verify", "created"} =>
       generated[build[b].spec.name] = build[b].spec.sig
  /\ Stage(b) = "created" => build[b].spec.sig \in verified
  /\ build[b].pc = "idle" => build[b].answer = "none"
  /\ build[b].answer = "created" => build[b].spec.sig \in tested \cap verified

BuildInv == BuildTypes /\ RegisteredIsTested /\ \A b \in Builds : Worked(b)

(* Only one build is in work: where another one moves, what this one holds *)
(* is as it was.                                                           *)
LEMMA OthersKeepWork ==
  ASSUME BuildInv, NEW b \in Builds, busy = b,
         \A d \in Builds \ {b} : build'[d] = build[d],
         tested \subseteq tested', verified \subseteq verified'
  PROVE  \A d \in Builds \ {b} : Worked(d)'
<1> SUFFICES ASSUME NEW d \in Builds \ {b} PROVE Worked(d)'
  OBVIOUS
<1>1. Worked(d) /\ build'[d] = build[d] /\ Stage(d)' = Stage(d)
  BY DEF BuildInv, Stage
<1>2. Stage(d) \notin InWork
  BY <1>1 DEF Worked
<1> QED
  BY <1>1, <1>2 DEF Worked, InWork, Drafted

(* A step of the build b that loads, changes and is to save the projects:  *)
(* b stays in work, at the stage that follows.                             *)
LEMMA UpdateMoves ==
  ASSUME BuildTypes, NEW b \in Builds, NEW next \in InWork, NEW fields, NEW steps,
         Update(b, next, fields, steps)
  PROVE  /\ build' \in [Builds -> BuildRecord]
         /\ \A d \in Builds \ {b} : build'[d] = build[d]
         /\ Stage(b)' = next /\ build'[b].spec = build[b].spec
         /\ build'[b].answer = build[b].answer /\ build'[b].pc # "idle"
         /\ build'[b].next = next
<1> DEFINE pc == IF Updated(stored, b, fields, steps) = Nothing THEN next ELSE "saving"
           e == [build[b] EXCEPT !.next = next, !.pc = pc]
<1>1. build' = [build EXCEPT ![b].next = next, ![b].pc = pc]
  BY DEF Update
<1>2. build \in [Builds -> BuildRecord] /\ build[b] \in BuildRecord
  BY DEF BuildTypes
<1>3. pc \in {next, "saving"}
  OBVIOUS
<1> HIDE DEF pc
<1>4. e \in BuildRecord
  BY <1>2, <1>3 DEF BuildRecord
<1>5. build' = [build EXCEPT ![b] = e]
  BY <1>1, <1>2
<1>6. /\ build' \in [Builds -> BuildRecord] /\ build'[b] = e
      /\ \A d \in Builds \ {b} : build'[d] = build[d]
  BY <1>2, <1>4, <1>5
<1>7. e.pc = pc /\ e.next = next /\ e.spec = build[b].spec /\ e.answer = build[b].answer
  BY <1>2 DEF BuildRecord
<1>8. Stage(b)' = next
  BY <1>3, <1>6, <1>7 DEF Stage
<1>9. pc # "idle"
  BY <1>3 DEF InWork, Drafted
<1> QED
  BY <1>6, <1>7, <1>8, <1>9

(* A build that fails holds nothing but the event loop.                    *)
LEMMA FailureKeepsBuildInv ==
  ASSUME BuildInv, NEW b \in Builds, Stage(b) \in InWork,
         NEW next \in {"failed", "compile failed", "tests failed", "unclear"},
         NEW fields, NEW steps, Update(b, next, fields, steps),
         next \in {"compile failed", "tests failed"} => Stage(b) \in Drafted,
         UNCHANGED <<busy, draft, generated, promoted>>,
         tested \subseteq tested', verified \subseteq verified'
  PROVE  BuildInv'
<1>0. next \in InWork
  BY DEF InWork, Drafted
<1>1. /\ build' \in [Builds -> BuildRecord]
      /\ \A d \in Builds \ {b} : build'[d] = build[d]
      /\ Stage(b)' = next /\ build'[b].spec = build[b].spec
      /\ build'[b].answer = build[b].answer /\ build'[b].pc # "idle"
      /\ build'[b].next = next
  BY <1>0, UpdateMoves DEF BuildInv
<1>2. Worked(b) /\ busy = b
  BY DEF BuildInv, Worked
<1>3. Worked(b)'
  BY <1>0, <1>1, <1>2 DEF Worked, Drafted
<1>4. \A d \in Builds : Worked(d)'
  BY <1>1, <1>2, <1>3, OthersKeepWork
<1>5. RegisteredIsTested'
  BY DEF BuildInv, RegisteredIsTested
<1> QED
  BY <1>1, <1>4, <1>5 DEF BuildInv, BuildTypes
(* The same for a build that goes on, once what its new stage needs is     *)
(* there.                                                                  *)
LEMMA ProgressKeepsBuildInv ==
  ASSUME BuildInv, NEW b \in Builds, Stage(b) \in InWork,
         NEW next \in InWork, NEW fields, NEW steps, Update(b, next, fields, steps),
         busy' = busy, promoted' = promoted, DOMAIN draft' = Names,
         DOMAIN generated' = Names, tested \subseteq tested', verified \subseteq verified',
         next \in Drafted => draft'[build[b].spec.name] = build[b].spec.sig,
         next \in {"tests passed", "register", "verify", "created"} =>
           build[b].spec.sig \in tested',
         next \in {"verify", "created"} =>
           generated'[build[b].spec.name] = build[b].spec.sig,
         next = "created" => build[b].spec.sig \in verified',
         RegisteredIsTested'
  PROVE  BuildInv'
<1>1. /\ build' \in [Builds -> BuildRecord]
      /\ \A d \in Builds \ {b} : build'[d] = build[d]
      /\ Stage(b)' = next /\ build'[b].spec = build[b].spec
      /\ build'[b].answer = build[b].answer /\ build'[b].pc # "idle"
      /\ build'[b].next = next
  BY UpdateMoves DEF BuildInv
<1>2. Worked(b) /\ busy = b
  BY DEF BuildInv, Worked
<1>3. Worked(b)'
  BY <1>1, <1>2 DEF Worked
<1>4. \A d \in Builds : Worked(d)'
  BY <1>1, <1>2, <1>3, OthersKeepWork
<1> QED
  BY <1>1, <1>4 DEF BuildInv, BuildTypes

(* What keeps the drafts and the generated agents keeps what is registered *)
(* tested.                                                                 *)
LEMMA RegistryKept ==
  ASSUME RegisteredIsTested, generated' = generated, promoted \subseteq promoted',
         tested \subseteq tested'
  PROVE  RegisteredIsTested'
BY DEF RegisteredIsTested

(* A step that only adds to what was verified or tested, and does not      *)
(* touch the build d.                                                      *)
LEMMA UntouchedKeepsWork ==
  ASSUME NEW d \in Builds, Worked(d), build'[d] = build[d],
         UNCHANGED <<busy, draft, generated>>,
         tested \subseteq tested', verified \subseteq verified'
  PROVE  Worked(d)'
<1>1. Stage(d)' = Stage(d)
  BY DEF Stage
<1> QED
  BY <1>1 DEF Worked

(* Nothing that BuildInv speaks of changes.                                *)
LEMMA QuietKeepsBuildInv ==
  ASSUME BuildInv, UNCHANGED <<build, busy, draft, generated, tested, verified, promoted>>
  PROVE  BuildInv'
BY DEF BuildInv, BuildTypes, RegisteredIsTested, Worked, Stage

LEMMA AskBuildStep == ASSUME BuildInv, NEW b \in Builds, AskBuild(b) PROVE BuildInv'
<1>0. /\ build \in [Builds -> BuildRecord] /\ Worked(b) /\ RegisteredIsTested
      /\ build[b].pc = "idle" /\ busy = "free" /\ b # "free"
      /\ UNCHANGED <<draft, generated, tested, verified, promoted>>
  BY BuildAssumption DEF BuildInv, BuildTypes, AskBuild
<1>1. ASSUME NEW e \in BuildRecord, build' = [build EXCEPT ![b] = e],
             busy' \in {busy, b}, Worked(b)'
      PROVE  BuildInv'
  <2>1. /\ build' \in [Builds -> BuildRecord]
        /\ \A d \in Builds \ {b} : build'[d] = build[d]
    BY <1>0, <1>1
  <2>2. ASSUME NEW d \in Builds \ {b} PROVE Worked(d)'
    <3>1. Worked(d) /\ build'[d] = build[d] /\ Stage(d)' = Stage(d) /\ d # "free"
      BY <2>1, BuildAssumption DEF BuildInv, Stage
    <3>2. Stage(d) \notin InWork
      BY <1>0, <3>1 DEF Worked
    <3> QED
      BY <1>0, <3>1, <3>2 DEF Worked, InWork, Drafted
  <2>3. RegisteredIsTested'
    BY <1>0, RegistryKept
  <2> QED
    BY <1>0, <1>1, <2>1, <2>2, <2>3 DEF BuildInv, BuildTypes
<1>2. PICK s \in Specs :
       \/ /\ build' = [build EXCEPT ![b] =
                         [@ EXCEPT !.pc = "done", !.spec = s, !.answer = "available"]]
          /\ UNCHANGED <<held, busy>>
       \/ /\ build' = [build EXCEPT ![b] = [@ EXCEPT !.pc = "consult", !.spec = s]]
          /\ UNCHANGED <<held, busy>>
       \/ /\ build' = [build EXCEPT ![b] =
                         [@ EXCEPT !.pc = "saving", !.spec = s, !.next = "plan"]]
          /\ busy' = b
  BY DEF AskBuild
<1>3. CASE /\ build' = [build EXCEPT ![b] =
                          [@ EXCEPT !.pc = "done", !.spec = s, !.answer = "available"]]
           /\ UNCHANGED <<held, busy>>
  <2> DEFINE e == [build[b] EXCEPT !.pc = "done", !.spec = s, !.answer = "available"]
  <2>1. build' = [build EXCEPT ![b] = e] /\ busy' = busy
    BY <1>3
  <2>2. e \in BuildRecord /\ e.pc = "done" /\ e.answer = "available"
    BY <1>0 DEF BuildRecord
  <2>3. build'[b] = e
    BY <1>0, <2>1
  <2>4. Worked(b)'
    BY <2>2, <2>3 DEF Worked, Stage, InWork, Drafted
  <2> QED
    BY <1>1, <2>1, <2>2, <2>4
<1>4. CASE /\ build' = [build EXCEPT ![b] = [@ EXCEPT !.pc = "consult", !.spec = s]]
           /\ UNCHANGED <<held, busy>>
  <2> DEFINE e == [build[b] EXCEPT !.pc = "consult", !.spec = s]
  <2>1. build' = [build EXCEPT ![b] = e] /\ busy' = busy
    BY <1>4
  <2>2. e \in BuildRecord /\ e.pc = "consult" /\ e.answer = "none"
    BY <1>0 DEF BuildRecord, Worked
  <2>3. build'[b] = e
    BY <1>0, <2>1
  <2>4. Worked(b)'
    BY <2>2, <2>3 DEF Worked, Stage, InWork, Drafted
  <2> QED
    BY <1>1, <2>1, <2>2, <2>4
<1>5. CASE /\ build' = [build EXCEPT ![b] =
                          [@ EXCEPT !.pc = "saving", !.spec = s, !.next = "plan"]]
           /\ busy' = b
  <2> DEFINE e == [build[b] EXCEPT !.pc = "saving", !.spec = s, !.next = "plan"]
  <2>1. build' = [build EXCEPT ![b] = e] /\ busy' = b
    BY <1>5
  <2>2. e \in BuildRecord /\ e.pc = "saving" /\ e.next = "plan" /\ e.answer = "none"
    BY <1>0 DEF BuildRecord, Worked, InWork
  <2>3. build'[b] = e
    BY <1>0, <2>1
  <2>4. Worked(b)'
    BY <2>1, <2>2, <2>3 DEF Worked, Stage, InWork, Drafted
  <2> QED
    BY <1>1, <2>1, <2>2, <2>4
<1> QED
  BY <1>2, <1>3, <1>4, <1>5

(* A build that ends with an answer, or is consulted.                      *)
LEMMA BuildAnswerStep ==
  ASSUME BuildInv, NEW b \in Builds, NEW said \in {"consulted", "unavailable", "created",
                                                   "unclear", "failed"},
         Answer(b, said), said = "created" => Stage(b) = "created",
         busy' = busy \/ (busy' = "free" /\ busy = b),
         UNCHANGED <<draft, generated, tested, promoted>>, verified \subseteq verified'
  PROVE  BuildInv'
<1> DEFINE e == [build[b] EXCEPT !.pc = "done", !.answer = said]
<1>0. build \in [Builds -> BuildRecord] /\ Worked(b) /\ RegisteredIsTested
  BY DEF BuildInv, BuildTypes
<1>1. build' = [build EXCEPT ![b] = e]
  BY <1>0 DEF Answer
<1>2. /\ e \in BuildRecord /\ e.pc = "done" /\ e.answer = said /\ e.spec = build[b].spec
  BY <1>0 DEF BuildRecord
<1>3. /\ build' \in [Builds -> BuildRecord] /\ build'[b] = e
      /\ \A d \in Builds \ {b} : build'[d] = build[d]
  BY <1>0, <1>1, <1>2
<1>4. Worked(b)'
  BY <1>0, <1>2, <1>3 DEF Worked, Stage, InWork, Drafted
<1>5. ASSUME NEW d \in Builds \ {b} PROVE Worked(d)'
  <2>1. Worked(d) /\ build'[d] = build[d] /\ Stage(d)' = Stage(d)
    BY <1>3 DEF BuildInv, Stage
  <2>2. Stage(d) \in InWork => busy' = d
    BY <2>1 DEF Worked
  <2> QED
    BY <2>1, <2>2 DEF Worked
<1>6. RegisteredIsTested'
  BY <1>0, RegistryKept
<1> QED
  BY <1>3, <1>4, <1>5, <1>6 DEF BuildInv, BuildTypes

LEMMA SaveStep == ASSUME BuildInv, NEW b \in Builds, Save(b) PROVE BuildInv'
<1>0. /\ build \in [Builds -> BuildRecord] /\ Worked(b) /\ RegisteredIsTested
      /\ build[b].pc = "saving" /\ build[b].next \in InWork
      /\ UNCHANGED <<busy, draft, generated, tested, verified, promoted>>
  BY DEF BuildInv, BuildTypes, Save, Worked
<1>1. CASE build' = build
  BY <1>0, <1>1, QuietKeepsBuildInv
<1>2. CASE build' = [build EXCEPT ![b].pc = build[b].next]
  <2> DEFINE e == [build[b] EXCEPT !.pc = build[b].next]
  <2>1. build' = [build EXCEPT ![b] = e]
    BY <1>2
  <2>2. /\ e \in BuildRecord /\ e.pc = build[b].next /\ e.answer = build[b].answer
        /\ e.spec = build[b].spec
    BY <1>0 DEF BuildRecord
  <2>3. /\ build' \in [Builds -> BuildRecord] /\ build'[b] = e
        /\ \A d \in Builds \ {b} : build'[d] = build[d]
    BY <1>0, <2>1, <2>2
  <2>4. "saving" \notin InWork /\ "idle" \notin InWork
    BY DEF InWork, Drafted
  <2>5. Stage(b)' = Stage(b) /\ Stage(b) = build[b].next
    BY <1>0, <2>2, <2>3, <2>4 DEF Stage
  <2>6. Worked(b)'
    BY <1>0, <2>2, <2>3, <2>4, <2>5 DEF Worked
  <2>7. \A d \in Builds \ {b} : Worked(d)'
    BY <1>0, <2>3, UntouchedKeepsWork DEF BuildInv
  <2>8. RegisteredIsTested'
    BY <1>0, RegistryKept
  <2> QED
    BY <1>0, <2>3, <2>6, <2>7, <2>8 DEF BuildInv, BuildTypes
<1> QED
  BY <1>1, <1>2 DEF Save
(* A build at work is not saving: its stage is its position.               *)
LEMMA AtStage ==
  ASSUME NEW b \in Builds, build[b].pc # "saving"
  PROVE  Stage(b) = build[b].pc
BY DEF Stage

(* The steps of a build that touch no file of an agent.                    *)
LEMMA PlanStep == ASSUME BuildInv, NEW b \in Builds, Plan(b) PROVE BuildInv'
<1>1. /\ Stage(b) = "plan" /\ Update(b, "generate", Status("running"), Done("planning"))
      /\ UNCHANGED <<busy, draft, generated, tested, verified, promoted>>
  BY DEF Plan, Stage, Keep, Disk
<1>2. RegisteredIsTested'
  BY <1>1, RegistryKept DEF BuildInv
<1> QED
  BY <1>1, <1>2, ProgressKeepsBuildInv DEF InWork, Drafted, BuildInv, BuildTypes

LEMMA ValidateStep == ASSUME BuildInv, NEW b \in Builds, Validate(b) PROVE BuildInv'
<1>1. /\ Stage(b) = "validate" /\ Worked(b)
      /\ UNCHANGED <<busy, draft, generated, tested, verified, promoted>>
  BY DEF Validate, Stage, Keep, Disk, BuildInv
<1>2. RegisteredIsTested'
  BY <1>1, RegistryKept DEF BuildInv
<1>3. CASE Update(b, "compile", Status("running"), Done("validation"))
  <2>1. draft'[build[b].spec.name] = build[b].spec.sig
    BY <1>1 DEF Worked, Drafted
  <2>2. DOMAIN draft' = Names /\ DOMAIN generated' = Names
    BY <1>1 DEF BuildInv, BuildTypes
  <2> QED
    BY <1>1, <1>2, <1>3, <2>1, <2>2, ProgressKeepsBuildInv DEF InWork, Drafted
<1>4. CASE \E error \in {"syntax_error", "class Agent manquante"} :
             Fail(b, "validation", error)
  BY <1>1, <1>4, FailureKeepsBuildInv DEF Fail, InWork, Drafted
<1> QED
  BY <1>3, <1>4 DEF Validate

LEMMA CompileStep == ASSUME BuildInv, NEW b \in Builds, Compile(b) PROVE BuildInv'
<1>1. /\ Worked(b) /\ build \in [Builds -> BuildRecord] /\ RegisteredIsTested
      /\ UNCHANGED <<busy, draft, generated, tested, verified, promoted>>
  BY DEF Compile, Keep, Disk, BuildInv, BuildTypes
<1>2. CASE build[b].pc = "compile" /\ build' = [build EXCEPT ![b].pc = "test"]
  <2> DEFINE e == [build[b] EXCEPT !.pc = "test"]
  <2>1. build' = [build EXCEPT ![b] = e]
    BY <1>2
  <2>2. /\ e \in BuildRecord /\ e.pc = "test" /\ e.answer = build[b].answer
        /\ e.spec = build[b].spec
    BY <1>1 DEF BuildRecord, InWork, Drafted
  <2>3. /\ build' \in [Builds -> BuildRecord] /\ build'[b] = e
        /\ \A d \in Builds \ {b} : build'[d] = build[d]
    BY <1>1, <2>1, <2>2
  <2>4. Stage(b)' = "test" /\ Stage(b) = "compile"
    BY <1>2, <2>2, <2>3 DEF Stage
  <2>5. Worked(b)'
    BY <1>1, <2>2, <2>3, <2>4 DEF Worked, InWork, Drafted
  <2>6. \A d \in Builds \ {b} : Worked(d)'
    BY <1>1, <2>3, UntouchedKeepsWork DEF BuildInv
  <2>7. RegisteredIsTested'
    BY <1>1, RegistryKept
  <2> QED
    BY <1>1, <2>3, <2>5, <2>6, <2>7 DEF BuildInv, BuildTypes
<1>3. CASE build[b].pc = "compile" /\ AppendResult(b, "compile_agent", 1, "compile failed")
  <2>1. Stage(b) = "compile"
    BY <1>3, AtStage
  <2> QED
    BY <1>1, <1>3, <2>1, FailureKeepsBuildInv DEF AppendResult, InWork, Drafted
<1>4. CASE build[b].pc = "compile failed" /\ Fail(b, "compile", "stderr")
  <2>1. Stage(b) = "compile failed"
    BY <1>4, AtStage
  <2> QED
    BY <1>1, <1>4, <2>1, FailureKeepsBuildInv DEF Fail, InWork, Drafted
<1> QED
  BY <1>2, <1>3, <1>4 DEF Compile

LEMMA TestedStep == ASSUME BuildInv, NEW b \in Builds, Tested(b) PROVE BuildInv'
<1>1. /\ Worked(b) /\ DOMAIN draft' = Names /\ DOMAIN generated' = Names
      /\ UNCHANGED <<busy, draft, generated, tested, verified, promoted>>
  BY DEF Tested, Keep, Disk, BuildInv, BuildTypes
<1>2. RegisteredIsTested'
  BY <1>1, RegistryKept DEF BuildInv
<1>3. CASE build[b].pc = "tests passed" /\ Update(b, "register", Status("running"), Done("tests"))
  <2>1. Stage(b) = "tests passed"
    BY <1>3, AtStage
  <2>2. /\ draft'[build[b].spec.name] = build[b].spec.sig
        /\ build[b].spec.sig \in tested'
    BY <1>1, <2>1 DEF Worked, Drafted
  <2> QED
    BY <1>1, <1>2, <1>3, <2>1, <2>2, ProgressKeepsBuildInv DEF InWork, Drafted
<1>4. CASE build[b].pc = "tests failed" /\ Fail(b, "tests", "stdout")
  <2>1. Stage(b) = "tests failed"
    BY <1>4, AtStage
  <2> QED
    BY <1>1, <1>4, <2>1, FailureKeepsBuildInv DEF Fail, InWork, Drafted
<1> QED
  BY <1>3, <1>4 DEF Tested

LEMMA BuildRaiseStep == ASSUME BuildInv, NEW b \in Builds, RaiseBuild(b) PROVE BuildInv'
<1>1. /\ Stage(b) \in InWork /\ Fail(b, "exception", "timeout")
      /\ UNCHANGED <<busy, draft, generated, tested, verified, promoted>>
  BY AtStage DEF RaiseBuild, Keep, Disk, InWork, Drafted
<1> QED
  BY <1>1, FailureKeepsBuildInv DEF Fail

(* The draft is written, and tested: by the build that is to register it.  *)
LEMMA GenerateStep == ASSUME BuildInv, NEW b \in Builds, Generate(b) PROVE BuildInv'
<1> DEFINE s == build[b].spec
<1>1. /\ Stage(b) = "generate" /\ s \in Specs
      /\ draft' = [draft EXCEPT ![s.name] = s.sig]
      /\ Update(b, "validate", Status("running"), Done("code_generation"))
      /\ UNCHANGED <<busy, generated, tested, verified, promoted>>
  BY DEF Generate, Stage, Keep, BuildInv, BuildTypes, BuildRecord
<1>2. /\ s.name \in Names /\ DOMAIN draft = Names /\ DOMAIN generated = Names
  BY <1>1 DEF Names, BuildInv, BuildTypes
<1>3. draft'[s.name] = s.sig /\ DOMAIN draft' = Names /\ DOMAIN generated' = Names
  BY <1>1, <1>2
<1>4. RegisteredIsTested'
  BY <1>1, RegistryKept DEF BuildInv
<1> QED
  BY <1>1, <1>3, <1>4, ProgressKeepsBuildInv DEF InWork, Drafted

LEMMA TestStep == ASSUME BuildInv, NEW b \in Builds, Test(b) PROVE BuildInv'
<1> DEFINE s == build[b].spec
<1>1. PICK returncode \in {0, 1} :
       /\ AppendResult(b, "pytest_agent", returncode, AfterTests(returncode))
       /\ tested' = IF returncode = 0 THEN tested \cup {draft[s.name]} ELSE tested
  BY DEF Test
<1>2. /\ Stage(b) = "test" /\ Worked(b) /\ DOMAIN draft' = Names /\ DOMAIN generated' = Names
      /\ UNCHANGED <<busy, draft, generated, verified, promoted>>
  BY AtStage DEF Test, Keep, BuildInv, BuildTypes
<1>3. draft[s.name] = s.sig
  BY <1>2 DEF Worked, Drafted
<1>4. tested \subseteq tested'
  BY <1>1
<1>5. RegisteredIsTested'
  BY <1>2, <1>4, RegistryKept DEF BuildInv
<1>6. CASE returncode = 0
  <2>1. AfterTests(returncode) = "tests passed"
    BY <1>6 DEF AfterTests
  <2>2. s.sig \in tested' /\ draft'[s.name] = s.sig
    BY <1>1, <1>2, <1>3, <1>6
  <2> QED
    BY <1>1, <1>2, <1>4, <1>5, <2>1, <2>2, ProgressKeepsBuildInv
       DEF AppendResult, InWork, Drafted
<1>7. CASE returncode # 0
  <2>1. AfterTests(returncode) = "tests failed"
    BY <1>7 DEF AfterTests
  <2> QED
    BY <1>1, <1>2, <1>4, <2>1, FailureKeepsBuildInv DEF AppendResult, InWork, Drafted
<1> QED
  BY <1>6, <1>7

(* Only a tested draft is copied among the generated agents.               *)
LEMMA RegisterStep == ASSUME BuildInv, NEW b \in Builds, Register(b) PROVE BuildInv'
<1> DEFINE s == build[b].spec
<1>1. /\ Stage(b) = "register" /\ s \in Specs /\ Worked(b)
      /\ generated' = [generated EXCEPT ![s.name] = draft[s.name]]
      /\ Update(b, "verify", [registered |-> TRUE], Done("registry"))
      /\ UNCHANGED <<busy, draft, tested, verified, promoted>>
  BY AtStage DEF Register, Keep, BuildInv, BuildTypes, BuildRecord
<1>2. /\ s.name \in Names /\ DOMAIN draft = Names /\ DOMAIN generated = Names
  BY <1>1 DEF Names, BuildInv, BuildTypes
<1>3. draft[s.name] = s.sig /\ s.sig \in tested
  BY <1>1 DEF Worked, Drafted
<1>4. /\ generated'[s.name] = s.sig /\ DOMAIN generated' = Names
      /\ \A n \in Names \ {s.name} : generated'[n] = generated[n]
  BY <1>1, <1>2, <1>3
<1>5. RegisteredIsTested'
  BY <1>1, <1>3, <1>4 DEF BuildInv, RegisteredIsTested
<1>6. draft'[s.name] = s.sig /\ s.sig \in tested' /\ DOMAIN draft' = Names
  BY <1>1, <1>2, <1>3
<1> QED
  BY <1>1, <1>4, <1>5, <1>6, ProgressKeepsBuildInv DEF InWork, Drafted

LEMMA VerifyStep == ASSUME BuildInv, NEW b \in Builds, Verify(b) PROVE BuildInv'
<1> DEFINE s == build[b].spec
<1>1. PICK ok \in BOOLEAN :
       /\ verified' = IF ok THEN verified \cup {generated[s.name]} ELSE verified
       /\ IF Accepted(ok)
          THEN Update(b, Response(b), [status |-> "completed", available |-> TRUE,
                                       error |-> "none"], Done("verification"))
          ELSE Fail(b, "verification", "empty")
  BY DEF Verify
<1>2. /\ Stage(b) = "verify" /\ Worked(b) /\ DOMAIN draft' = Names /\ DOMAIN generated' = Names
      /\ UNCHANGED <<busy, draft, generated, tested, promoted>>
  BY AtStage DEF Verify, Keep, BuildInv, BuildTypes
<1>3. draft[s.name] = s.sig /\ generated[s.name] = s.sig /\ s.sig \in tested
  BY <1>2 DEF Worked, Drafted
<1>4. verified \subseteq verified'
  BY <1>1
<1>5. RegisteredIsTested'
  BY <1>2, RegistryKept DEF BuildInv
<1>6. CASE ok
  <2>1. s.sig \in verified'
    BY <1>1, <1>3, <1>6
  <2>2. PICK next \in {"created", "unclear"} : next = Response(b)
    BY Zenon DEF Response
  <2>3. Update(b, next, [status |-> "completed", available |-> TRUE,
                         error |-> "none"], Done("verification"))
    BY <1>1, <1>6, <2>2, Zenon DEF Accepted
  <2> QED
    BY <1>2, <1>3, <1>4, <1>5, <2>1, <2>3, ProgressKeepsBuildInv DEF InWork, Drafted
<1>7. CASE ~ok
  <2>1. Fail(b, "verification", "empty")
    BY <1>1, <1>7, Zenon DEF Accepted
  <2> QED
    BY <1>2, <1>4, <2>1, FailureKeepsBuildInv DEF Fail, InWork, Drafted
<1> QED
  BY <1>6, <1>7

(* A user promotes a draft only while nothing is being built.              *)
LEMMA PromoteStep == ASSUME BuildInv, NEW n \in Names, Promote(n) PROVE BuildInv'
<1>1. /\ busy = "free" /\ generated' = [generated EXCEPT ![n] = draft[n]]
      /\ promoted' = promoted \cup {draft[n]}
      /\ UNCHANGED <<build, busy, draft, tested, verified>>
  BY DEF Promote
<1>2. DOMAIN generated = Names
  BY DEF BuildInv, BuildTypes
<1>3. /\ DOMAIN generated' = Names /\ generated'[n] = draft[n]
      /\ \A m \in Names \ {n} : generated'[m] = generated[m]
  BY <1>1, <1>2
<1>4. RegisteredIsTested'
  BY <1>1, <1>3 DEF BuildInv, RegisteredIsTested
<1>5. ASSUME NEW d \in Builds PROVE Worked(d)'
  <2>1. Worked(d) /\ Stage(d)' = Stage(d) /\ d # "free"
    BY <1>1, BuildAssumption DEF BuildInv, Stage
  <2>2. Stage(d) \notin InWork
    BY <1>1, <2>1 DEF Worked
  <2> QED
    BY <1>1, <2>1, <2>2 DEF Worked, InWork, Drafted
<1> QED
  BY <1>1, <1>3, <1>4, <1>5 DEF BuildInv, BuildTypes

LEMMA CrashStep == ASSUME BuildInv, Crash PROVE BuildInv'
<1>1. /\ build' = [b \in Builds |-> IF build[b].pc = "idle" THEN build[b]
                                    ELSE [build[b] EXCEPT !.pc = "done"]]
      /\ build \in [Builds -> BuildRecord]
      /\ UNCHANGED <<draft, generated, tested, verified, promoted>>
  BY DEF Crash, BuildInv, BuildTypes
<1>2. ASSUME NEW b \in Builds PROVE build'[b] \in BuildRecord /\ Worked(b)'
  <2>1. build[b] \in BuildRecord /\ Worked(b)
    BY <1>1 DEF BuildInv
  <2>2. CASE build[b].pc = "idle"
    <3>1. build'[b] = build[b]
      BY <1>1, <2>2
    <3>2. Stage(b)' = "idle"
      BY <2>2, <3>1 DEF Stage
    <3> QED
      BY <1>1, <2>1, <3>1, <3>2 DEF Worked, InWork, Drafted
  <2>3. CASE build[b].pc # "idle"
    <3>1. build'[b] = [build[b] EXCEPT !.pc = "done"]
      BY <1>1, <2>3
    <3>2. /\ build'[b] \in BuildRecord /\ build'[b].pc = "done"
          /\ build'[b].spec = build[b].spec /\ build'[b].answer = build[b].answer
      BY <2>1, <3>1 DEF BuildRecord
    <3>3. Stage(b)' = "done"
      BY <3>2 DEF Stage
    <3> QED
      BY <1>1, <2>1, <3>2, <3>3 DEF Worked, InWork, Drafted
  <2> QED
    BY <2>2, <2>3
<1>3. build' \in [Builds -> BuildRecord]
  BY <1>1, <1>2
<1>4. RegisteredIsTested'
  BY <1>1, RegistryKept DEF BuildInv
<1> QED
  BY <1>1, <1>2, <1>3, <1>4 DEF BuildInv, BuildTypes

LEMMA BuildStep == BuildInv /\ [BuildNext]_buildVars => BuildInv'
<1> SUFFICES ASSUME BuildInv, [BuildNext]_buildVars PROVE BuildInv'
  OBVIOUS
<1>1. CASE UNCHANGED buildVars
  BY <1>1, QuietKeepsBuildInv DEF buildVars
<1>2. ASSUME NEW b \in Builds, Consult(b) PROVE BuildInv'
  BY <1>2, BuildAnswerStep DEF Consult
<1>3. ASSUME NEW b \in Builds, Respond(b) PROVE BuildInv'
  <2>1. /\ Stage(b) = build[b].pc /\ build[b].pc \in {"created", "unclear", "failed"}
        /\ Answer(b, build[b].pc) /\ busy' = "free"
        /\ UNCHANGED <<draft, generated, tested, verified, promoted>>
    BY <1>3, AtStage DEF Respond
  <2>2. busy = b
    BY <2>1 DEF BuildInv, Worked, InWork, Drafted
  <2> QED
    BY <2>1, <2>2, BuildAnswerStep
<1>4. CASE MissionLoad \/ MissionSave
  BY <1>4, QuietKeepsBuildInv DEF MissionLoad, MissionSave
<1>5. ASSUME NEW b \in Builds,
             \/ AskBuild(b) \/ Save(b) \/ Plan(b) \/ Generate(b)
             \/ Validate(b) \/ Compile(b) \/ Test(b) \/ Tested(b) \/ Register(b)
             \/ Verify(b) \/ RaiseBuild(b)
      PROVE  BuildInv'
  BY <1>5, AskBuildStep, SaveStep, PlanStep, GenerateStep, ValidateStep, CompileStep,
     TestStep, TestedStep, RegisterStep, VerifyStep, BuildRaiseStep
<1> QED
  BY <1>1, <1>2, <1>3, <1>4, <1>5, PromoteStep, CrashStep DEF BuildNext

LEMMA BuildInitially == BuildInit => BuildInv
<1> SUFFICES ASSUME BuildInit PROVE BuildInv
  OBVIOUS
<1>1. Idle \in BuildRecord /\ Idle.pc = "idle" /\ Idle.answer = "none"
  BY BuildAssumption DEF Idle, BuildRecord
<1>2. /\ build = [b \in Builds |-> Idle] /\ DOMAIN draft = Names
      /\ generated \in [Names -> {"none", "handmade"}]
  BY DEF BuildInit
<1>3. \A b \in Builds : Worked(b)
  BY <1>1, <1>2 DEF Worked, Stage, InWork, Drafted
<1>4. RegisteredIsTested
  BY <1>2 DEF RegisteredIsTested
<1> QED
  BY <1>1, <1>2, <1>3, <1>4 DEF BuildInv, BuildTypes

(* Only what pytest has passed or a user has promoted is ever among the    *)
(* generated agents, which the registry imports and executes: whatever     *)
(* crashed in between, was drafted under the same name or lost in          *)
(* projects.json (build_from_request, _register_agent), for any requests   *)
(* and any number of them.                                                 *)
THEOREM RegisteredIsTestedCorrect == BuildSpec => []RegisteredIsTested
<1>1. BuildInv => RegisteredIsTested
  BY DEF BuildInv
<1> QED
  BY <1>1, BuildInitially, BuildStep, PTL DEF BuildSpec

(* A build that says its agent is created has tested this very agent and   *)
(* had an answer of it (format_project_response, _verify_agent), whatever  *)
(* the evolution thread has written to projects.json in between.           *)
THEOREM CreatedHasProofCorrect == BuildSpec => []CreatedHasProof
<1>1. BuildInv => CreatedHasProof
  BY DEF BuildInv, Worked, CreatedHasProof
<1> QED
  BY <1>1, BuildInitially, BuildStep, PTL DEF BuildSpec

(* Who writes projects.json has something to save, and a build that writes *)
(* is saving; what is saved are projects of those who write.               *)
Papers ==
  /\ writing \in SUBSET Writers /\ DOMAIN stored \subseteq Writers /\ DOMAIN held = Writers
  /\ \A w \in Writers : held[w] = Nothing \/ DOMAIN held[w] \subseteq Writers
  /\ \A w \in writing : held[w] # Nothing
  /\ \A b \in Builds : b \in writing => build[b].pc = "saving"

Folders ==
  /\ busy \in Builds \cup {"free"}
  /\ draft \in [Names -> Signatures \cup {"none"}]
  /\ generated \in [Names -> Signatures \cup {"none", "handmade"}]

LEMMA SpecsAreNamed == \A s \in Specs : s.name \in Names /\ s.sig \in Signatures
BY DEF Names, Signatures

(* A build that has loaded the projects keeps what it is to save.          *)
LEMMA HeldKeepsPapers ==
  ASSUME BuildTypes, Papers, NEW b \in Builds, NEW doc, doc = Nothing \/ DOMAIN doc \subseteq Writers,
         build[b].pc # "saving", held' = [held EXCEPT ![b] = doc], UNCHANGED <<stored, writing>>,
         \A d \in Builds \ {b} : build'[d].pc = build[d].pc
  PROVE  Papers'
<1>1. b \in Writers /\ b \notin writing
  BY DEF Writers, Papers
<1>2. held'[b] = doc /\ \A w \in Writers \ {b} : held'[w] = held[w]
  BY <1>1 DEF Papers
<1>3. DOMAIN held' = Writers /\ \A w \in Writers : held'[w] = Nothing \/ DOMAIN held'[w] \subseteq Writers
  BY <1>2 DEF Papers
<1>4. \A w \in writing : held'[w] # Nothing
  BY <1>1, <1>2 DEF Papers
<1>5. \A d \in Builds : d \in writing => build'[d].pc = "saving"
  BY <1>1 DEF Papers
<1> QED
  BY <1>3, <1>4, <1>5 DEF Papers

LEMMA UpdateKeepsPapers ==
  ASSUME BuildTypes, Papers, NEW b \in Builds, NEW next, NEW fields, NEW steps,
         build[b].pc # "saving", Update(b, next, fields, steps), UNCHANGED <<stored, writing>>
  PROVE  Papers'
<1> DEFINE doc == Updated(stored, b, fields, steps)
<1>1. doc = Nothing \/ DOMAIN doc = DOMAIN stored
  BY DEF Updated
<1>2. /\ held' = [held EXCEPT ![b] = doc]
      /\ build' = [build EXCEPT ![b].next = next,
                     ![b].pc = IF doc = Nothing THEN next ELSE "saving"]
  BY DEF Update
<1> HIDE DEF doc
<1>3. \A d \in Builds \ {b} : build'[d].pc = build[d].pc
  BY <1>2 DEF BuildTypes
<1>4. doc = Nothing \/ DOMAIN doc \subseteq Writers
  BY <1>1 DEF Papers
<1> QED
  BY <1>2, <1>3, <1>4, HeldKeepsPapers

LEMMA BuildKeepsPapers ==
  ASSUME BuildTypes, Papers, NEW b \in Builds, UNCHANGED <<stored, held, writing>>,
         build[b].pc # "saving", \A d \in Builds \ {b} : build'[d].pc = build[d].pc
  PROVE  Papers'
BY DEF Papers

LEMMA AskKeepsPapers == ASSUME BuildTypes, Papers, NEW b \in Builds, AskBuild(b) PROVE Papers'
<1>0. build \in [Builds -> BuildRecord] /\ UNCHANGED <<stored, writing>> /\ build[b].pc = "idle"
  BY DEF BuildTypes, AskBuild
<1>1. PICK s \in Specs :
        /\ \E e : build' = [build EXCEPT ![b] = e]
        /\ \/ UNCHANGED held
           \/ held' = [held EXCEPT ![b] = [p \in DOMAIN stored \cup {b} |->
                                             IF p = b THEN NewProject(s) ELSE stored[p]]]
  BY DEF AskBuild
<1>2. \A d \in Builds \ {b} : build'[d].pc = build[d].pc
  BY <1>0, <1>1
<1> DEFINE doc == [p \in DOMAIN stored \cup {b} |-> IF p = b THEN NewProject(s) ELSE stored[p]]
<1>3. DOMAIN doc \subseteq Writers
  BY DEF Papers, Writers
<1>4. held' = held \/ held' = [held EXCEPT ![b] = doc]
  BY <1>1
<1> HIDE DEF doc
<1> QED
  BY <1>0, <1>2, <1>3, <1>4, HeldKeepsPapers, BuildKeepsPapers

LEMMA OpenKeepsPapers ==
  ASSUME Papers, NEW w \in Writers, Open(w), \A b \in Builds : build'[b].pc = build[b].pc,
         w \in Builds => build[w].pc = "saving"
  PROVE  Papers'
<1>1. DOMAIN stored' = {}
  BY DEF Open, NoDoc
<1>2. writing' = writing \cup {w} /\ held[w] # Nothing /\ held' = held
  BY DEF Open
<1> QED
  BY <1>1, <1>2 DEF Papers

LEMMA WriteKeepsPapers ==
  ASSUME Papers, NEW w \in Writers, Write(w), \A b \in Builds \ {w} : build'[b].pc = build[b].pc
  PROVE  Papers'
<1>1. /\ w \in writing /\ writing' = writing \ {w} /\ held' = [held EXCEPT ![w] = Nothing]
      /\ held[w] # Nothing /\ DOMAIN held[w] \subseteq Writers
  BY DEF Write, Papers
<1>2. DOMAIN stored' \subseteq Writers
  BY <1>1 DEF Write, NoDoc
<1>3. held'[w] = Nothing /\ \A v \in Writers \ {w} : held'[v] = held[v]
  BY <1>1 DEF Papers
<1>4. DOMAIN held' = Writers /\ \A v \in Writers : held'[v] = Nothing \/ DOMAIN held'[v] \subseteq Writers
  BY <1>1, <1>3 DEF Papers
<1>5. \A v \in writing' : held'[v] # Nothing
  BY <1>1, <1>3 DEF Papers
<1> QED
  BY <1>1, <1>2, <1>4, <1>5 DEF Papers

LEMMA PapersStart == BuildInit => Papers /\ Folders
<1> SUFFICES ASSUME BuildInit PROVE Papers /\ Folders
  OBVIOUS
<1>1. stored = [p \in {"mission"} |-> 0] /\ held = [w \in Writers |-> Nothing] /\ writing = {}
  BY DEF BuildInit
<1>2. Papers
  BY <1>1 DEF Papers, Writers
<1> QED
  BY <1>2 DEF BuildInit, Folders

LEMMA PapersStep == BuildInv /\ Papers /\ Folders /\ [BuildNext]_buildVars => Papers' /\ Folders'
<1> SUFFICES ASSUME BuildInv, Papers, Folders, [BuildNext]_buildVars PROVE Papers' /\ Folders'
  OBVIOUS
<1>0. /\ BuildTypes /\ build \in [Builds -> BuildRecord] /\ \A b \in Builds : Worked(b)
      /\ \A b \in Builds : build[b].spec \in Specs
  BY DEF BuildInv, BuildTypes, BuildRecord
<1>00. UNCHANGED <<busy, draft, generated>> => Folders'
  BY DEF Folders
<1>1. ASSUME NEW b \in Builds, AskBuild(b) PROVE Papers' /\ Folders'
  BY <1>0, <1>1, AskKeepsPapers DEF AskBuild, Folders
<1>2. ASSUME NEW b \in Builds, Consult(b) \/ Respond(b) PROVE Papers' /\ Folders'
  <2>1. build[b].pc # "saving" /\ \A d \in Builds \ {b} : build'[d].pc = build[d].pc
    BY <1>0, <1>2 DEF Consult, Respond, Answer
  <2>2. Papers'
    BY <1>0, <1>2, <2>1, BuildKeepsPapers DEF Consult, Respond
  <2> QED
    BY <1>2, <2>2 DEF Consult, Respond, Folders
<1>3. ASSUME NEW b \in Builds, Save(b) PROVE Papers' /\ Folders'
  <2>1. b \in Writers /\ build[b].pc = "saving"
    BY <1>3 DEF Save, Writers
  <2>2. CASE Open(b) /\ UNCHANGED build
    BY <1>00, <1>3, <2>1, <2>2, OpenKeepsPapers DEF Save
  <2>3. CASE Write(b) /\ build' = [build EXCEPT ![b].pc = build[b].next]
    <3>1. \A d \in Builds \ {b} : build'[d].pc = build[d].pc
      BY <1>0, <2>3
    <3> QED
      BY <1>00, <1>3, <2>1, <2>3, <3>1, WriteKeepsPapers DEF Save
  <2> QED
    BY <1>3, <2>2, <2>3 DEF Save
<1>4. ASSUME NEW b \in Builds, NEW next, NEW fields, NEW steps, Update(b, next, fields, steps),
             build[b].pc # "saving", UNCHANGED <<stored, writing>>
      PROVE  Papers'
  BY <1>0, <1>4, UpdateKeepsPapers
<1>5. ASSUME NEW b \in Builds, NEW step, NEW error, Fail(b, step, error), build[b].pc # "saving",
             UNCHANGED <<stored, writing>>
      PROVE  Papers'
  BY <1>4, <1>5 DEF Fail
<1>6. ASSUME NEW b \in Builds, Plan(b) \/ Validate(b) \/ Tested(b) \/ RaiseBuild(b)
      PROVE  Papers' /\ Folders'
  <2>1. build[b].pc # "saving" /\ UNCHANGED <<stored, writing>> /\ UNCHANGED <<busy, draft, generated>>
    BY <1>6 DEF Plan, Validate, Tested, RaiseBuild, Keep, Disk
  <2>2. (\E next, fields, steps : Update(b, next, fields, steps)) \/ (\E step, error : Fail(b, step, error))
    BY <1>6 DEF Plan, Validate, Tested, RaiseBuild
  <2> QED
    BY <1>00, <1>4, <1>5, <2>1, <2>2
<1>7. ASSUME NEW b \in Builds, Generate(b) PROVE Papers' /\ Folders'
  <2>1. Papers'
    BY <1>4, <1>7 DEF Generate, Keep
  <2>2. draft' \in [Names -> Signatures \cup {"none"}]
    BY <1>0, <1>7, SpecsAreNamed DEF Generate, Folders
  <2> QED
    BY <1>7, <2>1, <2>2 DEF Generate, Keep, Folders
<1>8. ASSUME NEW b \in Builds, Compile(b) PROVE Papers' /\ Folders'
  <2>1. CASE build[b].pc = "compile" /\ build' = [build EXCEPT ![b].pc = "test"] /\ UNCHANGED held
    <3>1. \A d \in Builds \ {b} : build'[d].pc = build[d].pc
      BY <1>0, <2>1
    <3>2. Papers'
      BY <1>0, <1>8, <2>1, <3>1, BuildKeepsPapers DEF Compile, Keep
    <3> QED
      BY <1>00, <1>8, <3>2 DEF Compile, Keep, Disk
  <2>2. CASE build[b].pc = "compile" /\ AppendResult(b, "compile_agent", 1, "compile failed")
    BY <1>00, <1>4, <1>8, <2>2 DEF Compile, Keep, Disk, AppendResult
  <2>3. CASE build[b].pc = "compile failed" /\ Fail(b, "compile", "stderr")
    BY <1>00, <1>5, <1>8, <2>3 DEF Compile, Keep, Disk
  <2> QED
    BY <1>8, <2>1, <2>2, <2>3 DEF Compile
<1>9. ASSUME NEW b \in Builds, Test(b) PROVE Papers' /\ Folders'
  BY <1>00, <1>4, <1>9 DEF Test, Keep, AppendResult
<1>10. ASSUME NEW b \in Builds, Register(b) PROVE Papers' /\ Folders'
  <2>1. Papers'
    BY <1>4, <1>10 DEF Register, Keep
  <2>2. draft[build[b].spec.name] = build[b].spec.sig
    <3>1. Stage(b) \in Drafted
      BY <1>10 DEF Register, Stage, Drafted
    <3> QED
      BY <1>0, <3>1 DEF Worked
  <2>3. generated' \in [Names -> Signatures \cup {"none", "handmade"}]
    BY <1>0, <1>10, <2>2, SpecsAreNamed DEF Register, Folders
  <2> QED
    BY <1>10, <2>1, <2>3 DEF Register, Keep, Folders
<1>11. ASSUME NEW b \in Builds, Verify(b) PROVE Papers' /\ Folders'
  <2>1. Papers'
    BY <1>4, <1>5, <1>11 DEF Verify, Keep
  <2> QED
    BY <1>00, <1>11, <2>1 DEF Verify, Keep
<1>12. ASSUME NEW n \in Names, Promote(n) PROVE Papers' /\ Folders'
  <2>1. draft[n] \in Signatures
    BY <1>12 DEF Promote, Folders
  <2>2. Papers'
    BY <1>12 DEF Promote, Papers
  <2> QED
    BY <1>12, <2>1, <2>2 DEF Promote, Folders
<1>13. CASE MissionLoad
  <2>1. "mission" \in Writers /\ "mission" \notin writing
    BY <1>13 DEF MissionLoad, Writers, Papers
  <2> DEFINE doc == [stored EXCEPT !["mission"] = mission + 1]
  <2>2. DOMAIN doc \subseteq Writers
    BY DEF Papers
  <2>3. held' = held \/ held' = [held EXCEPT !["mission"] = doc]
    BY <1>13 DEF MissionLoad
  <2> HIDE DEF doc
  <2>4. CASE held' = held
    BY <1>00, <1>13, <2>4 DEF MissionLoad, Papers
  <2>5. CASE held' = [held EXCEPT !["mission"] = doc]
    <3>1. held'["mission"] = doc /\ \A w \in Writers \ {"mission"} : held'[w] = held[w]
      BY <2>1, <2>5 DEF Papers
    <3>2. DOMAIN held' = Writers /\ \A w \in Writers : held'[w] = Nothing \/ DOMAIN held'[w] \subseteq Writers
      BY <2>2, <2>5, <3>1 DEF Papers
    <3>3. \A w \in writing : held'[w] # Nothing
      BY <2>1, <3>1 DEF Papers
    <3>4. UNCHANGED <<stored, writing, build, busy, draft, generated>>
      BY <1>13 DEF MissionLoad
    <3> QED
      BY <1>00, <3>2, <3>3, <3>4 DEF Papers
  <2> QED
    BY <2>3, <2>4, <2>5
<1>14. CASE MissionSave
  <2>1. "mission" \in Writers /\ "mission" \notin Builds
    BY BuildAssumption DEF Writers
  <2>2. UNCHANGED <<build, busy, draft, generated>>
    BY <1>14 DEF MissionSave
  <2> QED
    BY <1>00, <1>14, <2>1, <2>2, OpenKeepsPapers, WriteKeepsPapers DEF MissionSave
<1>15. CASE Crash
  <2>1. held' = [w \in Writers |-> Nothing] /\ writing' = {} /\ stored' = stored
    BY <1>15 DEF Crash
  <2>2. Papers'
    BY <2>1 DEF Papers
  <2> QED
    BY <1>15, <2>2 DEF Crash, Folders
<1>16. CASE UNCHANGED buildVars
  BY <1>16 DEF buildVars, Papers, Folders
<1> QED
  BY <1>1, <1>2, <1>3, <1>6, <1>7, <1>8, <1>9, <1>10, <1>11, <1>12, <1>13, <1>14, <1>15, <1>16
  DEF BuildNext

(* projects.json holds projects of builds and of the mission only, and an  *)
(* agent in the registry has the signature of an agent that was asked for: *)
(* whoever overwrites whom and whenever the server crashes.                *)
THEOREM BuildTypeCorrect == BuildSpec => []BuildTypeOK
<1>1. BuildInv /\ Papers /\ Folders => BuildTypeOK
  BY DEF BuildInv, BuildTypes, BuildRecord, Papers, Folders, BuildTypeOK
<1> QED
  BY <1>1, PapersStart, PapersStep, BuildInitially, BuildStep, PTL DEF BuildSpec
-----------------------------------------------------------------------------
(* What is written of code on request (CodeAgent).                         *)

BackupNames == {Stems[p] : p \in Paths}
CodeTypes ==
  /\ DOMAIN text = Paths /\ DOMAIN replaced = Paths /\ DOMAIN backups = BackupNames
  /\ second \in Nat
  /\ \A n \in BackupNames : DOMAIN backups[n] \subseteq Nat
  /\ \A j \in Jobs : job[j].path \in Paths
  /\ DOMAIN job = Jobs

(* No backup is dated later than now, while the clock only went forward.   *)
BackupsArePast ==
  ~setBack => \A n \in BackupNames : \A s \in DOMAIN backups[n] : s <= second

CodeInv == CodeTypes /\ BackupsArePast /\ LastReplacedIsRestorable

(* The newest of a set of seconds, where it is known.                      *)
LEMMA NewestIs ==
  ASSUME NEW S \in SUBSET Nat, NEW m \in S, \A s \in S : s <= m
  PROVE  Max(S) = m
<1>1. m \in S /\ \A y \in S : m >= y
  OBVIOUS
<1>2. \A x \in S : (\A y \in S : x >= y) => x = m
  OBVIOUS
<1> QED
  BY <1>1, <1>2 DEF Max

(* The rotation never drops the newest backup, and the backup that is made *)
(* is the newest, though another one may have been made in this second.    *)
LEMMA NewestBackup ==
  ASSUME CodeInv, ~setBack, NEW p \in Paths
  PROVE  LET new == Backup(p)[Stems[p]]
         IN /\ DOMAIN Backup(p) = BackupNames
            /\ \A n \in BackupNames \ {Stems[p]} : Backup(p)[n] = backups[n]
            /\ \A s \in DOMAIN new : s \in Nat /\ s <= second
            /\ second \in DOMAIN new /\ new[second] = text[p]
            /\ Max(DOMAIN new) = second
            /\ new # <<>>
<1> DEFINE old == backups[Stems[p]]
           all == DOMAIN old \cup {second}
           kept == Rotate(all)
           new == Backup(p)[Stems[p]]
<1>0. /\ Stems[p] \in BackupNames /\ DOMAIN backups = BackupNames
      /\ DOMAIN old \subseteq Nat /\ second \in Nat
      /\ \A s \in DOMAIN old : s <= second
  BY DEF CodeInv, CodeTypes, BackupsArePast, BackupNames
<1>1. \A s \in all : s \in Nat /\ s <= second
  BY <1>0
<1>2. second \in kept
  <2>1. {r \in all : r > second} = {}
    BY <1>0, <1>1
  <2>2. Cardinality({r \in all : r > second}) < KeptBackups
    BY <2>1, FS_EmptySet, BackupsAssumption
  <2> QED
    BY <2>2 DEF Rotate
<1>3. kept \subseteq all
  BY DEF Rotate
<1>4. Backup(p) = [backups EXCEPT ![Stems[p]] =
                     [s \in kept |-> IF s = second THEN text[p] ELSE old[s]]]
  BY DEF Backup
<1> HIDE DEF all, kept
<1>5. /\ DOMAIN Backup(p) = BackupNames
      /\ \A n \in BackupNames \ {Stems[p]} : Backup(p)[n] = backups[n]
      /\ new = [s \in kept |-> IF s = second THEN text[p] ELSE old[s]]
  BY <1>0, <1>4
<1>6. DOMAIN new = kept /\ new[second] = text[p]
  BY <1>2, <1>5
<1>7. Max(kept) = second
  BY <1>1, <1>2, <1>3, NewestIs
<1>8. new # <<>>
  BY <1>2, <1>6
<1> QED
  BY <1>1, <1>2, <1>3, <1>5, <1>6, <1>7, <1>8

(* The same set of backups, after the clock was set back.                  *)
LEMMA SomeBackup ==
  ASSUME CodeTypes, NEW p \in Paths
  PROVE  /\ DOMAIN Backup(p) = BackupNames
         /\ \A n \in BackupNames : DOMAIN Backup(p)[n] \subseteq Nat
<1> DEFINE old == backups[Stems[p]]
           kept == Rotate(DOMAIN old \cup {second})
<1>0. /\ Stems[p] \in BackupNames /\ DOMAIN backups = BackupNames
      /\ DOMAIN old \subseteq Nat /\ second \in Nat
  BY DEF CodeTypes, BackupNames
<1>1. kept \subseteq Nat
  BY <1>0 DEF Rotate
<1>2. Backup(p) = [backups EXCEPT ![Stems[p]] =
                     [s \in kept |-> IF s = second THEN text[p] ELSE old[s]]]
  BY DEF Backup
<1> HIDE DEF kept
<1>3. /\ DOMAIN Backup(p) = BackupNames
      /\ Backup(p)[Stems[p]] = [s \in kept |-> IF s = second THEN text[p] ELSE old[s]]
      /\ \A n \in BackupNames \ {Stems[p]} : Backup(p)[n] = backups[n]
  BY <1>0, <1>2
<1>4. DOMAIN Backup(p)[Stems[p]] = kept
  BY <1>3
<1> QED
  BY <1>1, <1>3, <1>4 DEF CodeTypes

LEMMA OverwriteStep ==
  ASSUME CodeInv, NEW p \in Paths, Overwrite(p), UNCHANGED <<second, setBack>>,
         DOMAIN job' = Jobs, \A j \in Jobs : job'[j].path \in Paths
  PROVE  CodeInv'
<1>0. /\ CodeTypes /\ BackupsArePast /\ LastReplacedIsRestorable
      /\ DOMAIN text' = Paths
  BY DEF CodeInv, CodeTypes, Overwrite
<1>1. CASE text[p] = Gone
  <2>1. UNCHANGED <<backups, replaced>>
    BY <1>1 DEF Overwrite
  <2> QED
    BY <1>0, <2>1 DEF CodeInv, CodeTypes, BackupsArePast, LastReplacedIsRestorable
<1>2. CASE text[p] # Gone
  <2>1. backups' = Backup(p) /\ replaced' = [replaced EXCEPT ![p] = text[p]]
    BY <1>2 DEF Overwrite
  <2>2. /\ DOMAIN replaced' = Paths /\ replaced'[p] = text[p]
        /\ \A q \in Paths \ {p} : replaced'[q] = replaced[q]
    BY <1>0, <2>1 DEF CodeTypes
  <2>3. CodeTypes'
    BY <1>0, <2>1, <2>2, SomeBackup DEF CodeTypes
  <2>4. CASE setBack
    BY <2>3, <2>4 DEF CodeInv, BackupsArePast, LastReplacedIsRestorable
  <2>5. CASE ~setBack
    <3> DEFINE new == Backup(p)[Stems[p]]
    <3>1. /\ \A n \in BackupNames \ {Stems[p]} : Backup(p)[n] = backups[n]
          /\ \A s \in DOMAIN new : s \in Nat /\ s <= second
          /\ new[second] = text[p] /\ Max(DOMAIN new) = second /\ new # <<>>
      BY <2>5, NewestBackup
    <3>2. BackupsArePast'
      BY <1>0, <2>1, <3>1 DEF BackupsArePast
    <3>3. ASSUME NEW q \in Paths, OwnName(q), replaced'[q] # Gone
          PROVE  LET copies == backups'[Stems[q]]
                 IN copies # <<>> /\ copies[Max(DOMAIN copies)] = replaced'[q]
      <4>1. CASE q = p
        BY <2>1, <2>2, <3>1, <4>1
      <4>2. CASE q # p
        <5>1. Stems[q] # Stems[p] /\ Stems[q] \in BackupNames
          BY <3>3, <4>2 DEF OwnName, BackupNames
        <5>2. backups'[Stems[q]] = backups[Stems[q]] /\ replaced'[q] = replaced[q]
          BY <2>1, <2>2, <3>1, <4>2, <5>1
        <5> QED
          BY <1>0, <2>5, <3>3, <5>2 DEF LastReplacedIsRestorable
      <4> QED
        BY <4>1, <4>2
    <3>4. LastReplacedIsRestorable'
      BY <3>3 DEF LastReplacedIsRestorable, OwnName
    <3> QED
      BY <2>3, <3>2, <3>4 DEF CodeInv
  <2> QED
    BY <2>4, <2>5
<1> QED
  BY <1>1, <1>2

(* What writes no backup and does not move the clock.                      *)
LEMMA OtherCodeStep ==
  ASSUME CodeInv, UNCHANGED <<backups, replaced, second, setBack>>, DOMAIN text' = Paths,
         DOMAIN job' = Jobs, \A j \in Jobs : job'[j].path \in Paths
  PROVE  CodeInv'
BY DEF CodeInv, CodeTypes, BackupsArePast, LastReplacedIsRestorable, OwnName

LEMMA AwaitKeepsPaths ==
  ASSUME CodeTypes, NEW j \in Jobs, NEW pc, Await(j, pc)
  PROVE  DOMAIN job' = Jobs /\ \A i \in Jobs : job'[i].path \in Paths
BY DEF CodeTypes, Await

LEMMA CodeStep == CodeInv /\ [CodeNext]_codeVars => CodeInv'
<1> SUFFICES ASSUME CodeInv, [CodeNext]_codeVars PROVE CodeInv'
  OBVIOUS
<1>0. /\ CodeTypes /\ DOMAIN text = Paths /\ DOMAIN job = Jobs
      /\ \A j \in Jobs : job[j].path \in Paths
  BY DEF CodeInv, CodeTypes
<1>1. CASE UNCHANGED codeVars
  BY <1>0, <1>1, OtherCodeStep DEF codeVars
<1>2. ASSUME NEW j \in Jobs, Demand(j) PROVE CodeInv'
  <2>1. PICK action \in {"generate", "improve", "review", "audit"}, p \in Paths :
          job' = [job EXCEPT ![j] = [pc |-> "llm", action |-> action, path |-> p]]
    BY <1>2 DEF Demand
  <2>2. DOMAIN job' = Jobs /\ \A i \in Jobs : job'[i].path \in Paths
    BY <1>0, <2>1
  <2> QED
    BY <1>0, <1>2, <2>2, OtherCodeStep DEF Demand, CodeFiles, CodeClock
<1>3. ASSUME NEW j \in Jobs, Glance(j) \/ AnswerLLM(j) \/ Review(j) \/ Audit(j) \/ Sandbox(j)
      PROVE  CodeInv'
  <2>1. UNCHANGED CodeFiles /\ UNCHANGED CodeClock /\ \E pc : Await(j, pc)
    BY <1>3, Zenon DEF Glance, AnswerLLM, Review, Audit, Sandbox
  <2>2. DOMAIN job' = Jobs /\ \A i \in Jobs : job'[i].path \in Paths
    BY <1>0, <2>1, AwaitKeepsPaths
  <2> QED
    BY <1>0, <2>1, <2>2, OtherCodeStep DEF CodeFiles, CodeClock
<1>4. ASSUME NEW j \in Jobs, Rollback(j) PROVE CodeInv'
  <2>1. DOMAIN job' = Jobs /\ \A i \in Jobs : job'[i].path \in Paths
    BY <1>0, <1>4, AwaitKeepsPaths DEF Rollback
  <2>2. DOMAIN text' = Paths
    BY <1>0, <1>4 DEF Rollback
  <2> QED
    BY <1>4, <2>1, <2>2, OtherCodeStep DEF Rollback, CodeClock
<1>5. ASSUME NEW j \in Jobs, CheckSyntax(j) PROVE CodeInv'
  <2>1. UNCHANGED CodeClock /\ \E pc : Await(j, pc)
    BY <1>5, Zenon DEF CheckSyntax
  <2>2. DOMAIN job' = Jobs /\ \A i \in Jobs : job'[i].path \in Paths
    BY <1>0, <2>1, AwaitKeepsPaths
  <2>3. CASE UNCHANGED CodeFiles
    BY <1>0, <2>1, <2>2, <2>3, OtherCodeStep DEF CodeFiles, CodeClock
  <2>4. CASE Overwrite(job[j].path)
    BY <1>0, <2>1, <2>2, <2>4, OverwriteStep DEF CodeClock
  <2> QED
    BY <1>5, <2>3, <2>4 DEF CheckSyntax
<1>6. CASE SecondPasses
  <2>1. /\ second' = second + 1 /\ second \in Nat
        /\ UNCHANGED <<text, backups, replaced, setBack, job>>
    BY <1>6 DEF SecondPasses, CodeFiles, CodeInv, CodeTypes
  <2>2. CodeTypes'
    BY <1>0, <2>1 DEF CodeTypes
  <2>3. BackupsArePast'
    <3>1. \A n \in BackupNames : \A s \in DOMAIN backups[n] : s \in Nat
      BY <1>0 DEF CodeTypes
    <3> QED
      BY <2>1, <3>1 DEF CodeInv, BackupsArePast
  <2>4. LastReplacedIsRestorable'
    BY <2>1 DEF CodeInv, LastReplacedIsRestorable, OwnName
  <2> QED
    BY <2>2, <2>3, <2>4 DEF CodeInv
<1>7. CASE SetBack
  <2>1. second' = 1 /\ setBack' = TRUE /\ UNCHANGED <<text, backups, replaced, job>>
    BY <1>7 DEF SetBack, CodeFiles
  <2> QED
    BY <1>0, <2>1 DEF CodeInv, CodeTypes, BackupsArePast, LastReplacedIsRestorable
<1>8. CASE WeekPasses \/ CleanWorkspace \/ GenerateReadme
  <2>1. UNCHANGED <<backups, replaced, second, setBack, job>> /\ DOMAIN text' = Paths
    BY <1>0, <1>8 DEF WeekPasses, CleanWorkspace, GenerateReadme, CodeFiles, CodeClock
  <2> QED
    BY <1>0, <2>1, OtherCodeStep
<1> QED
  BY <1>1, <1>2, <1>3, <1>4, <1>5, <1>6, <1>7, <1>8 DEF CodeNext

LEMMA CodeStart == CodeInit => CodeInv
<1> SUFFICES ASSUME CodeInit PROVE CodeInv
  OBVIOUS
<1>1. /\ backups = [s \in BackupNames |-> <<>>] /\ replaced = [p \in Paths |-> Gone]
      /\ second = 1 /\ DOMAIN text = Paths
      /\ job = [j \in Jobs |-> [pc |-> "idle", action |-> "none", path |-> Generator]]
  BY DEF CodeInit, BackupNames
<1>2. Generator \in Paths
  BY FilesAssumption DEF Paths
<1>3. DOMAIN <<>> = {}
  OBVIOUS
<1>4. CodeTypes
  BY <1>1, <1>2, <1>3 DEF CodeTypes
<1>5. BackupsArePast
  BY <1>1, <1>3 DEF BackupsArePast
<1>6. LastReplacedIsRestorable
  BY <1>1 DEF LastReplacedIsRestorable
<1> QED
  BY <1>4, <1>5, <1>6 DEF CodeInv

(* While the clock only went forward, the newest backup of a file whose    *)
(* backup name no other file has is the text that was replaced last,       *)
(* whatever requests were interleaved, fell into one second and were       *)
(* rotated away (code_agent/agent.py, _backup, rollback): for all files,   *)
(* backup names and numbers of backups kept.                               *)
THEOREM LastReplacedIsRestorableCorrect == CodeSpec => []LastReplacedIsRestorable
<1>1. CodeInv => LastReplacedIsRestorable
  BY DEF CodeInv
<1> QED
  BY <1>1, CodeStart, CodeStep, PTL DEF CodeSpec

(* The rotation keeps at most KeptBackups: every one that is kept has less *)
(* than so many after it, the first of them included.                      *)
LEMMA RotateBounds ==
  ASSUME NEW n \in Nat, NEW S \in SUBSET (1 .. n)
  PROVE  /\ Rotate(S) \in SUBSET S /\ Cardinality(Rotate(S)) \in Nat
         /\ Cardinality(Rotate(S)) <= KeptBackups
<1> DEFINE T == Rotate(S)
           later(s) == {r \in S : r > s}
<1>1. IsFiniteSet(S) /\ KeptBackups \in Nat \ {0}
  <2>1. IsFiniteSet(1 .. n)
    BY FS_Interval
  <2> QED
    BY <2>1, FS_Subset, BackupsAssumption
<1>2. T \in SUBSET S /\ \A s \in T : Cardinality(later(s)) < KeptBackups
  BY DEF Rotate
<1> HIDE DEF T
<1>3. IsFiniteSet(T) /\ Cardinality(T) \in Nat
  BY <1>1, <1>2, FS_Subset, FS_CardinalityType
<1>4. CASE T = {}
  BY <1>1, <1>2, <1>4, FS_EmptySet DEF T
<1>5. CASE T # {}
  <2>1. PICK m \in T : \A s \in T : m <= s
    BY <1>2, <1>5, LeastOf
  <2>2. T \ {m} \subseteq later(m)
    <3> SUFFICES ASSUME NEW s \in T, s # m PROVE s \in later(m)
      OBVIOUS
    <3>1. m <= s /\ m \in 1 .. n /\ s \in 1 .. n
      BY <1>2, <2>1
    <3> QED
      BY <1>2, <3>1
  <2>3. IsFiniteSet(later(m)) /\ Cardinality(later(m)) \in Nat
    <3>1. later(m) \subseteq S
      OBVIOUS
    <3> HIDE DEF later
    <3> QED
      BY <1>1, <3>1, FS_Subset, FS_CardinalityType
  <2>4. Cardinality(later(m)) < KeptBackups
    BY <1>2
  <2> HIDE DEF later
  <2>5. Cardinality(T \ {m}) <= Cardinality(later(m))
    BY <2>2, <2>3, FS_Subset
  <2>6. Cardinality(T \ {m}) = Cardinality(T) - 1
    BY <1>3, <2>1, FS_RemoveElement
  <2> QED
    BY <1>1, <1>2, <1>3, <2>3, <2>4, <2>5, <2>6 DEF T
<1> QED
  BY <1>4, <1>5

Editions == 0 .. MaxVersions
Seconds == 1 .. MaxSeconds

(* One name's backups: a text for each of a few seconds.                   *)
Copies(saves) ==
  /\ DOMAIN saves \in SUBSET Seconds /\ saves \in [DOMAIN saves -> Editions]
  /\ Cardinality(DOMAIN saves) <= KeptBackups

FileTypes ==
  /\ text \in [Paths -> Editions] /\ second \in Seconds /\ versions \in Editions
  /\ fresh \in SUBSET Drafts
  /\ \A n \in BackupNames : Copies(backups[n])

LEMMA BoundsAre ==
  /\ MaxVersions \in Nat \ {0} /\ MaxSeconds \in Nat \ {0} /\ KeptBackups \in Nat \ {0}
  /\ 0 \in Editions /\ 1 \in Editions /\ 1 \in Seconds
BY BackupsAssumption DEF Editions, Seconds

(* The newest of the backups of a name is one of them.                     *)
LEMMA NewestIsHeld ==
  ASSUME NEW saves, Copies(saves), saves # <<>>
  PROVE  saves[Max(DOMAIN saves)] \in Editions
<1>1. DOMAIN saves # {}
  <2> SUFFICES ASSUME DOMAIN saves = {} PROVE FALSE
    OBVIOUS
  <2>1. saves = [s \in {} |-> 0]
    BY DEF Copies
  <2>2. <<>> = [s \in {} |-> 0]
    OBVIOUS
  <2> QED
    BY <2>1, <2>2
<1>2. DOMAIN saves \in SUBSET (1 .. MaxSeconds) /\ MaxSeconds \in Nat
  BY BoundsAre DEF Copies, Seconds
<1>3. PICK m \in DOMAIN saves : \A s \in DOMAIN saves : s <= m
  BY <1>1, <1>2, GreatestOf
<1>4. Max(DOMAIN saves) = m
  <2>1. DOMAIN saves \in SUBSET Nat
    BY <1>2
  <2> QED
    BY <1>3, <2>1, NewestIs
<1> QED
  BY <1>3, <1>4 DEF Copies

LEMMA BackupKeepsCopies ==
  ASSUME CodeTypes, FileTypes, NEW p \in Paths
  PROVE  \A n \in BackupNames : Copies(Backup(p)[n])
<1> DEFINE old == backups[Stems[p]]
           all == DOMAIN old \cup {second}
           kept == Rotate(all)
           new == [s \in kept |-> IF s = second THEN text[p] ELSE old[s]]
<1>0. /\ Stems[p] \in BackupNames /\ DOMAIN backups = BackupNames /\ Copies(old)
      /\ second \in Seconds /\ text[p] \in Editions
  BY DEF CodeTypes, FileTypes, BackupNames
<1>1. all \in SUBSET (1 .. MaxSeconds) /\ MaxSeconds \in Nat
  BY <1>0, BoundsAre DEF Copies, Seconds
<1>2. kept \in SUBSET all /\ Cardinality(kept) <= KeptBackups
  <2> HIDE DEF all
  <2> QED
    BY <1>1, RotateBounds
<1>3. Backup(p) = [backups EXCEPT ![Stems[p]] = new]
  BY DEF Backup
<1> HIDE DEF kept
<1>4. Copies(new)
  <2>1. DOMAIN new = kept /\ kept \in SUBSET Seconds
    BY <1>1, <1>2 DEF Seconds
  <2>2. \A s \in kept : new[s] \in Editions
    <3>1. \A s \in kept : s = second \/ s \in DOMAIN old
      BY <1>2
    <3>2. \A s \in DOMAIN old : old[s] \in Editions
      BY <1>0 DEF Copies
    <3> QED
      BY <1>0, <3>1, <3>2
  <2>3. new \in [kept -> Editions]
    BY <2>2
  <2> HIDE DEF new
  <2> QED
    BY <1>2, <2>1, <2>3 DEF Copies
<1> HIDE DEF new
<1>5. Backup(p)[Stems[p]] = new /\ \A n \in BackupNames \ {Stems[p]} : Backup(p)[n] = backups[n]
  BY <1>0, <1>3
<1> QED
  BY <1>4, <1>5 DEF FileTypes

LEMMA FilesStart == CodeInit => FileTypes
<1> SUFFICES ASSUME CodeInit PROVE FileTypes
  OBVIOUS
<1>1. text \in [Paths -> Editions]
  BY BoundsAre DEF CodeInit, Gone
<1>2. \A n \in BackupNames : backups[n] = <<>>
  BY DEF CodeInit, BackupNames
<1>3. Copies(<<>>)
  <2>1. DOMAIN <<>> = {} /\ <<>> \in [{} -> Editions]
    OBVIOUS
  <2>2. Cardinality({}) = 0 /\ 0 <= KeptBackups
    BY FS_EmptySet, BoundsAre
  <2> QED
    BY <2>1, <2>2 DEF Copies
<1>4. second \in Seconds /\ versions \in Editions /\ fresh \in SUBSET Drafts
  BY BoundsAre, FilesAssumption DEF CodeInit
<1> QED
  BY <1>1, <1>2, <1>3, <1>4 DEF FileTypes

LEMMA FilesStep == CodeInv /\ FileTypes /\ [CodeNext]_codeVars => FileTypes'
<1> SUFFICES ASSUME CodeInv, FileTypes, [CodeNext]_codeVars PROVE FileTypes'
  OBVIOUS
<1>0. /\ CodeTypes /\ \A j \in Jobs : job[j].path \in Paths
      /\ text \in [Paths -> Editions] /\ second \in Seconds /\ versions \in Editions
      /\ fresh \in SUBSET Drafts /\ \A n \in BackupNames : Copies(backups[n])
  BY DEF CodeInv, CodeTypes, FileTypes
<1>1. ASSUME UNCHANGED CodeFiles, second' \in Seconds PROVE FileTypes'
  BY <1>0, <1>1 DEF CodeFiles, FileTypes
<1>2. ASSUME NEW j \in Jobs, Demand(j) \/ Glance(j) \/ AnswerLLM(j) \/ Review(j) \/ Audit(j) \/ Sandbox(j)
      PROVE  FileTypes'
  BY <1>0, <1>1, <1>2, Zenon DEF Demand, Glance, AnswerLLM, Review, Audit, Sandbox, CodeClock
<1>3. ASSUME NEW j \in Jobs, Rollback(j) PROVE FileTypes'
  <2>1. PICK p \in Sources :
          IF backups[Stems[p]] = <<>> THEN UNCHANGED text
          ELSE text' = [text EXCEPT ![p] = backups[Stems[p]][Max(DOMAIN backups[Stems[p]])]]
    BY <1>3 DEF Rollback
  <2>2. Stems[p] \in BackupNames /\ p \in Paths
    BY DEF BackupNames, Paths
  <2> DEFINE old == backups[Stems[p]]
             new == old[Max(DOMAIN old)]
  <2>3. old # <<>> => new \in Editions
    <3> HIDE DEF old
    <3>1. Copies(old)
      BY <1>0, <2>2 DEF old
    <3> QED
      BY <3>1, NewestIsHeld
  <2>4. text' = text \/ (old # <<>> /\ text' = [text EXCEPT ![p] = new])
    BY <2>1
  <2> HIDE DEF old, new
  <2>5. text' \in [Paths -> Editions]
    BY <1>0, <2>3, <2>4
  <2> QED
    BY <1>0, <1>3, <2>5 DEF Rollback, CodeClock, FileTypes
<1>4. ASSUME NEW j \in Jobs, CheckSyntax(j) PROVE FileTypes'
  <2>1. second' \in Seconds
    BY <1>0, <1>4 DEF CheckSyntax, CodeClock
  <2>2. CASE UNCHANGED CodeFiles
    BY <1>1, <2>1, <2>2
  <2>3. CASE Overwrite(job[j].path)
    <3> DEFINE p == job[j].path
    <3>1. p \in Paths
      BY <1>0
    <3> HIDE DEF p
    <3>2. versions' \in Editions
      BY <1>0, <2>3, BoundsAre DEF Overwrite, Editions
    <3>3. text' \in [Paths -> Editions] /\ fresh' \in SUBSET Drafts
      BY <1>0, <2>3, <3>1, <3>2 DEF Overwrite, p
    <3>4. \A n \in BackupNames : Copies(backups'[n])
      <4>1. backups' = backups \/ backups' = Backup(p)
        BY <2>3 DEF Overwrite, p
      <4> QED
        BY <1>0, <3>1, <4>1, BackupKeepsCopies
    <3> QED
      BY <2>1, <3>2, <3>3, <3>4 DEF FileTypes
  <2> QED
    BY <1>4, <2>2, <2>3 DEF CheckSyntax
<1>5. CASE SecondPasses
  <2>1. second' \in Seconds
    BY <1>0, <1>5, BoundsAre DEF SecondPasses, Seconds
  <2> QED
    BY <1>1, <1>5, <2>1 DEF SecondPasses
<1>6. CASE SetBack
  BY <1>1, <1>6, BoundsAre DEF SetBack
<1>7. CASE WeekPasses
  BY <1>0, <1>7 DEF WeekPasses, CodeClock, FileTypes
<1>8. CASE CleanWorkspace
  <2>1. text' \in [Paths -> Editions]
    BY <1>0, <1>8, BoundsAre DEF CleanWorkspace, Gone
  <2> QED
    BY <1>0, <1>8, <2>1 DEF CleanWorkspace, CodeClock, FileTypes
<1>9. CASE GenerateReadme
  BY <1>0, <1>1, <1>9 DEF GenerateReadme
<1>10. CASE UNCHANGED codeVars
  BY <1>0, <1>1, <1>10 DEF codeVars, CodeFiles
<1> QED
  BY <1>2, <1>3, <1>4, <1>5, <1>6, <1>7, <1>8, <1>9, <1>10 DEF CodeNext

(* No name ever has more than KeptBackups backups, with the clock set back *)
(* or not, and a rollback only brings back a text that was once written    *)
(* (code_agent/agent.py, _backup, rollback): for all files and bounds.     *)
THEOREM CodeTypeCorrect == CodeSpec => []CodeTypeOK
<1>1. CodeInv /\ FileTypes => CodeTypeOK
  BY DEF CodeInv, CodeTypes, FileTypes, Copies, Editions, Seconds, CodeTypeOK
<1> QED
  BY <1>1, FilesStart, FilesStep, CodeStart, CodeStep, PTL DEF CodeSpec
-----------------------------------------------------------------------------
(* The parts side by side (MCService).                                     *)

(* A step of the process is a step of one part, or of none.                *)
LEMMA SideBySide ==
  ASSUME [Next]_serviceVars
  PROVE  /\ focus' = focus
         /\ [WatchdogNext]_watchdogVars
         /\ [LifecycleNext]_lifecycleVars
         /\ [AnomalyNext]_anomalyVars
         /\ [RequestNext]_requestVars
         /\ [BuildNext]_buildVars
         /\ [GatewayNext]_gatewayVars
         /\ [CodeNext]_codeVars
         /\ [PersonaNext]_personaVars
         /\ [HomeNext]_homeVars
         /\ [LLMNext]_llmVars
         /\ [RuntimeNext]_runtimeVars
<1>1. CASE UNCHANGED serviceVars
  BY <1>1 DEF serviceVars
<1>2. CASE focus = "watchdog" /\ WatchdogNext
            /\ UNCHANGED <<focus, lifecycleVars, anomalyVars, requestVars, buildVars,
                          gatewayVars, codeVars, personaVars, homeVars, llmVars,
                          runtimeVars>>
  BY <1>2
<1>3. CASE focus = "host" /\ LifecycleNext
            /\ UNCHANGED <<focus, watchdogVars, anomalyVars, requestVars, buildVars,
                          gatewayVars, codeVars, personaVars, homeVars, llmVars,
                          runtimeVars>>
  BY <1>3
<1>4. CASE focus = "anomalies" /\ AnomalyNext
            /\ UNCHANGED <<focus, watchdogVars, lifecycleVars, requestVars, buildVars,
                          gatewayVars, codeVars, personaVars, homeVars, llmVars,
                          runtimeVars>>
  BY <1>4
<1>5. CASE focus = "requests" /\ RequestNext
            /\ UNCHANGED <<focus, watchdogVars, lifecycleVars, anomalyVars, buildVars,
                          gatewayVars, codeVars, personaVars, homeVars, llmVars,
                          runtimeVars>>
  BY <1>5
<1>6. CASE focus = "builds" /\ BuildNext
            /\ UNCHANGED <<focus, watchdogVars, lifecycleVars, anomalyVars, requestVars,
                          gatewayVars, codeVars, personaVars, homeVars, llmVars,
                          runtimeVars>>
  BY <1>6
<1>7. CASE focus = "gateway" /\ GatewayNext
            /\ UNCHANGED <<focus, watchdogVars, lifecycleVars, anomalyVars, requestVars,
                          buildVars, codeVars, personaVars, homeVars, llmVars, runtimeVars>>
  BY <1>7
<1>8. CASE focus = "code" /\ CodeNext
            /\ UNCHANGED <<focus, watchdogVars, lifecycleVars, anomalyVars, requestVars,
                          buildVars, gatewayVars, personaVars, homeVars, llmVars,
                          runtimeVars>>
  BY <1>8
<1>9. CASE focus = "persona" /\ PersonaNext
            /\ UNCHANGED <<focus, watchdogVars, lifecycleVars, anomalyVars, requestVars,
                          buildVars, gatewayVars, codeVars, homeVars, llmVars, runtimeVars>>
  BY <1>9
<1>10. CASE focus = "home" /\ HomeNext
            /\ UNCHANGED <<focus, watchdogVars, lifecycleVars, anomalyVars, requestVars,
                          buildVars, gatewayVars, codeVars, personaVars, llmVars,
                          runtimeVars>>
  BY <1>10
<1>11. CASE focus = "llm" /\ LLMNext
            /\ UNCHANGED <<focus, watchdogVars, lifecycleVars, anomalyVars, requestVars,
                          buildVars, gatewayVars, codeVars, personaVars, homeVars,
                          runtimeVars>>
  BY <1>11
<1>12. CASE focus = "runtime" /\ RuntimeNext
            /\ UNCHANGED <<focus, watchdogVars, lifecycleVars, anomalyVars, requestVars,
                          buildVars, gatewayVars, codeVars, personaVars, homeVars, llmVars>>
  BY <1>12
<1> QED
  BY <1>1, <1>2, <1>3, <1>4, <1>5, <1>6, <1>7, <1>8, <1>9, <1>10, <1>11, <1>12 DEF Next

(* The process is all of its parts, each as its own specification has it:  *)
(* what holds of one of them holds of the server.                          *)
THEOREM ServiceIsItsParts ==
  Spec => /\ WatchdogSpec /\ LifecycleSpec /\ AnomalySpec /\ RequestSpec
          /\ BuildSpec /\ GatewaySpec
          /\ CodeSpec /\ PersonaSpec /\ HomeSpec /\ LLMSpec /\ RuntimeSpec
<1>1. Init => /\ WatchdogInit /\ LifecycleInit /\ AnomalyInit /\ RequestInit
              /\ BuildInit /\ GatewayInit
              /\ CodeInit /\ PersonaInit /\ HomeInit /\ LLMInit /\ RuntimeInit
  BY DEF Init
<1>2. [Next]_serviceVars => /\ [WatchdogNext]_watchdogVars
                            /\ [LifecycleNext]_lifecycleVars
                            /\ [AnomalyNext]_anomalyVars
                            /\ [RequestNext]_requestVars
                            /\ [BuildNext]_buildVars
                            /\ [GatewayNext]_gatewayVars
                            /\ [CodeNext]_codeVars
                            /\ [PersonaNext]_personaVars
                            /\ [HomeNext]_homeVars
                            /\ [LLMNext]_llmVars
                            /\ [RuntimeNext]_runtimeVars
  BY SideBySide
<1> QED
  BY <1>1, <1>2, PTL
  DEF Spec, WatchdogSpec, LifecycleSpec, AnomalySpec, RequestSpec, BuildSpec,
      GatewaySpec, CodeSpec, PersonaSpec, HomeSpec, LLMSpec, RuntimeSpec

(* All that the server keeps, counts and says of its parts stays what it   *)
(* may be, whichever of them moves: for all the values of their constants. *)
THEOREM ServiceTypeCorrect == Spec => []TypeOK
<1> DEFINE Moving ==
             focus \in {"watchdog", "host", "anomalies", "requests", "builds", "gateway",
                       "code", "persona", "home", "llm", "runtime"}
<1>1. Init => Moving
  BY DEF Init
<1>2. Moving /\ [Next]_serviceVars => Moving'
  BY SideBySide
<1>3. Moving
      /\ WatchdogTypeOK /\ HostLifecycleTypeOK /\ AnomalyTypeOK /\ RequestTypeOK
      /\ BuildTypeOK /\ GatewayTypeOK /\ CodeTypeOK /\ PersonaTypeOK /\ HomeTypeOK
      /\ LLMTypeOK /\ RuntimeTypeOK
      => TypeOK
  BY Zenon DEF TypeOK
<1> HIDE DEF Moving
<1>4. Spec => []Moving
  BY <1>1, <1>2, PTL DEF Spec
<1> QED
  BY <1>3, <1>4, ServiceIsItsParts, WatchdogTypeCorrect, LifecycleTypeCorrect,
     AnomalyTypeCorrect, RequestTypeCorrect, BuildTypeCorrect, GatewayTypeCorrect,
     CodeTypeCorrect, PersonaTypeCorrect, HomeTypeCorrect, LLMTypeCorrect,
     RuntimeTypeCorrect, PTL

(* What each part keeps holds of the server, in which they run together:   *)
(* the histories of Home Assistant and the watchdog and the promise of     *)
(* Conversation included.                                                  *)
THEOREM ServiceCorrect ==
  Spec => /\ [](/\ NothingLeftRunning /\ CascadesPartition /\ MemoryOfAnswers
                /\ GaugeSettles /\ ToldInOrder /\ RegisteredIsTested /\ CreatedHasProof
                /\ ToldSessionsLast /\ LastReplacedIsRestorable /\ HistoryExplainsState
                /\ OneAnswer /\ RunsAreCounted)
          /\ ConfirmedByRequest /\ OutageKeepsCache /\ ImplementsConversation
BY ServiceIsItsParts, NothingLeftRunningCorrect, CascadesPartitionCorrect,
   MemoryOfAnswersCorrect, GaugeSettlesCorrect, ToldInOrderCorrect,
   RegisteredIsTestedCorrect, CreatedHasProofCorrect, ToldSessionsLastCorrect,
   LastReplacedIsRestorableCorrect, HistoryExplainsStateCorrect, OneAnswerCorrect,
   RunsAreCountedCorrect, ConfirmedByRequestCorrect, OutageKeepsCacheCorrect,
   ConversationCorrect, PTL
=============================================================================
