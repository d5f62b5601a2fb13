--------------------------- MODULE MqttTask_proofs ---------------------------
(***************************************************************************)
(* Proofs about MqttTask for every number of inspections, every length of  *)
(* the queues and of the agent's pool and every number of failures: no     *)
(* inspection is handed over twice, none is lost from the queues while the *)
(* flash works, the RAM queue keeps its order, every subscription finds a  *)
(* free entry, and the agent under mqtt_task keeps what MqttAgent_proofs   *)
(* shows of it under callers that make it anew only when it is quiet,      *)
(* although mqtt_task does so while an old agent may still be running.     *)
(***************************************************************************)
EXTENDS MqttTask, MqttAgent_proofs

-----------------------------------------------------------------------------
(* The inductive invariant.                                                *)

(* The variables of mqtt_task; the queues hold messages. *)
TaskTypes ==
  /\ pc \in Waits \cup {"wifi_check", "mqtt_start", "start", "reopen", "run", "subscribe",
                        "status", "flush", "service"}
  /\ parts \in Seq(Messages)
  /\ ramq \in Seq(Messages) /\ Len(ramq) <= RamLen
  /\ stored \in Seq(Messages)
  /\ topics \in Seq(Filters)
  /\ ready \in BOOLEAN
  /\ online \in BOOLEAN
  /\ wifi \in BOOLEAN

(* Every inspection is in one place: still to be made, in RAM, in flash or *)
(* handed over.                                                            *)
OnePlace ==
  /\ Unique(parts) /\ Unique(ramq) /\ Unique(stored) /\ Unique(accepted)
  /\ Contents(parts) \cap Contents(ramq) = {}
  /\ Contents(parts) \cap Contents(stored) = {}
  /\ Contents(parts) \cap Contents(accepted) = {}
  /\ Contents(ramq) \cap Contents(stored) = {}
  /\ Contents(ramq) \cap Contents(accepted) = {}
  /\ Contents(stored) \cap Contents(accepted) = {}

(* mqtt_task makes its calls whole, waits for a stop at one place only,    *)
(* and makes the agent anew when no command is being executed.             *)
CallsWhole ==
  /\ \A c \in Clients : held[c] = 0
  /\ waiting # 0 => pc = "stop"
  /\ pc \in {"mqtt_start", "start"} => running = 0

AgentPart == IInv /\ CallsWhole
TaskInv == AgentPart /\ TaskTypes /\ OnePlace

LEMMA MeType == Me \in Clients
BY OneCallerAssumption DEF Me

LEMMA InitTaskInv == Init => TaskInv
<1> SUFFICES ASSUME Init PROVE TaskInv
  OBVIOUS
<1>1. AgentPart
  <2>1. IInv
    BY InitInv DEF Init
  <2>2. CallsWhole
    BY DEF Init, AgentInit, CallsWhole
  <2> QED
    BY <2>1, <2>2 DEF AgentPart
<1>2. TaskTypes
  <2>1. ramq = <<>> /\ ramq \in Seq(Messages) /\ Len(ramq) <= RamLen
    BY TaskAssumption DEF Init
  <2>2. topics = <<>> /\ topics \in Seq(Filters)
    BY DEF Init
  <2>3. parts \in Seq(Messages) /\ stored \in Seq(Messages)
    BY TaskAssumption DEF Init
  <2> QED
    BY <2>1, <2>2, <2>3 DEF Init, TaskTypes
<1>3. OnePlace
  <2>1. /\ parts = Parts /\ stored = Backlog /\ ramq = <<>> /\ accepted = <<>>
    BY DEF Init, AgentInit
  <2>2. /\ Parts \in Seq(Messages) /\ Backlog \in Seq(Messages)
    BY TaskAssumption
  <2> DEFINE all == Parts \o Backlog
  <2>3. /\ DOMAIN Parts = 1 .. Len(Parts) /\ DOMAIN Backlog = 1 .. Len(Backlog)
        /\ Len(Parts) \in Nat /\ Len(Backlog) \in Nat
        /\ DOMAIN all = 1 .. Len(Parts) + Len(Backlog)
        /\ \A i \in 1 .. Len(Parts) : all[i] = Parts[i]
        /\ \A i \in 1 .. Len(Backlog) : all[Len(Parts) + i] = Backlog[i]
    BY <2>2, ConcatProperties
  <2>4. \A i, j \in DOMAIN all : all[i] = all[j] => i = j
    BY OnceAssumption
  <2> HIDE DEF all
  <2>5. Unique(Parts)
    BY <2>3, <2>4 DEF Unique
  <2>6. Unique(Backlog)
    <3>1. SUFFICES ASSUME NEW i \in 1 .. Len(Backlog), NEW j \in 1 .. Len(Backlog),
                          Backlog[i] = Backlog[j]
                   PROVE  i = j
      BY <2>3 DEF Unique
    <3>2. /\ Len(Parts) + i \in DOMAIN all /\ Len(Parts) + j \in DOMAIN all
          /\ all[Len(Parts) + i] = all[Len(Parts) + j]
      BY <2>3, <3>1
    <3>3. Len(Parts) + i = Len(Parts) + j
      BY <2>4, <3>2
    <3> QED
      BY <2>3, <3>3
  <2>7. Contents(Parts) \cap Contents(Backlog) = {}
    <3>1. SUFFICES ASSUME NEW i \in 1 .. Len(Parts), NEW j \in 1 .. Len(Backlog),
                          Parts[i] = Backlog[j]
                   PROVE  FALSE
      BY <2>3 DEF Contents
    <3>2. /\ i \in DOMAIN all /\ Len(Parts) + j \in DOMAIN all
          /\ all[i] = all[Len(Parts) + j] /\ i # Len(Parts) + j
      BY <2>3, <3>1
    <3> QED
      BY <2>4, <3>2
  <2> QED
    BY <2>1, <2>5, <2>6, <2>7, EmptyUnique DEF OnePlace
<1> QED
  BY <1>1, <1>2, <1>3 DEF TaskInv

-----------------------------------------------------------------------------
(* The agent under mqtt_task.                                              *)

(* A call from pool_alloc to xQueueSend, with nobody else in between. *)
LEMMA EnqueueOwned ==
  ASSUME IInv, NEW cmd \in Command, Enqueue(cmd), UNCHANGED <<running, held>>
  PROVE  /\ Owned'
         /\ pool' \in [Slots -> Command \cup {Free}]
         /\ cmdQueue' \in Seq(Slots)
<1>1. PICK s \in Slots : /\ LowestFree(s)
                         /\ pool' = [pool EXCEPT ![s] = cmd]
                         /\ cmdQueue' = Append(cmdQueue, s)
  BY DEF Enqueue, Enqueued
<1>2. /\ pool \in [Slots -> Command \cup {Free}] /\ cmdQueue \in Seq(Slots)
  BY DEF IInv, AgentTypeOK
<1>3. /\ s \notin Contents(cmdQueue) /\ s # running /\ \A d \in Clients : held[d] # s
  BY <1>1 DEF IInv, Owned, LowestFree
<1>4. /\ cmdQueue' \in Seq(Slots) /\ Unique(cmdQueue')
      /\ Contents(cmdQueue') = Contents(cmdQueue) \cup {s}
  BY <1>1, <1>2, <1>3, AppendUnique DEF IInv, Owned
<1>5. /\ pool' \in [Slots -> Command \cup {Free}] /\ pool'[s] # Free
      /\ \A t \in Slots : t # s => pool'[t] = pool[t]
  BY <1>1, <1>2, CommandType
<1>6. \A t \in Slots : pool'[t] = Free <=> /\ t \notin Contents(cmdQueue')
                                           /\ t # running
                                           /\ \A d \in Clients : held[d] # t
  <2>1. \A t \in Slots : pool[t] = Free <=> /\ t \notin Contents(cmdQueue)
                                            /\ t # running
                                            /\ \A d \in Clients : held[d] # t
    BY DEF IInv, Owned, IsFree
  <2> QED
    BY <1>3, <1>4, <1>5, <2>1
<1>7. Owned'
  BY <1>3, <1>4, <1>6 DEF IInv, Owned, IsFree
<1> QED
  BY <1>4, <1>5, <1>7

LEMMA EnqueueInv ==
  ASSUME IInv, NEW cmd \in Command, Enqueue(cmd),
         UNCHANGED <<agentVars, subs, connSem, netVars, held>>,
         accepted' \in Seq(Messages), spoilt' \subseteq Messages,
         UNCHANGED <<waiting, given>> \/ (waiting' \in Slots /\ given' = FALSE)
  PROVE  IInv'
<1>1. UNCHANGED <<s_state, at, retry, running, count, subs, connSem, session, records, net,
                  linkClosed, broker, trouble, held>>
  BY DEF agentVars, netVars
<1>2. /\ Owned'
      /\ pool' \in [Slots -> Command \cup {Free}]
      /\ cmdQueue' \in Seq(Slots)
  BY <1>1, EnqueueOwned
<1>3. waiting' \in 0 .. QueueLen /\ given' \in BOOLEAN
  <2>1. Slots \subseteq 0 .. QueueLen
    BY DEF Slots
  <2> QED
    BY <2>1 DEF IInv, AgentTypeOK
<1>4. AgentTypeOK'
  BY <1>1, <1>2, <1>3 DEF IInv, AgentTypeOK
<1>5. Control'
  BY <1>1 DEF IInv, Control
<1> QED
  BY <1>2, <1>4, <1>5 DEF IInv

(* The steps of mqtt_task that leave the agent and its queue alone. *)
LEMMA AsideInv ==
  ASSUME IInv,
         UNCHANGED <<s_state, at, retry, pool, cmdQueue, running, count, subs, session, records,
                     linkClosed, held, waiting, given, accepted, broker>>,
         net' \in {"none", "up", "down"}, trouble' \in 0 .. MaxTrouble,
         connSem' \in BOOLEAN, spoilt' \subseteq Messages
  PROVE  IInv'
<1>1. AgentTypeOK'
  BY DEF IInv, AgentTypeOK
<1>2. Owned' /\ Control'
  BY OwnedKept DEF IInv, Control
<1> QED
  BY <1>1, <1>2 DEF IInv

LEMMA AsideKept ==
  ASSUME AgentPart,
         UNCHANGED <<s_state, at, retry, pool, cmdQueue, running, count, subs, session, records,
                     linkClosed, held, waiting, given, accepted, broker>>,
         net' \in {"none", "up", "down"}, trouble' \in 0 .. MaxTrouble,
         connSem' \in BOOLEAN, spoilt' \subseteq Messages,
         \/ UNCHANGED pc
         \/ pc # "stop" /\ pc' \notin {"mqtt_start", "start"}
         \/ pc = "mqtt_start" /\ pc' = "start"
  PROVE  AgentPart'
<1>1. IInv'
  BY AsideInv DEF AgentPart
<1>2. CallsWhole'
  BY DEF AgentPart, CallsWhole
<1> QED
  BY <1>1, <1>2 DEF AgentPart

LEMMA Types ==
  ASSUME AgentPart
  PROVE  /\ net \in {"none", "up", "down"}
         /\ trouble \in 0 .. MaxTrouble
         /\ connSem \in BOOLEAN
         /\ spoilt \subseteq Messages
         /\ accepted \in Seq(Messages)
         /\ Unlucky => trouble' \in 0 .. MaxTrouble
<1>1. trouble \in 0 .. MaxTrouble
  BY DEF AgentPart, IInv, AgentTypeOK
<1>2. Unlucky => trouble' \in 0 .. MaxTrouble
  BY <1>1, LimitsAssumption DEF Unlucky
<1> QED
  BY <1>1, <1>2 DEF AgentPart, IInv, AgentTypeOK

LEMMA ReferencedType == \A q : Referenced(q) \subseteq Messages
BY TaskAssumption DEF Referenced

LEMMA FormatType ==
  ASSUME AgentPart, NEW q, Format(q) \/ Forsake(q) PROVE spoilt' \subseteq Messages
BY Types, ReferencedType DEF Format, Forsake

(* The steps to a connection and to the agent's start. *)
LEMMA AskKept ==
  ASSUME AgentPart, TaskTypes, WifiCheck \/ WifiConnect \/ TcpFails \/ StartFails \/ Reopen,
         UNCHANGED spoilt
  PROVE  AgentPart' /\ TaskTypes'
<1>1. UNCHANGED <<s_state, at, retry, pool, cmdQueue, running, count, subs, session, records,
                  linkClosed, held, waiting, given, accepted, broker, connSem>>
  BY DEF WifiCheck, WifiConnect, TcpFails, StartFails, Reopen, agentVars, apiVars, callVars
<1>2. UNCHANGED net \/ net' = "none"
  BY DEF WifiCheck, WifiConnect, TcpFails, StartFails, Reopen, Disconnect
<1>3. UNCHANGED trouble \/ Unlucky
  BY DEF WifiCheck, WifiConnect, TcpFails, StartFails, Reopen, AskWifi
<1>4. /\ pc # "stop"
      /\ pc' \in {"tcp_connect", "wifi_connect"}
  BY DEF WifiCheck, WifiConnect, TcpFails, StartFails, Reopen, AskWifi, Goto
<1>5. AgentPart'
  BY <1>1, <1>2, <1>3, <1>4, Types, AsideKept
<1>6. /\ UNCHANGED <<parts, ramq, stored, topics, online>>
      /\ ready' \in BOOLEAN /\ wifi' \in BOOLEAN
  BY DEF WifiCheck, WifiConnect, TcpFails, StartFails, Reopen, TaskTypes
<1>7. TaskTypes'
  BY <1>4, <1>6 DEF TaskTypes, Waits
<1> QED
  BY <1>5, <1>7

LEMMA TcpOpensKept ==
  ASSUME AgentPart, TaskTypes, TcpOpens, UNCHANGED spoilt PROVE AgentPart' /\ TaskTypes'
<1>1. /\ pc = "tcp_connect" /\ pc' = "mqtt_start" /\ running = 0 /\ OpenConnection
      /\ UNCHANGED <<parts, ramq, stored, topics, ready, online, wifi>>
  BY DEF TcpOpens, Goto
<1>2. IInv'
  BY <1>1, LinkInv DEF AgentPart
<1>3. UNCHANGED <<held, waiting, running>>
  BY <1>1 DEF OpenConnection, agentVars, callVars
<1>4. CallsWhole'
  BY <1>1, <1>3 DEF AgentPart, CallsWhole
<1>5. TaskTypes'
  BY <1>1 DEF TaskTypes, Waits
<1> QED
  BY <1>2, <1>4, <1>5 DEF AgentPart

LEMMA InitAgentKept ==
  ASSUME AgentPart, TaskTypes, InitAgent, UNCHANGED spoilt PROVE AgentPart' /\ TaskTypes'
<1>1. /\ pc = "mqtt_start" /\ pc' = "start" /\ MqttAgent_Init
      /\ UNCHANGED <<parts, ramq, stored, topics, ready, online, wifi>>
  BY DEF InitAgent, Goto
<1>2. running = 0 /\ \A c \in Clients : held[c] = 0
  BY <1>1 DEF AgentPart, CallsWhole
<1>3. IInv'
  BY <1>1, <1>2, InitCallInv DEF AgentPart
<1>4. UNCHANGED <<held, waiting, running>>
  BY <1>1 DEF MqttAgent_Init, callVars
<1>5. CallsWhole'
  BY <1>1, <1>4 DEF AgentPart, CallsWhole
<1>6. TaskTypes'
  BY <1>1 DEF TaskTypes, Waits
<1> QED
  BY <1>3, <1>5, <1>6 DEF AgentPart

LEMMA StartAgentKept ==
  ASSUME AgentPart, TaskTypes, StartAgent, UNCHANGED spoilt PROVE AgentPart' /\ TaskTypes'
<1>1. /\ pc = "start" /\ pc' = "wait" /\ MqttAgent_Start /\ ready' = FALSE
      /\ UNCHANGED <<parts, ramq, stored, topics, online, wifi>>
  BY DEF StartAgent, Goto
<1>2. waiting = 0
  BY <1>1 DEF AgentPart, CallsWhole
<1>3. IInv'
  BY <1>1, <1>2, CallerWaitsInv DEF AgentPart
<1>4. UNCHANGED <<held, waiting, running>>
  BY <1>1 DEF MqttAgent_Start, callVars
<1>5. CallsWhole'
  BY <1>1, <1>2, <1>4 DEF AgentPart, CallsWhole
<1>6. TaskTypes'
  BY <1>1 DEF TaskTypes, Waits
<1> QED
  BY <1>3, <1>5, <1>6 DEF AgentPart

LEMMA StopDoneKept ==
  ASSUME AgentPart, TaskTypes, StopDone, UNCHANGED spoilt PROVE AgentPart' /\ TaskTypes'
<1>1. /\ pc = "stop" /\ pc' = "reopen" /\ (StopReturns \/ StopTimesOut)
      /\ UNCHANGED <<parts, ramq, stored, topics, ready, online, wifi>>
  BY DEF StopDone, Goto
<1>2. IInv'
  BY <1>1, CallerWaitsInv DEF AgentPart
<1>3. waiting' = 0 /\ UNCHANGED <<held, running>>
  BY <1>1 DEF StopReturns, StopTimesOut, agentVars
<1>4. CallsWhole'
  BY <1>1, <1>3 DEF AgentPart, CallsWhole
<1>5. TaskTypes'
  BY <1>1 DEF TaskTypes, Waits
<1> QED
  BY <1>2, <1>4, <1>5 DEF AgentPart

(* The steps that only look at the agent. *)
LEMMA LookKept ==
  ASSUME AgentPart, TaskTypes, WaitConnected \/ RunOn \/ Subscribed \/ Pace \/ Sleep,
         UNCHANGED spoilt
  PROVE  AgentPart' /\ TaskTypes'
<1>1. UNCHANGED <<s_state, at, retry, pool, cmdQueue, running, count, subs, session, records,
                  linkClosed, held, waiting, given, accepted, broker, net, trouble>>
  BY DEF WaitConnected, RunOn, Subscribed, Pace, Sleep, mqttVars, agentVars, netVars, callVars
<1>2. connSem' \in BOOLEAN
  BY Types DEF WaitConnected, RunOn, Subscribed, Pace, Sleep, mqttVars
<1>3. pc # "stop" /\ pc' \in {"run", "subscribe", "status", "service"}
  BY DEF WaitConnected, RunOn, Subscribed, Pace, Sleep, Goto
<1>4. AgentPart'
  BY <1>1, <1>2, <1>3, Types, AsideKept
<1>5. UNCHANGED <<parts, ramq, stored, wifi>>
  BY DEF WaitConnected, RunOn, Subscribed, Pace, Sleep
<1>6. topics' \in Seq(Filters)
  BY TaskAssumption DEF WaitConnected, RunOn, Subscribed, Pace, Sleep, TaskTypes
<1>7. ready' \in BOOLEAN /\ online' \in BOOLEAN
  BY DEF WaitConnected, RunOn, Subscribed, Pace, Sleep, TaskTypes
<1>8. TaskTypes'
  BY <1>3, <1>5, <1>6, <1>7 DEF TaskTypes, Waits
<1> QED
  BY <1>4, <1>8

(* The steps that queue a command. *)
LEMMA EnqueueKept ==
  ASSUME AgentPart, NEW cmd \in Command, Enqueue(cmd),
         UNCHANGED <<agentVars, subs, connSem, netVars, held>>,
         accepted' \in Seq(Messages), spoilt' \subseteq Messages,
         \/ UNCHANGED <<waiting, given>> /\ pc # "stop"
         \/ waiting' \in Slots /\ given' = FALSE /\ pc' = "stop",
         pc' \notin {"mqtt_start", "start"}
  PROVE  AgentPart'
<1>1. IInv'
  BY EnqueueInv DEF AgentPart
<1>2. CallsWhole'
  BY DEF AgentPart, CallsWhole
<1> QED
  BY <1>1, <1>2 DEF AgentPart

LEMMA RunStopsKept ==
  ASSUME AgentPart, TaskTypes, RunStops, UNCHANGED spoilt PROVE AgentPart' /\ TaskTypes'
<1>1. /\ pc = "run" /\ pc' \in {"stop", "reopen"} /\ online' = FALSE
      /\ UNCHANGED <<parts, ramq, stored, topics, ready, wifi>>
      /\ UNCHANGED <<agentVars, subs, connSem, netVars, held, accepted>>
  BY DEF RunStops, Goto
<1>2. TaskTypes'
  BY <1>1 DEF TaskTypes, Waits
<1>3. CASE StopNeeded /\ ~PoolFull
  <2> DEFINE cmd == [type |-> "stop", of |-> None, by |-> Me]
             s == CHOOSE t \in Slots : LowestFree(t)
  <2>1. Enqueue(cmd) /\ waiting' = s /\ given' = FALSE /\ pc' = "stop"
    BY <1>3 DEF RunStops, Goto
  <2>2. cmd \in Command
    BY MeType, CommandMade
  <2>3. s \in Slots
    BY <2>1 DEF Enqueue
  <2> HIDE DEF cmd, s
  <2> QED
    BY <1>1, <1>2, <2>1, <2>2, <2>3, Types, EnqueueKept
<1>4. CASE ~(StopNeeded /\ ~PoolFull)
  <2>1. UNCHANGED <<pool, cmdQueue, waiting, given>> /\ pc' = "reopen"
    BY <1>4 DEF RunStops, Goto
  <2>2. AgentPart'
    BY <1>1, <2>1, Types, AsideKept DEF agentVars, netVars
  <2> QED
    BY <1>2, <2>2
<1> QED
  BY <1>3, <1>4

LEMMA SubscribeKept ==
  ASSUME AgentPart, TaskTypes, Subscribe, UNCHANGED spoilt PROVE AgentPart' /\ TaskTypes'
<1> DEFINE cmd == [type |-> "subscribe", of |-> Head(topics), by |-> Me]
<1>1. /\ pc = "subscribe" /\ topics # <<>> /\ Enqueue(cmd)
      /\ topics' = Tail(topics)
      /\ UNCHANGED <<pc, parts, ramq, stored, ready, online, wifi>>
      /\ UNCHANGED <<agentVars, subs, connSem, netVars, held, waiting, given, accepted>>
  BY DEF Subscribe, callVars
<1>2. Head(topics) \in Filters /\ Tail(topics) \in Seq(Filters)
  BY <1>1, HeadTailProperties DEF TaskTypes
<1>3. cmd \in Command
  BY <1>2, MeType, CommandMade
<1> HIDE DEF cmd
<1>4. AgentPart'
  BY <1>1, <1>3, Types, EnqueueKept
<1>5. TaskTypes'
  BY <1>1, <1>2 DEF TaskTypes, Waits
<1> QED
  BY <1>4, <1>5

LEMMA StatusKept ==
  ASSUME AgentPart, TaskTypes, Status, UNCHANGED spoilt PROVE AgentPart' /\ TaskTypes'
<1> DEFINE cmd == [type |-> "status", of |-> None, by |-> Me]
<1>1. /\ pc = "status" /\ pc' \in {"flush", "sleep"}
      /\ UNCHANGED <<parts, ramq, stored, topics, ready, online, wifi>>
      /\ UNCHANGED <<agentVars, subs, connSem, netVars, held, waiting, given, accepted>>
      /\ UNCHANGED <<pool, cmdQueue>> \/ Enqueue(cmd)
  BY DEF Status, Goto, callVars
<1>2. cmd \in Command
  BY MeType, CommandMade
<1> HIDE DEF cmd
<1>3. CASE UNCHANGED <<pool, cmdQueue>>
  BY <1>1, <1>3, Types, AsideKept DEF agentVars, netVars, TaskTypes, Waits
<1>4. CASE Enqueue(cmd)
  <2>1. AgentPart'
    BY <1>1, <1>2, <1>4, Types, EnqueueKept
  <2>2. TaskTypes'
    BY <1>1 DEF TaskTypes, Waits
  <2> QED
    BY <2>1, <2>2
<1> QED
  BY <1>1, <1>3, <1>4

LEMMA PublishKept ==
  ASSUME AgentPart, NEW m \in Messages, NEW q, Publish(m), Format(q), pc # "stop",
         pc' \notin {"mqtt_start", "start"}
  PROVE  AgentPart'
<1> DEFINE cmd == [type |-> "publish", of |-> m, by |-> Me]
<1>1. /\ Enqueue(cmd) /\ accepted' = Append(accepted, m)
      /\ UNCHANGED <<agentVars, subs, connSem, netVars, held, waiting, given>>
  BY DEF Publish
<1>2. cmd \in Command
  BY MeType, CommandMade
<1> HIDE DEF cmd
<1>3. accepted' \in Seq(Messages) /\ spoilt' \subseteq Messages
  BY <1>1, Types, FormatType
<1> QED
  BY <1>1, <1>2, <1>3, EnqueueKept

(* What becomes of the queues of inspections. *)
LEMMA TailType ==
  ASSUME NEW q \in Seq(Messages), q # <<>>
  PROVE  /\ Head(q) \in Messages /\ Tail(q) \in Seq(Messages)
         /\ Len(Tail(q)) < Len(q)
         /\ Append(Tail(q), Head(q)) \in Seq(Messages)
BY HeadTailProperties

LEMMA FlushOneKept ==
  ASSUME AgentPart, TaskTypes, FlushOne PROVE AgentPart' /\ TaskTypes'
<1>1. /\ pc = "flush" /\ stored # <<>> /\ Format(Backlog) /\ Publish(Head(stored))
      /\ stored' = Tail(stored)
      /\ UNCHANGED <<pc, parts, ramq, topics, ready, online, wifi>>
  BY DEF FlushOne
<1>2. Head(stored) \in Messages /\ Tail(stored) \in Seq(Messages)
  BY <1>1, TailType DEF TaskTypes
<1>3. AgentPart'
  BY <1>1, <1>2, PublishKept
<1>4. TaskTypes'
  BY <1>1, <1>2 DEF TaskTypes, Waits
<1> QED
  BY <1>3, <1>4

LEMMA ServiceOneKept ==
  ASSUME AgentPart, TaskTypes, ServiceOne PROVE AgentPart' /\ TaskTypes'
<1>1. /\ pc = "service" /\ ramq # <<>> /\ Format(Parts) /\ Publish(Head(ramq))
      /\ ramq' = Tail(ramq) /\ pc' = "pace"
      /\ UNCHANGED <<parts, stored, topics, ready, online, wifi>>
  BY DEF ServiceOne, inspection_queue_receive, Goto
<1>2. Head(ramq) \in Messages /\ Tail(ramq) \in Seq(Messages) /\ Len(Tail(ramq)) < Len(ramq)
  BY <1>1, TailType DEF TaskTypes
<1>3. AgentPart'
  BY <1>1, <1>2, PublishKept
<1>4. Len(ramq') <= RamLen
  BY <1>1, <1>2, TaskAssumption DEF TaskTypes
<1>5. TaskTypes'
  BY <1>1, <1>2, <1>4 DEF TaskTypes, Waits
<1> QED
  BY <1>3, <1>5

LEMMA FlushEndsKept ==
  ASSUME AgentPart, TaskTypes, FlushEnds PROVE AgentPart' /\ TaskTypes'
<1>1. /\ pc = "flush" /\ pc' = "service"
      /\ UNCHANGED <<parts, ramq, topics, ready, online, wifi, agentVars, apiVars, session,
                     records, net, linkClosed, broker, held, waiting, given, accepted>>
  BY DEF FlushEnds, Goto
<1>2. UNCHANGED trouble \/ Unlucky
  BY DEF FlushEnds, StoredAgain
<1>3. spoilt' \subseteq Messages
  BY FormatType DEF FlushEnds
<1>4. AgentPart'
  BY <1>1, <1>2, <1>3, Types, AsideKept DEF agentVars, apiVars
<1>5. \/ UNCHANGED stored
      \/ stored # <<>> /\ stored' \in {Tail(stored), Append(Tail(stored), Head(stored))}
  BY DEF FlushEnds, StoredAgain
<1>6. stored' \in Seq(Messages)
  BY <1>5, TailType DEF TaskTypes
<1>7. TaskTypes'
  BY <1>1, <1>6 DEF TaskTypes, Waits
<1> QED
  BY <1>4, <1>7

LEMMA ServiceEndsKept ==
  ASSUME AgentPart, TaskTypes, DropTooLong \/ ServiceEnds PROVE AgentPart' /\ TaskTypes'
<1>1. /\ pc = "service" /\ pc' \in {"service", "sleep"}
      /\ UNCHANGED <<parts, stored, topics, ready, online, wifi>>
      /\ UNCHANGED <<s_state, at, retry, pool, cmdQueue, running, count, subs, session, records,
                     linkClosed, held, waiting, given, accepted, broker, net, trouble, connSem>>
  BY DEF DropTooLong, ServiceEnds, Goto, mqttVars, agentVars, apiVars, netVars
<1>2. spoilt' \subseteq Messages
  BY FormatType DEF DropTooLong, ServiceEnds
<1>3. AgentPart'
  BY <1>1, <1>2, Types, AsideKept
<1>4. UNCHANGED ramq \/ (ramq # <<>> /\ ramq' = Tail(ramq))
  BY DEF DropTooLong, ServiceEnds, inspection_queue_receive
<1>5. ramq' \in Seq(Messages) /\ Len(ramq') <= RamLen
  <2>1. /\ ramq \in Seq(Messages) /\ Len(ramq) <= RamLen /\ Len(ramq) \in Nat
        /\ Len(ramq') \in Nat
    BY <1>4, TailType DEF TaskTypes
  <2>2. CASE ramq # <<>> /\ ramq' = Tail(ramq)
    BY <2>1, <2>2, TailType, TaskAssumption
  <2> QED
    BY <1>4, <2>1, <2>2
<1>6. TaskTypes'
  BY <1>1, <1>5 DEF TaskTypes, Waits
<1> QED
  BY <1>3, <1>6

(* The GUI, the agent and the network. *)
LEMMA InspectKept ==
  ASSUME AgentPart, TaskTypes, Inspect PROVE AgentPart' /\ TaskTypes'
<1>1. /\ parts # <<>> /\ parts' = Tail(parts)
      /\ ramq' = IF Len(ramq) < RamLen THEN Append(ramq, Head(parts)) ELSE ramq
      /\ UNCHANGED <<pc, stored, topics, ready, online, wifi, spoilt>>
      /\ UNCHANGED <<s_state, at, retry, pool, cmdQueue, running, count, subs, session, records,
                     linkClosed, held, waiting, given, accepted, broker, net, trouble, connSem>>
  BY DEF Inspect, inspection_queue_send, mqttVars
<1>2. AgentPart'
  BY <1>1, Types, AsideKept
<1>3. /\ Head(parts) \in Messages /\ Tail(parts) \in Seq(Messages)
      /\ ramq \in Seq(Messages) /\ Len(ramq) <= RamLen
  BY <1>1, TailType DEF TaskTypes
<1>4. ramq' \in Seq(Messages) /\ Len(ramq') <= RamLen
  <2> DEFINE m == Head(parts)
  <2>1. m \in Messages
    BY <1>3
  <2>2. ramq' = ramq \/ (Len(ramq) < RamLen /\ ramq' = Append(ramq, m))
    BY <1>1
  <2> HIDE DEF m
  <2>3. /\ Append(ramq, m) \in Seq(Messages) /\ Len(Append(ramq, m)) = Len(ramq) + 1
        /\ Len(ramq) \in Nat
    BY <1>3, <2>1, AppendProperties
  <2> RamLen \in Nat
    BY TaskAssumption
  <2>4. CASE ramq' = ramq
    BY <1>3, <2>4
  <2>5. CASE Len(ramq) < RamLen /\ ramq' = Append(ramq, m)
    BY <2>3, <2>5
  <2> QED
    BY <2>2, <2>4, <2>5
<1>5. TaskTypes'
  BY <1>1, <1>3, <1>4 DEF TaskTypes, Waits
<1> QED
  BY <1>2, <1>5

LEMMA AgentKept ==
  ASSUME AgentPart, TaskTypes, Agent PROVE AgentPart' /\ TaskTypes'
<1>1. /\ AgentStep /\ pc \in Waits
      /\ UNCHANGED <<pc, parts, ramq, stored, topics, ready, online, wifi, spoilt>>
  BY DEF Agent, AgentMayRun, taskVars
<1>2. IInv'
  BY <1>1, AgentStepInv DEF AgentPart
<1>3. UNCHANGED <<held, waiting>>
  BY <1>1 DEF AgentStep, Entry, StopIfRequested, TryConnect, Connected, ConnectFails, BackoffEnds,
              Receive, DoPublish, DoSubscribe, DoStatus, DoStop, ProcessAck, ProcessIdle,
              ProcessFails, TaskEnds, callVars
<1>4. CallsWhole'
  BY <1>1, <1>3 DEF AgentPart, CallsWhole, Waits
<1>5. TaskTypes'
  BY <1>1 DEF TaskTypes, Waits
<1> QED
  BY <1>2, <1>4, <1>5 DEF AgentPart

LEMMA TroubleKept ==
  ASSUME AgentPart, TaskTypes, Trouble PROVE AgentPart' /\ TaskTypes'
<1>1. CASE (LinkDrops \/ ClosedSeen) /\ UNCHANGED taskVars
  <2>1. UNCHANGED <<pc, parts, ramq, stored, topics, ready, online, wifi, spoilt>>
    BY <1>1 DEF taskVars
  <2>2. IInv'
    BY <1>1, <2>1, LinkInv DEF AgentPart
  <2>3. UNCHANGED <<held, waiting, running>>
    BY <1>1 DEF LinkDrops, ClosedSeen, agentVars, callVars
  <2>4. CallsWhole'
    BY <2>1, <2>3 DEF AgentPart, CallsWhole
  <2>5. TaskTypes'
    BY <2>1 DEF TaskTypes, Waits
  <2> QED
    BY <2>2, <2>4, <2>5 DEF AgentPart
<1>2. CASE WifiDrops
  <2>1. /\ wifi' = FALSE /\ Unlucky
        /\ UNCHANGED <<pc, parts, ramq, stored, topics, ready, online, spoilt>>
        /\ UNCHANGED <<s_state, at, retry, pool, cmdQueue, running, count, subs, session, records,
                       linkClosed, held, waiting, given, accepted, broker, connSem>>
    BY <1>2 DEF WifiDrops, agentVars, apiVars, callVars
  <2>2. net' \in {"none", "up", "down"}
    BY <1>2, Types DEF WifiDrops
  <2>3. AgentPart'
    BY <2>1, <2>2, Types, AsideKept
  <2>4. TaskTypes'
    BY <2>1 DEF TaskTypes, Waits
  <2> QED
    BY <2>3, <2>4
<1> QED
  BY <1>1, <1>2 DEF Trouble

-----------------------------------------------------------------------------
(* Every inspection is in one place.                                       *)

LEMMA Moves ==
  ASSUME NEW q \in Seq(Messages), q # <<>>, Unique(q)
  PROVE  /\ Unique(Tail(q))
         /\ Contents(Tail(q)) = Contents(q) \ {Head(q)}
         /\ Head(q) \in Contents(q)
         /\ \A r \in Seq(Messages) :
              Unique(r) /\ Head(q) \notin Contents(r)
                => /\ Unique(Append(r, Head(q)))
                   /\ Contents(Append(r, Head(q))) = Contents(r) \cup {Head(q)}
<1>1. /\ Head(q) \in Messages /\ Head(q) \in Contents(q)
      /\ Unique(Tail(q)) /\ Contents(Tail(q)) = Contents(q) \ {Head(q)}
  BY TailUnique
<1> QED
  BY <1>1, AppendUnique

LEMMA InspectOnce == ASSUME TaskInv, Inspect PROVE OnePlace'
<1> DEFINE m == Head(parts)
<1>1. /\ parts # <<>> /\ parts' = Tail(parts)
      /\ ramq' \in {ramq, Append(ramq, m)}
      /\ UNCHANGED <<stored, accepted>>
  BY DEF Inspect, inspection_queue_send, mqttVars
<1>2. /\ parts \in Seq(Messages) /\ ramq \in Seq(Messages)
      /\ Unique(parts) /\ Unique(ramq)
  BY DEF TaskInv, TaskTypes, OnePlace
<1>3. /\ m \in Contents(parts) /\ Unique(parts') /\ Contents(parts') = Contents(parts) \ {m}
  BY <1>1, <1>2, Moves
<1>4. m \notin Contents(ramq) /\ m \notin Contents(stored) /\ m \notin Contents(accepted)
  BY <1>3 DEF TaskInv, OnePlace
<1>5. Unique(ramq') /\ Contents(ramq') \subseteq Contents(ramq) \cup {m}
  <2>1. Unique(Append(ramq, m)) /\ Contents(Append(ramq, m)) = Contents(ramq) \cup {m}
    BY <1>1, <1>2, <1>4, Moves
  <2> HIDE DEF m
  <2>2. CASE ramq' = ramq
    BY <1>2, <2>2
  <2>3. CASE ramq' = Append(ramq, m)
    BY <2>1, <2>3
  <2> QED
    BY <1>1, <2>2, <2>3
<1> HIDE DEF m
<1> QED
  BY <1>1, <1>3, <1>4, <1>5 DEF TaskInv, OnePlace

LEMMA FlushOneOnce == ASSUME TaskInv, FlushOne PROVE OnePlace'
<1> DEFINE m == Head(stored)
<1>1. /\ stored # <<>> /\ stored' = Tail(stored) /\ accepted' = Append(accepted, m)
      /\ UNCHANGED <<parts, ramq>>
  BY DEF FlushOne, Publish
<1>2. /\ stored \in Seq(Messages) /\ accepted \in Seq(Messages)
      /\ Unique(stored) /\ Unique(accepted)
  BY Types DEF TaskInv, TaskTypes, OnePlace
<1>3. /\ m \in Contents(stored) /\ Unique(stored') /\ Contents(stored') = Contents(stored) \ {m}
  BY <1>1, <1>2, Moves
<1>4. m \notin Contents(ramq) /\ m \notin Contents(parts) /\ m \notin Contents(accepted)
  BY <1>3 DEF TaskInv, OnePlace
<1>5. Unique(accepted') /\ Contents(accepted') = Contents(accepted) \cup {m}
  BY <1>1, <1>2, <1>4, Moves
<1> HIDE DEF m
<1> QED
  BY <1>1, <1>3, <1>4, <1>5 DEF TaskInv, OnePlace

LEMMA ServiceOneOnce == ASSUME TaskInv, ServiceOne PROVE OnePlace'
<1> DEFINE m == Head(ramq)
<1>1. /\ ramq # <<>> /\ ramq' = Tail(ramq) /\ accepted' = Append(accepted, m)
      /\ UNCHANGED <<parts, stored>>
  BY DEF ServiceOne, inspection_queue_receive, Publish
<1>2. /\ ramq \in Seq(Messages) /\ accepted \in Seq(Messages)
      /\ Unique(ramq) /\ Unique(accepted)
  BY Types DEF TaskInv, TaskTypes, OnePlace
<1>3. /\ m \in Contents(ramq) /\ Unique(ramq') /\ Contents(ramq') = Contents(ramq) \ {m}
  BY <1>1, <1>2, Moves
<1>4. m \notin Contents(stored) /\ m \notin Contents(parts) /\ m \notin Contents(accepted)
  BY <1>3 DEF TaskInv, OnePlace
<1>5. Unique(accepted') /\ Contents(accepted') = Contents(accepted) \cup {m}
  BY <1>1, <1>2, <1>4, Moves
<1> HIDE DEF m
<1> QED
  BY <1>1, <1>3, <1>4, <1>5 DEF TaskInv, OnePlace

(* An inspection that was taken out of flash goes back behind the others. *)
LEMMA FlushEndsOnce == ASSUME TaskInv, FlushEnds PROVE OnePlace'
<1> DEFINE m == Head(stored)
<1>1. /\ \/ UNCHANGED stored
         \/ stored # <<>> /\ stored' \in {Tail(stored), Append(Tail(stored), m)}
      /\ UNCHANGED <<parts, ramq, accepted>>
  BY DEF FlushEnds, StoredAgain
<1>2. stored \in Seq(Messages) /\ Unique(stored)
  BY DEF TaskInv, TaskTypes, OnePlace
<1>3. CASE UNCHANGED stored
  BY <1>1, <1>3 DEF TaskInv, OnePlace
<1>4. CASE stored # <<>> /\ stored' \in {Tail(stored), Append(Tail(stored), m)}
  <2>1. /\ m \in Contents(stored) /\ Unique(Tail(stored)) /\ Contents(Tail(stored)) = Contents(stored) \ {m}
        /\ Tail(stored) \in Seq(Messages)
    BY <1>2, <1>4, Moves, TailType
  <2>2. /\ Unique(Append(Tail(stored), m))
        /\ Contents(Append(Tail(stored), m)) = Contents(Tail(stored)) \cup {m}
    BY <1>2, <1>4, <2>1, Moves
  <2> HIDE DEF m
  <2>3. CASE stored' = Tail(stored)
    BY <1>1, <2>1, <2>3 DEF TaskInv, OnePlace
  <2>4. CASE stored' = Append(Tail(stored), m)
    BY <1>1, <2>1, <2>2, <2>4 DEF TaskInv, OnePlace
  <2> QED
    BY <1>4, <2>3, <2>4
<1> QED
  BY <1>1, <1>3, <1>4

LEMMA ServiceEndsOnce == ASSUME TaskInv, DropTooLong \/ ServiceEnds PROVE OnePlace'
<1>1. /\ UNCHANGED ramq \/ (ramq # <<>> /\ ramq' = Tail(ramq))
      /\ UNCHANGED <<parts, stored, accepted>>
  BY DEF DropTooLong, ServiceEnds, inspection_queue_receive, mqttVars
<1>2. ramq \in Seq(Messages) /\ Unique(ramq)
  BY DEF TaskInv, TaskTypes, OnePlace
<1>3. Unique(ramq') /\ Contents(ramq') \subseteq Contents(ramq)
  BY <1>1, <1>2, Moves
<1> QED
  BY <1>1, <1>3 DEF TaskInv, OnePlace

LEMMA SameOnce ==
  ASSUME TaskInv, UNCHANGED <<parts, ramq, stored, accepted>> PROVE OnePlace'
BY DEF TaskInv, OnePlace

(* The steps that move no inspection. *)
Moving == Inspect \/ FlushOne \/ FlushEnds \/ ServiceOne \/ DropTooLong \/ ServiceEnds

LEMMA OthersMoveNothing ==
  ASSUME [Next]_vars, ~Moving PROVE UNCHANGED <<parts, ramq, stored, accepted>>
<1>1. CASE UNCHANGED vars
  BY <1>1 DEF vars, taskVars, mqttVars
<1>2. CASE WifiCheck \/ WifiConnect \/ TcpOpens \/ TcpFails \/ InitAgent \/ StartAgent
             \/ StartFails \/ WaitConnected \/ Reopen
  BY <1>2 DEF WifiCheck, WifiConnect, TcpOpens, OpenConnection, TcpFails, InitAgent,
              MqttAgent_Init, StartAgent, MqttAgent_Start, StartFails, WaitConnected, Reopen,
              callVars
<1>3. CASE RunStops \/ StopDone \/ RunOn \/ Subscribe \/ Subscribed \/ Status \/ Pace \/ Sleep
  BY <1>3 DEF RunStops, StopDone, StopReturns, StopTimesOut, RunOn, Subscribe, Subscribed, Status,
              Pace, Sleep, callVars, mqttVars
<1>4. CASE Agent
  <2>1. UNCHANGED <<parts, ramq, stored>> /\ AgentStep
    BY <1>4 DEF Agent, taskVars
  <2>2. UNCHANGED accepted
    BY <2>1 DEF AgentStep, Entry, StopIfRequested, TryConnect, Connected, ConnectFails,
                BackoffEnds, Receive, DoPublish, DoSubscribe, DoStatus, DoStop, ProcessAck,
                ProcessIdle, ProcessFails, TaskEnds, callVars
  <2> QED
    BY <2>1, <2>2
<1>5. CASE Trouble
  BY <1>5 DEF Trouble, LinkDrops, ClosedSeen, WifiDrops, taskVars, callVars
<1> QED
  BY <1>1, <1>2, <1>3, <1>4, <1>5 DEF Next, TaskStep, Moving

LEMMA NextOnce == ASSUME TaskInv, [Next]_vars PROVE OnePlace'
<1>1. CASE Moving
  BY <1>1, InspectOnce, FlushOneOnce, FlushEndsOnce, ServiceOneOnce, ServiceEndsOnce DEF Moving
<1>2. CASE ~Moving
  BY <1>2, OthersMoveNothing, SameOnce
<1> QED
  BY <1>1, <1>2

LEMMA NextKept == ASSUME AgentPart, TaskTypes, [Next]_vars PROVE AgentPart' /\ TaskTypes'
<1>1. CASE UNCHANGED vars
  <2>1. /\ UNCHANGED <<pc, parts, ramq, stored, topics, ready, online, wifi, spoilt>>
        /\ UNCHANGED <<s_state, at, retry, pool, cmdQueue, running, count, subs, session, records,
                       linkClosed, held, waiting, given, accepted, broker, net, trouble, connSem>>
    BY <1>1 DEF vars, taskVars, mqttVars
  <2>2. AgentPart'
    BY <2>1, Types, AsideKept
  <2>3. TaskTypes'
    BY <2>1 DEF TaskTypes, Waits
  <2> QED
    BY <2>2, <2>3
<1>2. CASE TaskStep
  <2>1. CASE FlushOne \/ FlushEnds \/ ServiceOne \/ DropTooLong \/ ServiceEnds
    BY <2>1, FlushOneKept, FlushEndsKept, ServiceOneKept, ServiceEndsKept
  <2>2. CASE ~(FlushOne \/ FlushEnds \/ ServiceOne \/ DropTooLong \/ ServiceEnds)
    <3>1. /\ UNCHANGED spoilt
          /\ \/ WifiCheck \/ WifiConnect \/ TcpOpens \/ TcpFails \/ InitAgent \/ StartAgent
             \/ StartFails \/ WaitConnected \/ RunStops \/ StopDone \/ Reopen \/ RunOn
             \/ Subscribe \/ Subscribed \/ Status \/ Pace \/ Sleep
      BY <1>2, <2>2 DEF TaskStep
    <3>2. CASE WifiCheck \/ WifiConnect \/ TcpFails \/ StartFails \/ Reopen
      BY <3>1, <3>2, AskKept
    <3>3. CASE TcpOpens \/ InitAgent \/ StartAgent \/ StopDone
      BY <3>1, <3>3, TcpOpensKept, InitAgentKept, StartAgentKept, StopDoneKept
    <3>4. CASE WaitConnected \/ RunOn \/ Subscribed \/ Pace \/ Sleep
      BY <3>1, <3>4, LookKept
    <3>5. CASE RunStops \/ Subscribe \/ Status
      BY <3>1, <3>5, RunStopsKept, SubscribeKept, StatusKept
    <3> QED
      BY <3>1, <3>2, <3>3, <3>4, <3>5
  <2> QED
    BY <2>1, <2>2
<1>3. CASE Inspect \/ Agent \/ Trouble
  BY <1>3, InspectKept, AgentKept, TroubleKept
<1> QED
  BY <1>1, <1>2, <1>3 DEF Next

LEMMA TaskInvariance == Spec => []TaskInv
<1>1. ASSUME TaskInv, [Next]_vars PROVE TaskInv'
  BY <1>1, NextOnce, NextKept DEF TaskInv
<1> QED
  BY InitTaskInv, <1>1, PTL DEF Spec

-----------------------------------------------------------------------------
(* Messages leave in the order they were accepted, also under mqtt_task.   *)

LEMMA EnqueueOrder ==
  ASSUME OnceInOrder, IInv, IInv', NEW cmd \in Command, Enqueue(cmd),
         UNCHANGED <<running, broker>>,
         IF cmd.type = "publish"
         THEN accepted' = Append(accepted, cmd.of) /\ cmd.of \notin Contents(accepted)
         ELSE accepted' = accepted
  PROVE  OnceInOrder'
<1>1. PICK s \in Slots : /\ IsFree(s) /\ pool' = [pool EXCEPT ![s] = cmd]
                         /\ cmdQueue' = Append(cmdQueue, s)
  BY DEF Enqueue, LowestFree, Enqueued
<1>2. pool \in [Slots -> Command \cup {Free}]
  BY DEF IInv, AgentTypeOK
<1>3. s \notin Contents(Todo) /\ Contents(Todo) \subseteq Slots
  <2>1. s \notin Contents(cmdQueue) /\ s # running
    BY <1>1 DEF IInv, Owned
  <2>2. Todo \in Seq(Slots)
    BY TodoType DEF TodoIsBoth
  <2>3. Contents(Todo) \subseteq Slots
    BY <2>2 DEF Contents
  <2> QED
    BY <2>1, <2>3, TodoOwned
<1>4. pool'[s] = cmd /\ \A t \in Contents(Todo) : pool'[t] = pool[t]
  BY <1>1, <1>2, <1>3
<1> QED
  BY <1>1, <1>4, OrderExtended

LEMMA PublishOrder ==
  ASSUME OnceInOrder, IInv, IInv', NEW m \in Messages, m \notin Contents(accepted), Publish(m)
  PROVE  OnceInOrder'
<1> DEFINE cmd == [type |-> "publish", of |-> m, by |-> Me]
<1>1. cmd \in Command /\ cmd.type = "publish" /\ cmd.of = m
  BY MeType, CommandMade
<1>2. /\ Enqueue(cmd) /\ accepted' = Append(accepted, m)
      /\ UNCHANGED <<running, broker>>
  BY DEF Publish, agentVars, netVars
<1> HIDE DEF cmd
<1> QED
  BY <1>1, <1>2, EnqueueOrder

LEMMA OtherCommandsOrder ==
  ASSUME OnceInOrder, TaskInv, IInv', RunStops \/ Subscribe \/ Status PROVE OnceInOrder'
<1>1. IInv
  BY DEF TaskInv, AgentPart
<1>2. ASSUME NEW cmd \in Command, cmd.type # "publish", Enqueue(cmd),
             UNCHANGED <<running, broker, accepted>>
      PROVE  OnceInOrder'
  BY <1>1, <1>2, EnqueueOrder
<1>3. ASSUME UNCHANGED <<running, cmdQueue, accepted, broker, pool>> PROVE OnceInOrder'
  BY <1>1, <1>3, SameTodo
<1>4. UNCHANGED <<running, broker, accepted>>
  BY DEF RunStops, Subscribe, Status, agentVars, netVars, callVars
<1>5. CASE RunStops
  <2>1. \/ Enqueue([type |-> "stop", of |-> None, by |-> Me])
        \/ UNCHANGED <<pool, cmdQueue>>
    BY <1>5 DEF RunStops
  <2> QED
    BY <1>2, <1>3, <1>4, <2>1, MeType, CommandMade
<1>6. CASE Subscribe
  <2>1. /\ Enqueue([type |-> "subscribe", of |-> Head(topics), by |-> Me])
        /\ Head(topics) \in Filters
    BY <1>6, HeadTailProperties DEF Subscribe, TaskInv, TaskTypes
  <2> QED
    BY <1>2, <1>4, <2>1, MeType, CommandMade
<1>7. CASE Status
  <2>1. \/ Enqueue([type |-> "status", of |-> None, by |-> Me])
        \/ UNCHANGED <<pool, cmdQueue>>
    BY <1>7 DEF Status
  <2> QED
    BY <1>2, <1>3, <1>4, <2>1, MeType, CommandMade
<1> QED
  BY <1>5, <1>6, <1>7

LEMMA TaskOrder == ASSUME OnceInOrder, TaskInv, TaskInv', [Next]_vars PROVE OnceInOrder'
<1>1. IInv /\ IInv'
  BY DEF TaskInv, AgentPart
<1>2. ASSUME UNCHANGED <<running, cmdQueue, accepted, broker, pool>> PROVE OnceInOrder'
  BY <1>1, <1>2, SameTodo
<1>3. CASE UNCHANGED vars \/ Inspect
  BY <1>2, <1>3 DEF Inspect, vars, mqttVars
<1>4. CASE WifiCheck \/ WifiConnect \/ TcpFails \/ StartAgent \/ StartFails \/ WaitConnected \/ Reopen
  BY <1>2, <1>4 DEF WifiCheck, WifiConnect, TcpFails, StartAgent, MqttAgent_Start, StartFails,
                    WaitConnected, Reopen, agentVars, apiVars, netVars, callVars
<1>5. CASE StopDone \/ RunOn \/ Subscribed \/ Pace \/ Sleep
  BY <1>2, <1>5 DEF StopDone, StopReturns, StopTimesOut, RunOn, Subscribed, Pace, Sleep,
                    mqttVars, agentVars, apiVars, netVars
<1>6. CASE TcpOpens
  BY <1>1, <1>6, LinkOrder DEF TcpOpens
<1>7. CASE InitAgent
  <2>1. running' = 0 /\ cmdQueue' = <<>> /\ UNCHANGED <<accepted, broker>>
    BY <1>7 DEF InitAgent, MqttAgent_Init, callVars, TaskInv, AgentPart, CallsWhole
  <2> QED
    BY <1>1, <2>1, TodoEmptied
<1>8. CASE RunStops \/ Subscribe \/ Status
  BY <1>1, <1>8, OtherCommandsOrder
<1>9. CASE FlushOne
  <2>1. /\ stored # <<>> /\ Publish(Head(stored)) /\ stored \in Seq(Messages) /\ Unique(stored)
    BY <1>9 DEF FlushOne, TaskInv, TaskTypes, OnePlace
  <2>2. Head(stored) \in Messages /\ Head(stored) \notin Contents(accepted)
    BY <2>1, Moves, TailType DEF TaskInv, OnePlace
  <2> QED
    BY <1>1, <2>1, <2>2, PublishOrder
<1>10. CASE ServiceOne
  <2>1. /\ ramq # <<>> /\ Publish(Head(ramq)) /\ ramq \in Seq(Messages) /\ Unique(ramq)
    BY <1>10 DEF ServiceOne, TaskInv, TaskTypes, OnePlace
  <2>2. Head(ramq) \in Messages /\ Head(ramq) \notin Contents(accepted)
    BY <2>1, Moves, TailType DEF TaskInv, OnePlace
  <2> QED
    BY <1>1, <2>1, <2>2, PublishOrder
<1>11. CASE FlushEnds \/ DropTooLong \/ ServiceEnds
  BY <1>2, <1>11 DEF FlushEnds, DropTooLong, ServiceEnds, mqttVars, agentVars, apiVars, netVars
<1>12. CASE Agent
  BY <1>1, <1>12, AgentStepOrder DEF Agent
<1>13. CASE Trouble
  <2>1. CASE LinkDrops \/ ClosedSeen
    BY <1>1, <2>1, LinkOrder
  <2>2. CASE WifiDrops
    BY <1>2, <2>2 DEF WifiDrops, agentVars, apiVars, callVars
  <2> QED
    BY <1>13, <2>1, <2>2 DEF Trouble
<1> QED
  BY <1>3, <1>4, <1>5, <1>6, <1>7, <1>8, <1>9, <1>10, <1>11, <1>12, <1>13 DEF Next, TaskStep

-----------------------------------------------------------------------------
(* The inspections in RAM keep the order they were made in.                *)

(* Those handed over come before those in RAM, and these before those      *)
(* still to be made; the flash queue has others.                           *)
RamOrder ==
  /\ Contents(parts) \cup Contents(ramq) \subseteq Contents(Parts)
  /\ Contents(stored) \cap Contents(Parts) = {}
  /\ \A m, n : Precedes(m, n, parts) => Precedes(m, n, Parts)
  /\ \A m, n : Precedes(m, n, ramq) => Precedes(m, n, Parts)
  /\ \A m \in Contents(ramq), n \in Contents(parts) : Precedes(m, n, Parts)
  /\ \A m \in Contents(accepted) \cap Contents(Parts), n \in Contents(ramq) \cup Contents(parts) :
       Precedes(m, n, Parts)
  /\ \A m, n \in Contents(Parts) : Precedes(m, n, accepted) => Precedes(m, n, Parts)

LEMMA TailPrecedes ==
  ASSUME NEW q \in Seq(Messages), q # <<>>
  PROVE  /\ \A m, n : Precedes(m, n, Tail(q)) => Precedes(m, n, q)
         /\ \A n \in Contents(Tail(q)) : Precedes(Head(q), n, q)
         /\ Contents(Tail(q)) \subseteq Contents(q)
         /\ Head(q) \in Contents(q)
<1> DEFINE r == Tail(q)
<1>1. /\ Len(q) \in Nat /\ Len(q) > 0 /\ DOMAIN r = 1 .. Len(q) - 1 /\ DOMAIN q = 1 .. Len(q)
      /\ \A i \in 1 .. Len(q) - 1 : r[i] = q[i + 1]
      /\ Head(q) = q[1]
  BY HeadTailProperties
<1> HIDE DEF r
<1>2. \A i \in DOMAIN r : i + 1 \in DOMAIN q /\ r[i] = q[i + 1] /\ 1 < i + 1
  BY <1>1
<1>3. ASSUME NEW m, NEW n, Precedes(m, n, r) PROVE Precedes(m, n, q)
  <2>1. PICK i \in DOMAIN r, j \in DOMAIN r : i < j /\ r[i] = m /\ r[j] = n
    BY <1>3 DEF Precedes
  <2>2. i + 1 < j + 1
    BY <1>1, <2>1
  <2> QED
    BY <1>2, <2>1, <2>2 DEF Precedes
<1>4. ASSUME NEW n \in Contents(r) PROVE Precedes(Head(q), n, q) /\ n \in Contents(q)
  <2>1. PICK i \in DOMAIN r : r[i] = n
    BY DEF Contents
  <2>2. 1 \in DOMAIN q /\ i + 1 \in DOMAIN q /\ 1 < i + 1 /\ q[1] = Head(q) /\ q[i + 1] = n
    BY <1>1, <1>2, <2>1
  <2> QED
    BY <2>2 DEF Precedes, Contents
<1>5. Head(q) \in Contents(q)
  BY <1>1 DEF Contents
<1> QED
  BY <1>3, <1>4, <1>5 DEF r

LEMMA InitRamOrder == Init => RamOrder
<1> SUFFICES ASSUME Init PROVE RamOrder
  OBVIOUS
<1>1. parts = Parts /\ ramq = <<>> /\ stored = Backlog /\ accepted = <<>>
  BY DEF Init, AgentInit
<1>2. Contents(Parts) \cap Contents(Backlog) = {}
  BY <1>1, InitTaskInv DEF TaskInv, OnePlace
<1>3. Contents(<<>>) = {} /\ \A m, n : ~Precedes(m, n, <<>>)
  BY DEF Contents, Precedes
<1> QED
  BY <1>1, <1>2, <1>3 DEF RamOrder

LEMMA InspectRam == ASSUME RamOrder, TaskInv, Inspect PROVE RamOrder'
<1> DEFINE m == Head(parts)
<1>1. /\ parts # <<>> /\ parts' = Tail(parts)
      /\ ramq' = ramq \/ ramq' = Append(ramq, m)
      /\ UNCHANGED <<stored, accepted>>
  BY DEF Inspect, inspection_queue_send, mqttVars
<1>2. /\ parts \in Seq(Messages) /\ ramq \in Seq(Messages)
  BY DEF TaskInv, TaskTypes
<1>3. /\ m \in Contents(parts) /\ m \in Messages
      /\ Contents(parts') \subseteq Contents(parts)
      /\ \A x, y : Precedes(x, y, parts') => Precedes(x, y, parts)
      /\ \A y \in Contents(parts') : Precedes(m, y, parts)
  BY <1>1, <1>2, TailPrecedes, TailType
<1>4. /\ Contents(ramq') \subseteq Contents(ramq) \cup {m}
      /\ \A x, y : Precedes(x, y, ramq')
                     => Precedes(x, y, ramq) \/ (x \in Contents(ramq) /\ y = m)
  <2>1. /\ Contents(Append(ramq, m)) = Contents(ramq) \cup {m}
        /\ \A x, y : Precedes(x, y, Append(ramq, m))
                       <=> Precedes(x, y, ramq) \/ (x \in Contents(ramq) /\ y = m)
    <3>1. m \in Messages
      BY <1>3
    <3> HIDE DEF m
    <3> QED
      BY <1>2, <3>1, AppendPrecedes
  <2> HIDE DEF m
  <2>2. CASE ramq' = ramq
    BY <2>2
  <2>3. CASE ramq' = Append(ramq, m)
    BY <2>1, <2>3
  <2> QED
    BY <1>1, <2>2, <2>3
<1> HIDE DEF m
<1> QED
  BY <1>1, <1>3, <1>4 DEF RamOrder

LEMMA ServiceOneRam == ASSUME RamOrder, TaskInv, ServiceOne PROVE RamOrder'
<1> DEFINE m == Head(ramq)
<1>1. /\ ramq # <<>> /\ ramq' = Tail(ramq) /\ accepted' = Append(accepted, m)
      /\ UNCHANGED <<parts, stored>>
  BY DEF ServiceOne, inspection_queue_receive, Publish
<1>2. ramq \in Seq(Messages) /\ accepted \in Seq(Messages)
  BY Types DEF TaskInv, TaskTypes
<1>3. /\ m \in Contents(ramq) /\ m \in Messages
      /\ Contents(ramq') \subseteq Contents(ramq)
      /\ \A x, y : Precedes(x, y, ramq') => Precedes(x, y, ramq)
      /\ \A y \in Contents(ramq') : Precedes(m, y, ramq)
  BY <1>1, <1>2, TailPrecedes, TailType
<1>4. /\ Contents(accepted') = Contents(accepted) \cup {m}
      /\ \A x, y : Precedes(x, y, accepted')
                     <=> Precedes(x, y, accepted) \/ (x \in Contents(accepted) /\ y = m)
  BY <1>1, <1>2, <1>3, AppendPrecedes
<1> HIDE DEF m
<1>5. \A x \in Contents(accepted') \cap Contents(Parts), y \in Contents(ramq') \cup Contents(parts') :
        Precedes(x, y, Parts)
  BY <1>1, <1>3, <1>4 DEF RamOrder
<1>6. \A x, y \in Contents(Parts) : Precedes(x, y, accepted') => Precedes(x, y, Parts)
  BY <1>3, <1>4 DEF RamOrder
<1> QED
  BY <1>1, <1>3, <1>5, <1>6 DEF RamOrder

LEMMA FlushOneRam == ASSUME RamOrder, TaskInv, FlushOne PROVE RamOrder'
<1> DEFINE m == Head(stored)
<1>1. /\ stored # <<>> /\ stored' = Tail(stored) /\ accepted' = Append(accepted, m)
      /\ UNCHANGED <<parts, ramq>>
  BY DEF FlushOne, Publish
<1>2. stored \in Seq(Messages) /\ accepted \in Seq(Messages)
  BY Types DEF TaskInv, TaskTypes
<1>3. /\ m \in Contents(stored) /\ m \in Messages
      /\ Contents(stored') \subseteq Contents(stored)
  BY <1>1, <1>2, TailPrecedes, TailType
<1>4. /\ Contents(accepted') = Contents(accepted) \cup {m}
      /\ \A x, y : Precedes(x, y, accepted')
                     <=> Precedes(x, y, accepted) \/ (x \in Contents(accepted) /\ y = m)
  BY <1>1, <1>2, <1>3, AppendPrecedes
<1> HIDE DEF m
<1>5. m \notin Contents(Parts)
  BY <1>3 DEF RamOrder
<1> QED
  BY <1>1, <1>3, <1>4, <1>5 DEF RamOrder

LEMMA EndsRam == ASSUME RamOrder, TaskInv, FlushEnds \/ DropTooLong \/ ServiceEnds PROVE RamOrder'
<1>1. /\ UNCHANGED <<parts, accepted>>
      /\ ramq' = ramq \/ (ramq # <<>> /\ ramq' = Tail(ramq))
      /\ stored' = stored
           \/ (stored # <<>> /\ stored' \in {Tail(stored), Append(Tail(stored), Head(stored))})
  BY DEF FlushEnds, StoredAgain, DropTooLong, ServiceEnds, inspection_queue_receive, mqttVars
<1>2. stored \in Seq(Messages) /\ ramq \in Seq(Messages)
  BY DEF TaskInv, TaskTypes
<1>3. /\ Contents(ramq') \subseteq Contents(ramq)
      /\ \A x, y : Precedes(x, y, ramq') => Precedes(x, y, ramq)
  BY <1>1, <1>2, TailPrecedes
<1>4. Contents(stored') \subseteq Contents(stored)
  <2>1. ASSUME stored # <<>>
        PROVE  /\ Contents(Tail(stored)) \subseteq Contents(stored)
               /\ Contents(Append(Tail(stored), Head(stored))) \subseteq Contents(stored)
    <3>1. /\ Contents(Tail(stored)) \subseteq Contents(stored) /\ Head(stored) \in Contents(stored)
          /\ Tail(stored) \in Seq(Messages) /\ Head(stored) \in Messages
      BY <1>2, <2>1, TailPrecedes, TailType
    <3>2. Contents(Append(Tail(stored), Head(stored))) = Contents(Tail(stored)) \cup {Head(stored)}
      BY <3>1, AppendPrecedes
    <3> QED
      BY <3>1, <3>2
  <2> QED
    BY <1>1, <2>1
<1> QED
  BY <1>1, <1>3, <1>4 DEF RamOrder

LEMMA NextRamOrder == ASSUME RamOrder, TaskInv, [Next]_vars PROVE RamOrder'
<1>1. CASE Moving
  BY <1>1, InspectRam, ServiceOneRam, FlushOneRam, EndsRam DEF Moving
<1>2. CASE ~Moving
  <2>1. UNCHANGED <<parts, ramq, stored, accepted>>
    BY <1>2, OthersMoveNothing
  <2> QED
    BY <2>1 DEF RamOrder
<1> QED
  BY <1>1, <1>2

-----------------------------------------------------------------------------
(* The subscriptions of a session.                                         *)

(* Before mqtt_config_callbacks_init has subscribed to the topics nothing  *)
(* uses the pool and the registry that MqttAgent_Init has emptied.         *)
Emptied == (\A s \in Slots : IsFree(s)) /\ subs = <<>>

Subscribing(s) == pool[s].type = "subscribe"

SessionSubs ==
  /\ pc = "start" => Emptied
  /\ pc \in {"wait", "run", "status", "sleep"} /\ ~ready => Emptied
  /\ pc \in {"status", "sleep"} /\ ~ready => ~online
  /\ pc \in {"flush", "service", "pace"} => ready
  /\ pc = "wait" => ~ready
  /\ pc = "subscribe" =>
       /\ ~ready
       /\ subs = <<>>
       /\ running = 0
       /\ Len(cmdQueue) + Len(topics) = Len(Topics)
       /\ Unique(topics)
       /\ \A s \in Slots : Subscribing(s) => pool[s].of \notin Contents(topics)
  /\ Unique(subs)
  /\ \A s \in Slots : Subscribing(s) => pool[s].of \notin Contents(subs)
  /\ \A s, t \in Slots : Subscribing(s) /\ Subscribing(t) /\ pool[s].of = pool[t].of => s = t

LEMMA InitSubs == Init => SessionSubs
<1> SUFFICES ASSUME Init PROVE SessionSubs
  OBVIOUS
<1>1. pc = "wifi_check" /\ subs = <<>> /\ \A s \in Slots : pool[s] = Free
  BY DEF Init, AgentInit
<1>2. \A s \in Slots : ~Subscribing(s)
  BY <1>1 DEF Subscribing, Free
<1> QED
  BY <1>1, <1>2, EmptyUnique DEF SessionSubs

(* While nothing is in the pool nothing is queued or executed. *)
LEMMA EmptyPool ==
  ASSUME IInv, \A s \in Slots : IsFree(s)
  PROVE  cmdQueue = <<>> /\ running = 0
<1>1. cmdQueue \in Seq(Slots) /\ running \in 0 .. QueueLen
  BY DEF IInv, AgentTypeOK
<1>2. ASSUME cmdQueue # <<>> PROVE FALSE
  <2>1. Head(cmdQueue) \in Slots /\ Head(cmdQueue) \in Contents(cmdQueue)
    BY <1>1, <1>2, TailUnique DEF IInv, Owned
  <2> QED
    BY <2>1 DEF IInv, Owned
<1>3. ASSUME running # 0 PROVE FALSE
  <2>1. running \in Slots
    BY <1>1, <1>3, QueueLenAssumption DEF Slots
  <2> QED
    BY <2>1 DEF IInv, Owned
<1> QED
  BY <1>2, <1>3

(* The agent frees slots; a subscription it makes leaves the pool for the  *)
(* registry.                                                               *)
LEMMA AgentSubs == ASSUME TaskInv, SessionSubs, Agent PROVE SessionSubs'
<1>1. /\ AgentStep /\ pc \in Waits /\ UNCHANGED <<pc, topics, ready, online>>
      /\ IInv
  BY DEF Agent, AgentMayRun, taskVars, TaskInv, AgentPart
<1>2. /\ pool \in [Slots -> Command \cup {Free}] /\ subs \in Seq(Filters)
      /\ cmdQueue \in Seq(Slots)
  BY <1>1 DEF IInv, AgentTypeOK
<1>3. ASSUME Emptied PROVE Emptied'
  <2>1. cmdQueue = <<>> /\ running = 0 /\ at # "exec"
    BY <1>1, <1>3, EmptyPool DEF Emptied, IInv, Control
  <2>2. UNCHANGED <<pool, subs>>
    BY <1>1, <2>1 DEF AgentStep, Entry, StopIfRequested, StopAtHead, TryConnect, Connected,
              ConnectFails, BackoffEnds, Receive, DoPublish, DoSubscribe, DoStatus, DoStop,
              ProcessAck, ProcessIdle, ProcessFails, TaskEnds, Executing, apiVars
  <2> QED
    BY <1>3, <2>2 DEF Emptied, IsFree
<1>4. \/ UNCHANGED <<pool, subs>>
      \/ \E s \in Slots : /\ pool' = [pool EXCEPT ![s] = Free]
                          /\ \/ UNCHANGED subs
                             \/ Subscribing(s) /\ subs' = Append(subs, pool[s].of)
  <2>1. CASE StopIfRequested
    <3>1. /\ cmdQueue # <<>> /\ pool' = [pool EXCEPT ![Head(cmdQueue)] = Free] /\ UNCHANGED subs
      BY <2>1 DEF StopIfRequested, StopAtHead
    <3> QED
      BY <1>2, <3>1, HeadTailProperties
  <2>2. CASE DoPublish \/ DoSubscribe \/ DoStatus \/ DoStop
    <3>1. /\ at = "exec" /\ pool' = [pool EXCEPT ![running] = Free]
          /\ UNCHANGED subs \/ (Subscribing(running) /\ subs' = Append(subs, pool[running].of))
      BY <2>2 DEF DoPublish, DoSubscribe, DoStatus, DoStop, Executing, FreeSlot, Subscribing
    <3>2. running \in Slots
      BY <1>1, <3>1, QueueLenAssumption DEF IInv, AgentTypeOK, Control, Slots
    <3> QED
      BY <3>1, <3>2
  <2>3. CASE \/ Entry \/ TryConnect \/ Connected \/ ConnectFails \/ BackoffEnds \/ Receive
             \/ ProcessAck \/ ProcessIdle \/ ProcessFails \/ TaskEnds
    BY <2>3 DEF Entry, TryConnect, Connected, ConnectFails, BackoffEnds, Receive, ProcessAck,
                ProcessIdle, ProcessFails, TaskEnds, apiVars
  <2> QED
    BY <1>1, <2>1, <2>2, <2>3 DEF AgentStep
<1>5. /\ Unique(subs')
      /\ \A s \in Slots : Subscribing(s)' => pool'[s].of \notin Contents(subs')
      /\ \A s, t \in Slots : Subscribing(s)' /\ Subscribing(t)' /\ pool'[s].of = pool'[t].of => s = t
  <2>1. CASE UNCHANGED <<pool, subs>>
    BY <2>1 DEF SessionSubs, Subscribing
  <2>2. CASE \E s \in Slots : /\ pool' = [pool EXCEPT ![s] = Free]
                              /\ \/ UNCHANGED subs
                                 \/ Subscribing(s) /\ subs' = Append(subs, pool[s].of)
    <3>1. PICK s \in Slots : /\ pool' = [pool EXCEPT ![s] = Free]
                             /\ \/ UNCHANGED subs
                                \/ Subscribing(s) /\ subs' = Append(subs, pool[s].of)
      BY <2>2
    <3>2. /\ ~Subscribing(s)'
          /\ \A t \in Slots : Subscribing(t)' => t # s /\ pool'[t] = pool[t] /\ Subscribing(t)
      BY <1>2, <3>1 DEF Subscribing, Free
    <3>3. CASE UNCHANGED subs
      BY <3>2, <3>3 DEF SessionSubs
    <3>4. CASE Subscribing(s) /\ subs' = Append(subs, pool[s].of)
      <4> DEFINE f == pool[s].of
      <4>1. f \in Filters /\ f \notin Contents(subs) /\ Unique(subs)
        <5>1. pool[s] \in Command \cup {Free}
          BY <1>2
        <5> QED
          BY <3>4, <5>1, CommandType DEF Free, Subscribing, SessionSubs
      <4>2. Unique(subs') /\ Contents(subs') = Contents(subs) \cup {f}
        <5> HIDE DEF f
        <5> QED
          BY <1>2, <3>4, <4>1, AppendUnique DEF f
      <4>3. \A t \in Slots : Subscribing(t)' => pool'[t].of # f /\ pool'[t].of \notin Contents(subs)
        BY <3>2, <3>4 DEF SessionSubs
      <4> QED
        BY <3>2, <4>2, <4>3 DEF SessionSubs
    <3> QED
      BY <3>1, <3>3, <3>4
  <2> QED
    BY <1>4, <2>1, <2>2
<1> QED
  BY <1>1, <1>3, <1>5 DEF SessionSubs, Waits

(* A command that is no subscription joins the queue. *)
LEMMA EnqueueSubs ==
  ASSUME TaskInv, SessionSubs, NEW cmd \in Command, cmd.type # "subscribe", Enqueue(cmd),
         UNCHANGED subs
  PROVE  /\ Unique(subs')
         /\ \A s \in Slots : Subscribing(s)' => pool'[s].of \notin Contents(subs')
         /\ \A s, t \in Slots :
              Subscribing(s)' /\ Subscribing(t)' /\ pool'[s].of = pool'[t].of => s = t
<1>1. PICK s \in Slots : pool' = [pool EXCEPT ![s] = cmd]
  BY DEF Enqueue
<1>2. pool \in [Slots -> Command \cup {Free}]
  BY DEF TaskInv, AgentPart, IInv, AgentTypeOK
<1>3. \A t \in Slots : Subscribing(t)' => pool'[t] = pool[t] /\ Subscribing(t)
  BY <1>1, <1>2 DEF Subscribing
<1> QED
  BY <1>3 DEF SessionSubs

LEMMA CommandSubs ==
  ASSUME TaskInv, SessionSubs, RunStops \/ Status \/ FlushOne \/ ServiceOne PROVE SessionSubs'
<1>1. ASSUME UNCHANGED <<pool, cmdQueue, subs>>
      PROVE  /\ Unique(subs')
             /\ \A s \in Slots : Subscribing(s)' => pool'[s].of \notin Contents(subs')
             /\ \A s, t \in Slots :
                  Subscribing(s)' /\ Subscribing(t)' /\ pool'[s].of = pool'[t].of => s = t
  BY <1>1 DEF SessionSubs, Subscribing
<1>2. CASE RunStops
  <2>1. /\ pc' \in {"stop", "reopen"} /\ UNCHANGED subs
        /\ Enqueue([type |-> "stop", of |-> None, by |-> Me]) \/ UNCHANGED <<pool, cmdQueue>>
    BY <1>2 DEF RunStops, Goto
  <2>2. [type |-> "stop", of |-> None, by |-> Me] \in Command
    BY MeType, CommandMade
  <2>3. /\ Unique(subs')
        /\ \A s \in Slots : Subscribing(s)' => pool'[s].of \notin Contents(subs')
        /\ \A s, t \in Slots :
             Subscribing(s)' /\ Subscribing(t)' /\ pool'[s].of = pool'[t].of => s = t
    BY <1>1, <2>1, <2>2, EnqueueSubs
  <2> QED
    BY <2>1, <2>3 DEF SessionSubs
<1>3. CASE Status
  <2>1. /\ pc = "status" /\ pc' = (IF online THEN "flush" ELSE "sleep")
        /\ UNCHANGED <<subs, topics, ready, online>>
        /\ \/ online /\ Enqueue([type |-> "status", of |-> None, by |-> Me])
           \/ UNCHANGED <<pool, cmdQueue>>
    BY <1>3 DEF Status, Goto
  <2>2. [type |-> "status", of |-> None, by |-> Me] \in Command
    BY MeType, CommandMade
  <2>3. /\ Unique(subs')
        /\ \A s \in Slots : Subscribing(s)' => pool'[s].of \notin Contents(subs')
        /\ \A s, t \in Slots :
             Subscribing(s)' /\ Subscribing(t)' /\ pool'[s].of = pool'[t].of => s = t
    BY <1>1, <2>1, <2>2, EnqueueSubs
  <2>4. ~ready => ~online
    BY <2>1 DEF SessionSubs
  <2>5. ~ready' => UNCHANGED <<pool, subs>> /\ Emptied
    BY <2>1, <2>4 DEF SessionSubs
  <2> QED
    BY <2>1, <2>3, <2>4, <2>5 DEF SessionSubs, Emptied, IsFree
<1>4. ASSUME NEW m \in Messages, Publish(m), ready, UNCHANGED ready, pc' \in {"flush", "pace"}
      PROVE  SessionSubs'
  <2>1. /\ Enqueue([type |-> "publish", of |-> m, by |-> Me]) /\ UNCHANGED subs
    BY <1>4 DEF Publish
  <2>2. [type |-> "publish", of |-> m, by |-> Me] \in Command
    BY MeType, CommandMade
  <2>3. /\ Unique(subs')
        /\ \A s \in Slots : Subscribing(s)' => pool'[s].of \notin Contents(subs')
        /\ \A s, t \in Slots :
             Subscribing(s)' /\ Subscribing(t)' /\ pool'[s].of = pool'[t].of => s = t
    BY <2>1, <2>2, EnqueueSubs
  <2> QED
    BY <1>4, <2>3 DEF SessionSubs
<1>5. CASE FlushOne
  <2>1. /\ stored # <<>> /\ Publish(Head(stored)) /\ pc = "flush" /\ UNCHANGED <<pc, ready>>
        /\ stored \in Seq(Messages)
    BY <1>5 DEF FlushOne, TaskInv, TaskTypes
  <2>2. Head(stored) \in Messages /\ ready
    BY <2>1, TailType DEF SessionSubs
  <2> QED
    BY <1>4, <2>1, <2>2
<1>6. CASE ServiceOne
  <2>1. /\ ramq # <<>> /\ Publish(Head(ramq)) /\ pc = "service" /\ pc' = "pace" /\ UNCHANGED ready
        /\ ramq \in Seq(Messages)
    BY <1>6 DEF ServiceOne, Goto, TaskInv, TaskTypes
  <2>2. Head(ramq) \in Messages /\ ready
    BY <2>1, TailType DEF SessionSubs
  <2> QED
    BY <1>4, <2>1, <2>2
<1> QED
  BY <1>2, <1>3, <1>5, <1>6

(* mqtt_config_callbacks_init, topic by topic. *)
LEMMA SubscribeSubs == ASSUME TaskInv, SessionSubs, Subscribe PROVE SessionSubs'
<1> DEFINE f == Head(topics)
           cmd == [type |-> "subscribe", of |-> f, by |-> Me]
<1>1. /\ pc = "subscribe" /\ topics # <<>> /\ Enqueue(cmd) /\ topics' = Tail(topics)
      /\ UNCHANGED <<pc, ready, online, subs, running>>
      /\ topics \in Seq(Filters)
  BY DEF Subscribe, TaskInv, TaskTypes, agentVars
<1>2. /\ Unique(topics') /\ Contents(topics') = Contents(topics) \ {f} /\ f \in Contents(topics)
      /\ f \in Filters
  BY <1>1, TailUnique DEF SessionSubs
<1>3. PICK s \in Slots : /\ pool' = [pool EXCEPT ![s] = cmd] /\ cmdQueue' = Append(cmdQueue, s)
  BY <1>1 DEF Enqueue, Enqueued
<1>4. pool \in [Slots -> Command \cup {Free}] /\ cmdQueue \in Seq(Slots)
  BY DEF TaskInv, AgentPart, IInv, AgentTypeOK
<1>5. pool'[s].of = f /\ \A t \in Slots \ {s} : pool'[t] = pool[t] /\ (Subscribing(t)' => Subscribing(t))
  BY <1>3, <1>4 DEF Subscribing
<1> HIDE DEF f, cmd
<1>6. /\ subs' = <<>> /\ ~ready'
      /\ \A t \in Slots : Subscribing(t) => pool[t].of \notin Contents(topics)
      /\ Len(cmdQueue) + Len(topics) = Len(Topics)
      /\ running' = 0
  BY <1>1 DEF SessionSubs
<1>7. Len(cmdQueue') + Len(topics') = Len(Topics)
  <2>1. Len(cmdQueue') = Len(cmdQueue) + 1 /\ Len(cmdQueue) \in Nat
    BY <1>3, <1>4, AppendProperties
  <2>2. Len(topics') = Len(topics) - 1 /\ Len(topics) \in Nat
    BY <1>1, HeadTailProperties
  <2> QED
    BY <1>6, <2>1, <2>2
<1>8. \A t \in Slots : Subscribing(t)' => pool'[t].of \notin Contents(topics')
  BY <1>2, <1>5, <1>6
<1>9. /\ Unique(subs')
      /\ \A t \in Slots : Subscribing(t)' => pool'[t].of \notin Contents(subs')
  BY <1>6, EmptyUnique
<1>10. ASSUME NEW t \in Slots, NEW u \in Slots, Subscribing(t)', Subscribing(u)',
              pool'[t].of = pool'[u].of
       PROVE  t = u
  BY <1>2, <1>5, <1>6, <1>10 DEF SessionSubs
<1> QED
  BY <1>1, <1>6, <1>7, <1>8, <1>2, <1>9, <1>10 DEF SessionSubs

LEMMA PoolStaysSubs ==
  ASSUME SessionSubs, UNCHANGED <<pool, subs>>
  PROVE  /\ Unique(subs')
         /\ \A s \in Slots : Subscribing(s)' => pool'[s].of \notin Contents(subs')
         /\ \A s, t \in Slots :
              Subscribing(s)' /\ Subscribing(t)' /\ pool'[s].of = pool'[t].of => s = t
         /\ Emptied' <=> Emptied
BY DEF SessionSubs, Subscribing, Emptied, IsFree

(* The other steps of mqtt_task. *)
LEMMA TaskSubs ==
  ASSUME TaskInv, SessionSubs, TaskStep,
         ~(RunStops \/ Status \/ FlushOne \/ ServiceOne \/ Subscribe)
  PROVE  SessionSubs'
<1>1. CASE InitAgent
  <2>1. pc' = "start" /\ subs' = <<>> /\ pool' = [s \in Slots |-> Free]
    BY <1>1 DEF InitAgent, MqttAgent_Init, RegistryCleared, Goto
  <2>2. Emptied'
    BY <2>1 DEF Emptied, IsFree
  <2>3. \A s \in Slots : ~Subscribing(s)'
    BY <2>1 DEF Subscribing, Free
  <2> QED
    BY <2>1, <2>2, <2>3, EmptyUnique DEF SessionSubs
<1>2. CASE WifiCheck \/ WifiConnect \/ TcpOpens \/ TcpFails \/ StartFails \/ StopDone \/ Reopen
  <2>1. /\ pc' \in {"tcp_connect", "wifi_connect", "mqtt_start", "reopen"}
        /\ UNCHANGED <<pool, subs>>
    BY <1>2 DEF WifiCheck, WifiConnect, TcpOpens, OpenConnection, TcpFails, StartFails, StopDone,
                StopReturns, StopTimesOut, Reopen, AskWifi, Goto, apiVars
  <2> QED
    BY <2>1, PoolStaysSubs DEF SessionSubs
<1>3. CASE StartAgent \/ WaitConnected
  <2>1. /\ pc \in {"start", "wait"} /\ pc' \in {"wait", "run"} /\ ~ready' /\ UNCHANGED <<pool, subs>>
    BY <1>3 DEF StartAgent, MqttAgent_Start, WaitConnected, Goto, apiVars, SessionSubs
  <2>2. Emptied
    BY <2>1, <1>3 DEF SessionSubs, WaitConnected, StartAgent
  <2> QED
    BY <2>1, <2>2, PoolStaysSubs DEF SessionSubs
<1>4. CASE RunOn
  <2>1. /\ pc = "run" /\ UNCHANGED <<pool, subs, running, cmdQueue, ready>>
        /\ IF online' /\ ~ready THEN pc' = "subscribe" /\ topics' = Topics
                                ELSE pc' = "status" /\ UNCHANGED topics
    BY <1>4 DEF RunOn, Goto, mqttVars
  <2>2. CASE online' /\ ~ready
    <3>1. Emptied /\ cmdQueue = <<>> /\ running = 0
      BY <2>1, <2>2, EmptyPool DEF SessionSubs, Emptied, TaskInv, AgentPart
    <3>2. \A s \in Slots : ~Subscribing(s)'
      BY <2>1, <3>1 DEF Subscribing, Emptied, IsFree, Free
    <3>3. Len(cmdQueue') + Len(topics') = Len(Topics) /\ Unique(topics')
      <4>1. Len(<<>>) = 0 /\ Len(Topics) \in Nat
        BY TaskAssumption
      <4> QED
        BY <2>1, <2>2, <3>1, <4>1, TopicsAssumption DEF Unique
    <3> QED
      BY <2>1, <2>2, <3>1, <3>2, <3>3, PoolStaysSubs DEF SessionSubs, Emptied
  <2>3. CASE ~(online' /\ ~ready)
    BY <2>1, <2>3, PoolStaysSubs DEF SessionSubs
  <2> QED
    BY <2>2, <2>3
<1>5. CASE Subscribed \/ FlushEnds \/ DropTooLong \/ Pace \/ ServiceEnds
  <2>1. /\ pc' \in {"status", "service", "sleep"} /\ ready' /\ UNCHANGED <<pool, subs>>
    BY <1>5 DEF Subscribed, FlushEnds, DropTooLong, Pace, ServiceEnds, Goto, mqttVars, apiVars,
                SessionSubs
  <2> QED
    BY <2>1, PoolStaysSubs DEF SessionSubs
<1>6. CASE Sleep
  <2>1. pc = "sleep" /\ pc' = "run" /\ UNCHANGED <<ready, online, pool, subs>>
    BY <1>6 DEF Sleep, Goto, mqttVars
  <2> QED
    BY <2>1, PoolStaysSubs DEF SessionSubs
<1> QED
  BY <1>1, <1>2, <1>3, <1>4, <1>5, <1>6 DEF TaskStep

LEMMA NextSubs == ASSUME TaskInv, SessionSubs, [Next]_vars PROVE SessionSubs'
<1>1. ASSUME UNCHANGED <<pc, ready, online, topics, pool, subs, cmdQueue, running>>
      PROVE  SessionSubs'
  BY <1>1 DEF SessionSubs, Emptied, IsFree, Subscribing
<1>2. CASE UNCHANGED vars \/ Inspect
  BY <1>1, <1>2 DEF vars, taskVars, mqttVars, Inspect
<1>3. CASE Trouble
  BY <1>1, <1>3 DEF Trouble, LinkDrops, ClosedSeen, WifiDrops, taskVars, agentVars, apiVars
<1>4. CASE Agent \/ TaskStep
  BY <1>4, AgentSubs, CommandSubs, SubscribeSubs, TaskSubs
<1> QED
  BY <1>2, <1>3, <1>4 DEF Next

(* The slots the topics need are free. *)
LEMMA ContentsSize ==
  ASSUME NEW S, NEW q \in Seq(S)
  PROVE  IsFiniteSet(Contents(q)) /\ Cardinality(Contents(q)) <= Len(q)
<1>1. Len(q) \in Nat /\ DOMAIN q = 1 .. Len(q) /\ q = [i \in 1 .. Len(q) |-> q[i]]
  OBVIOUS
<1>2. \A n \in Nat : IsFiniteSet(1 .. n) /\ Cardinality(1 .. n) = n
  BY FS_Interval
<1>3. q \in Surjection(1 .. Len(q), Contents(q))
  BY <1>1 DEF Surjection, Contents
<1> QED
  BY <1>1, <1>2, <1>3, FS_Surjection

LEMMA TopicsHaveRoom == ASSUME TaskInv, SessionSubs PROVE SubscriptionsFit
<1>1. ASSUME pc = "subscribe"
      PROVE  /\ Len(topics) <= Cardinality({s \in Slots : IsFree(s)})
             /\ Len(subs) + Len(topics) <= MaxSubs
  <2>1. /\ subs = <<>> /\ running = 0 /\ Len(cmdQueue) + Len(topics) = Len(Topics)
        /\ topics \in Seq(Filters) /\ cmdQueue \in Seq(Slots)
        /\ \A c \in Clients : held[c] = 0
    BY <1>1 DEF SessionSubs, TaskInv, TaskTypes, AgentPart, CallsWhole, IInv, AgentTypeOK
  <2>2. Len(subs) = 0 /\ Len(topics) \in Nat /\ Len(cmdQueue) \in Nat /\ Len(Topics) \in Nat
    BY <2>1, TaskAssumption
  <2>3. {s \in Slots : IsFree(s)} = Slots \ Contents(cmdQueue)
    <3>1. 0 \notin Slots
      BY DEF Slots
    <3> QED
      BY <2>1, <3>1 DEF TaskInv, AgentPart, IInv, Owned
  <2>4. IsFiniteSet(Slots) /\ Cardinality(Slots) = QueueLen
    BY QueueLenAssumption, FS_Interval DEF Slots
  <2>5. /\ IsFiniteSet(Contents(cmdQueue)) /\ Cardinality(Contents(cmdQueue)) <= Len(cmdQueue)
        /\ Cardinality(Contents(cmdQueue)) \in Nat
    BY <2>1, ContentsSize, FS_CardinalityType
  <2>6. Slots \cap Contents(cmdQueue) = Contents(cmdQueue)
    BY <2>1 DEF Contents
  <2>7. Cardinality(Slots \ Contents(cmdQueue)) = QueueLen - Cardinality(Contents(cmdQueue))
    BY <2>4, <2>6, FS_Difference
  <2>8. Cardinality({s \in Slots : IsFree(s)}) = QueueLen - Cardinality(Contents(cmdQueue))
    BY <2>3, <2>7
  <2>9. /\ Len(topics) <= QueueLen - Cardinality(Contents(cmdQueue))
        /\ Len(subs) + Len(topics) <= MaxSubs
    <3> HIDE DEF Contents
    <3> QED
      BY <2>1, <2>2, <2>5, TopicsAssumption, QueueLenAssumption, LimitsAssumption
  <2> QED
    BY <2>8, <2>9
<1>2. \A i, j \in DOMAIN subs : i # j => subs[i] # subs[j]
  BY DEF SessionSubs, Unique
<1> QED
  BY <1>1, <1>2 DEF SubscriptionsFit

-----------------------------------------------------------------------------
(* The theorems.                                                           *)

LEMMA AppendIn ==
  ASSUME NEW q \in Seq(Messages), NEW m \in Messages
  PROVE  Contents(Append(q, m)) = Contents(q) \cup {m}
<1>1. /\ DOMAIN Append(q, m) = 1 .. Len(q) + 1 /\ DOMAIN q = 1 .. Len(q) /\ Len(q) \in Nat
      /\ \A i \in 1 .. Len(q) : Append(q, m)[i] = q[i]
      /\ Append(q, m)[Len(q) + 1] = m
  BY AppendProperties
<1> QED
  BY <1>1 DEF Contents

(* Every variable of mqtt_task, of the queues and of the agent keeps its   *)
(* type.                                                                   *)
THEOREM PipelineTypes == Spec => []TaskTypeOK
<1>1. ASSUME NEW q \in Seq(Messages) PROVE Contents(q) \subseteq Messages
  BY DEF Contents
<1>2. TaskInv => TaskTypeOK
  BY <1>1 DEF TaskInv, AgentPart, IInv, TaskTypes, TaskTypeOK
<1> QED
  BY <1>2, TaskInvariance, PTL

(* An inspection is handed to the agent at most once, however it is peeked *)
(* at, retried, taken out of flash and put back: the RAM queue of          *)
(* inspection_queue.c, the flush and the service of mqtt_task.c.           *)
THEOREM NeverTwice == Spec => []HandedOverOnce
<1>1. ASSUME TaskInv PROVE HandedOverOnce
  <2>1. Unique(accepted)
    BY <1>1 DEF TaskInv, OnePlace
  <2>2. \A i, j \in DOMAIN accepted : i # j => accepted[i] # accepted[j]
    BY <2>1 DEF Unique
  <2>3. Contents(accepted) \cap (Contents(ramq) \cup Contents(stored) \cup Contents(parts)) = {}
    BY <1>1 DEF TaskInv, OnePlace
  <2> QED
    BY <2>2, <2>3 DEF HandedOverOnce
<1> QED
  BY <1>1, TaskInvariance, PTL

(* The agent under mqtt_task, which makes it anew (MqttAgent_Init) while   *)
(* an old agent that did not stop in time may still be running: no slot is *)
(* lost or shared all the same, sends never wait and a successful stop is  *)
(* real.                                                                   *)
THEOREM AgentUnderTask == Spec => [](SlotsAccounted /\ SendNeverWaits /\ StopMeansGone)
<1>1. TaskInv => SlotsAccounted /\ SendNeverWaits /\ StopMeansGone
  BY InvAccounts, InvHasRoom, InvStops DEF TaskInv, AgentPart
<1> QED
  BY <1>1, TaskInvariance, PTL

(* Unless the flash fails, an inspection in one of the queues stays there  *)
(* until the agent has accepted it: the flush and the service of           *)
(* mqtt_task.c remove only what was queued, and put back what was not.     *)
THEOREM NothingLost == Spec => KeptUntilAccepted
<1> DEFINE Kept == trouble' = trouble =>
             \A m \in (Contents(ramq) \cup Contents(stored)) \ TooLong :
               m \in Contents(ramq') \cup Contents(stored') \cup Contents(accepted')
<1>1. ASSUME TaskInv, [Next]_vars, trouble' = trouble,
             NEW m \in (Contents(ramq) \cup Contents(stored)) \ TooLong
      PROVE  m \in Contents(ramq') \cup Contents(stored') \cup Contents(accepted')
  <2>1. /\ stored \in Seq(Messages) /\ ramq \in Seq(Messages) /\ accepted \in Seq(Messages)
        /\ Unique(stored) /\ Unique(ramq) /\ Unique(accepted)
        /\ trouble \in Nat
    BY <1>1, Types, LimitsAssumption DEF TaskInv, TaskTypes, OnePlace
  <2>2. CASE ~Moving
    BY <1>1, <2>2, OthersMoveNothing
  <2>3. CASE Inspect
    <3>1. Contents(ramq) \subseteq Contents(ramq') /\ stored' = stored
      <4>1. /\ ramq' = ramq \/ ramq' = Append(ramq, Head(parts))
            /\ stored' = stored /\ parts # <<>>
        BY <2>3 DEF Inspect, inspection_queue_send
      <4>2. Head(parts) \in Messages
        BY <1>1, <4>1, TailType DEF TaskInv, TaskTypes
      <4> QED
        BY <2>1, <4>1, <4>2, AppendIn
    <3> QED
      BY <1>1, <3>1
  <2>4. CASE FlushOne
    <3>1. /\ stored # <<>> /\ stored' = Tail(stored) /\ accepted' = Append(accepted, Head(stored))
          /\ ramq' = ramq
      BY <2>4 DEF FlushOne, Publish
    <3>2. /\ Contents(stored') = Contents(stored) \ {Head(stored)} /\ Head(stored) \in Contents(accepted')
          /\ Contents(accepted) \subseteq Contents(accepted')
      <4>1. Contents(Tail(stored)) = Contents(stored) \ {Head(stored)}
        BY <2>1, <3>1, Moves
      <4>2. Contents(accepted') = Contents(accepted) \cup {Head(stored)}
        BY <2>1, <3>1, TailType, AppendIn
      <4> QED
        BY <3>1, <4>1, <4>2
    <3> QED
      BY <1>1, <3>1, <3>2
  <2>5. CASE FlushEnds
    <3>1. ramq' = ramq /\ accepted' = accepted
      BY <2>5 DEF FlushEnds
    <3>2. ~Unlucky
      BY <1>1, <2>1 DEF Unlucky
    <3>3. \/ stored' = stored
          \/ stored # <<>> /\ Head(stored) \in TooLong /\ stored' = Tail(stored)
          \/ stored # <<>> /\ stored' = Append(Tail(stored), Head(stored))
      BY <2>5, <3>2 DEF FlushEnds, StoredAgain
    <3>4. stored # <<>> => /\ Contents(Tail(stored)) = Contents(stored) \ {Head(stored)}
                           /\ Contents(Append(Tail(stored), Head(stored)))
                                = Contents(Tail(stored)) \cup {Head(stored)}
      BY <2>1, Moves, TailType, AppendIn
    <3>5. CASE stored' = stored
      BY <1>1, <3>1, <3>5
    <3>6. CASE stored # <<>> /\ Head(stored) \in TooLong /\ stored' = Tail(stored)
      BY <1>1, <3>1, <3>4, <3>6
    <3>7. CASE stored # <<>> /\ stored' = Append(Tail(stored), Head(stored))
      BY <1>1, <3>1, <3>4, <3>7
    <3> QED
      BY <3>3, <3>5, <3>6, <3>7
  <2>6. CASE ServiceOne
    <3>1. /\ ramq # <<>> /\ ramq' = Tail(ramq) /\ accepted' = Append(accepted, Head(ramq))
          /\ stored' = stored
      BY <2>6 DEF ServiceOne, inspection_queue_receive, Publish
    <3>2. /\ Contents(ramq') = Contents(ramq) \ {Head(ramq)} /\ Head(ramq) \in Contents(accepted')
          /\ Contents(accepted) \subseteq Contents(accepted')
      <4>1. Contents(Tail(ramq)) = Contents(ramq) \ {Head(ramq)}
        BY <2>1, <3>1, Moves
      <4>2. Contents(accepted') = Contents(accepted) \cup {Head(ramq)}
        BY <2>1, <3>1, TailType, AppendIn
      <4> QED
        BY <3>1, <4>1, <4>2
    <3> QED
      BY <1>1, <3>1, <3>2
  <2>7. CASE DropTooLong \/ ServiceEnds
    <3>1. /\ \/ ramq' = ramq
             \/ ramq # <<>> /\ Head(ramq) \in TooLong /\ ramq' = Tail(ramq)
          /\ stored' = stored
      BY <2>7 DEF DropTooLong, ServiceEnds, inspection_queue_receive
    <3>2. ramq # <<>> => Contents(Tail(ramq)) = Contents(ramq) \ {Head(ramq)}
      BY <2>1, Moves
    <3> QED
      BY <1>1, <3>1, <3>2
  <2> QED
    BY <2>2, <2>3, <2>4, <2>5, <2>6, <2>7 DEF Moving
<1>2. ASSUME TaskInv, [Next]_vars PROVE [Kept]_vars
  BY <1>1, <1>2
<1> QED
  BY <1>2, TaskInvariance, PTL DEF Spec, KeptUntilAccepted

(* The inspections that wait in RAM reach the broker in the order they     *)
(* were made, each once: the GUI fills the queue while mqtt_task peeks,    *)
(* publishes and removes, in rounds that any failure may end, beside the   *)
(* flush of the flash queue and over restarts of the agent.                *)
THEOREM RamOrderKept == Spec => [](RamInOrder /\ OnceInOrder)
<1> DEFINE Inv == TaskInv /\ OnceInOrder /\ RamOrder
<1>1. Init => Inv
  BY InitTaskInv, InitOrder, InitRamOrder DEF Init
<1>2. ASSUME Inv, [Next]_vars PROVE Inv'
  <2>1. TaskInv'
    BY <1>2, NextOnce, NextKept DEF TaskInv
  <2> QED
    BY <1>2, <2>1, TaskOrder, NextRamOrder
<1>3. ASSUME Inv PROVE RamInOrder /\ OnceInOrder
  <2>1. Contents(Parts) \subseteq Messages
    BY TaskAssumption DEF Contents
  <2> QED
    BY <1>3, <2>1 DEF RamInOrder, OnceInOrder, RamOrder
<1> QED
  BY <1>1, <1>2, <1>3, PTL DEF Spec

(* mqtt_config_callbacks_init always finds a slot of the pool and an entry *)
(* of the registry for every topic, so that a session's subscriptions are  *)
(* never made in part, and no topic is in the registry twice: MqttAgent_   *)
(* Init has emptied both, and nothing else is sent before they are made.   *)
THEOREM EverySubscriptionFits == Spec => []SubscriptionsFit
<1> DEFINE Inv == TaskInv /\ SessionSubs
<1>1. Init => Inv
  BY InitTaskInv, InitSubs
<1>2. Inv /\ [Next]_vars => Inv'
  BY NextOnce, NextKept, NextSubs DEF TaskInv
<1>3. Inv => SubscriptionsFit
  BY TopicsHaveRoom
<1> QED
  BY <1>1, <1>2, <1>3, PTL DEF Spec
=============================================================================
