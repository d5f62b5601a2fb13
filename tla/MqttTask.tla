------------------------------- MODULE MqttTask -------------------------------
(***************************************************************************)
(* The way of an inspection from the GUI to the broker: the RAM queue      *)
(* (Application/net/inspection_queue.c), the task that empties it and owns *)
(* Wi-Fi, TCP and the agent's life (STM32CubeIDE/.../mqtt/mqtt_task.c),    *)
(* and the agent (MqttAgent).                                              *)
(*                                                                         *)
(* mqtt_task is the agent's only caller and has the higher priority        *)
(* (osPriorityNormal = 24 against 3): the agent runs only while mqtt_task  *)
(* waits for a semaphore or in an osDelay (AgentMayRun); an AT command is  *)
(* waited for in HAL_Delay, which keeps the processor.  The GUI has the    *)
(* same priority as mqtt_task and may add an inspection between any two of *)
(* its steps.                                                              *)
(*                                                                         *)
(* The flash queue appears as the FIFO that PersistentQueue implements; a  *)
(* call of it that fails counts as trouble.                                *)
(*                                                                         *)
(* A payload of more than 256 bytes is not copied into its command: the    *)
(* command has the address of json_payload, of which the flush and the     *)
(* service of the RAM queue have one each, on the stack.                   *)
(***************************************************************************)
EXTENDS MqttAgent

CONSTANTS
  Parts,    (* the inspections the GUI will make, in this order            *)
  Backlog,  (* what the flash queue holds at boot                          *)
  Topics,   (* the config topics, in the order they are subscribed to      *)
  TooLong,  (* the messages whose JSON does not fit json_payload[512]      *)
  Long,     (* those whose JSON does not fit payloadBuf[256]               *)
  RamLen    (* INSPECTION_QUEUE_LENGTH                                     *)

ASSUME TaskAssumption ==
  /\ Parts \in Seq(Messages)
  /\ Backlog \in Seq(Messages)
  /\ Topics \in Seq(Filters)
  /\ TooLong \subseteq Long
  /\ Long \subseteq Messages
  /\ RamLen \in Nat \ {0}
(* Every inspection is made, and stored, once. *)
ASSUME OnceAssumption ==
  LET all == Parts \o Backlog
  IN  \A i, j \in DOMAIN all : all[i] = all[j] => i = j
(* Two different topics, against a pool and a registry of eight entries. *)
ASSUME TopicsAssumption ==
  /\ \A i, j \in DOMAIN Topics : Topics[i] = Topics[j] => i = j
  /\ Len(Topics) <= QueueLen
  /\ Len(Topics) <= MaxSubs
ASSUME OneCallerAssumption == \E c \in Clients : Clients = {c}

VARIABLES
  pc,        (* taskState, and where in it mqtt_task is                    *)
  parts,     (* the inspections still to be made                           *)
  ramq,      (* s_inspectionQueue                                          *)
  stored,    (* the flash queue                                            *)
  topics,    (* the topics mqtt_config_callbacks_init has still to do      *)
  ready,     (* configCallbacksReady                                       *)
  online,    (* s_mqttConnected                                            *)
  wifi       (* the ESP-01 has joined the access point                     *)

taskVars == <<pc, parts, ramq, stored, topics, ready, online, wifi, spoilt>>
vars == <<taskVars, mqttVars>>

Me == CHOOSE c \in Clients : TRUE

(* Where mqtt_task waits, so that the agent gets the processor: before a   *)
(* new attempt to connect, for a semaphore, and between rounds.            *)
Waits == {"wifi_connect", "tcp_connect", "wait", "stop", "pace", "sleep"}
AgentMayRun == pc \in Waits

Init ==
  /\ AgentInit
  /\ pc = "wifi_check"
  /\ parts = Parts
  /\ ramq = <<>>
  /\ stored = Backlog
  /\ topics = <<>>
  /\ ready = FALSE
  /\ online = FALSE
  /\ wifi \in BOOLEAN

Goto(p) == pc' = p

(* inspection_queue_send does not block: a full queue refuses.             *)
SendTooMany(q, m) == IF Len(q) <= RamLen THEN Append(q, m) ELSE q
SendOrEvict(q, m) == Append(IF Len(q) = RamLen THEN Tail(q) ELSE q, m)
inspection_queue_send(q, m) == IF Len(q) < RamLen THEN Append(q, m) ELSE q

(* inspection_queue_receive *)
StillThere(q) == q
inspection_queue_receive(q) == Tail(q)

(* The GUI has made an inspection; it ignores that the queue may refuse.   *)
Inspect ==
  /\ parts # <<>>
  /\ parts' = Tail(parts)
  /\ ramq' = inspection_queue_send(ramq, Head(parts))
  /\ UNCHANGED <<pc, stored, topics, ready, online, wifi, spoilt, mqttVars>>

-----------------------------------------------------------------------------
(* Wi-Fi, TCP and the agent's start.                                       *)

(* A failure of an AT command that could have succeeded. *)
Unlucky == trouble > 0 /\ trouble' = trouble - 1

(* ESP01_IsWifiConnected, and where mqtt_task goes with the answer. *)
AskWifi(yes, no) ==
  \/ wifi /\ Goto(yes) /\ UNCHANGED trouble
  \/ wifi /\ Goto(no) /\ Unlucky
  \/ ~wifi /\ Goto(no) /\ UNCHANGED trouble

WifiCheck ==
  /\ pc = "wifi_check"
  /\ AskWifi("tcp_connect", "wifi_connect")
  /\ UNCHANGED <<parts, ramq, stored, topics, ready, online, wifi, agentVars, apiVars,
                 session, records, net, linkClosed, broker, callVars>>

WifiConnect ==
  /\ pc = "wifi_connect"
  /\ \/ wifi' = TRUE /\ Goto("tcp_connect") /\ UNCHANGED trouble
     \/ Unlucky /\ UNCHANGED <<pc, wifi>>
  /\ UNCHANGED <<parts, ramq, stored, topics, ready, online, agentVars, apiVars,
                 session, records, net, linkClosed, broker, callVars>>

(* No command of an old agent is still in progress when the connection is  *)
(* there: since ESP01_Disconnect its sends have failed at once, and one in *)
(* progress waited 5 s at most.                                            *)
TcpOpens ==
  /\ pc = "tcp_connect"
  /\ wifi
  /\ running = 0
  /\ OpenConnection
  /\ Goto("mqtt_start")
  /\ UNCHANGED <<parts, ramq, stored, topics, ready, online, wifi>>

TcpFails ==
  /\ pc = "tcp_connect"
  /\ \/ wifi /\ Unlucky /\ pc' \in {"tcp_connect", "wifi_connect"}
     \/ ~wifi /\ Goto("wifi_connect") /\ UNCHANGED trouble
  /\ UNCHANGED <<parts, ramq, stored, topics, ready, online, wifi, agentVars, apiVars,
                 session, records, net, linkClosed, broker, callVars>>

InitAgent ==
  /\ pc = "mqtt_start"
  /\ MqttAgent_Init
  /\ Goto("start")
  /\ UNCHANGED <<parts, ramq, stored, topics, ready, online, wifi>>

StartAgent ==
  /\ pc = "start"
  /\ MqttAgent_Start
  /\ ready' = FALSE
  /\ Goto("wait")
  /\ UNCHANGED <<parts, ramq, stored, topics, online, wifi>>

(* ESP01_Disconnect *)
Disconnect == net' = "none"

(* MqttAgent_Start finds the old agent task still there. *)
StartFails ==
  /\ pc = "start"
  /\ at # "none"
  /\ Disconnect
  /\ Goto("tcp_connect")
  /\ UNCHANGED <<parts, ramq, stored, topics, ready, online, wifi, agentVars, apiVars,
                 session, records, linkClosed, broker, trouble, callVars>>

(* MqttAgent_WaitConnected takes the semaphore or times out. *)
WaitConnected ==
  /\ pc = "wait"
  /\ \/ connSem /\ connSem' = FALSE /\ online' = TRUE
     \/ ~connSem /\ online' = FALSE /\ UNCHANGED connSem
  /\ Goto("run")
  /\ UNCHANGED <<parts, ramq, stored, topics, ready, wifi, agentVars, pool, cmdQueue, subs,
                 netVars, callVars>>

-----------------------------------------------------------------------------
(* MQTT_RUN.                                                               *)

(* A call to the agent from pool_alloc to xQueueSend: nobody else runs     *)
(* in between.  Where no slot is free it fails.                            *)
Enqueue(cmd) ==
  \E s \in Slots :
    /\ LowestFree(s)
    /\ pool' = [pool EXCEPT ![s] = cmd]
    /\ cmdQueue' = Enqueued(cmdQueue, s)
PoolFull == \A s \in Slots : ~IsFree(s)

LinkIsClosed == linkClosed
LinkIsOver == linkClosed \/ s_state = "stopped"

(* The session is over: stop the agent unless it has stopped by itself. *)
RunStops ==
  /\ pc = "run"
  /\ LinkIsOver
  /\ online' = FALSE
  /\ IF StopNeeded /\ ~PoolFull
     THEN /\ Enqueue([type |-> "stop", of |-> None, by |-> Me])
          /\ waiting' = CHOOSE s \in Slots : LowestFree(s)
          /\ given' = FALSE
          /\ Goto("stop")
     ELSE /\ Goto("reopen")
          /\ UNCHANGED <<pool, cmdQueue, waiting, given>>
  /\ UNCHANGED <<parts, ramq, stored, topics, ready, wifi, agentVars, subs, connSem, netVars,
                 held, accepted>>

StopDone ==
  /\ pc = "stop"
  /\ StopReturns \/ StopTimesOut
  /\ Goto("reopen")
  /\ UNCHANGED <<parts, ramq, stored, topics, ready, online, wifi>>

(* ESP01_Disconnect, and the pause of 5 s. *)
Reopen ==
  /\ pc = "reopen"
  /\ Disconnect
  /\ ready' = FALSE
  /\ AskWifi("tcp_connect", "wifi_connect")
  /\ UNCHANGED <<parts, ramq, stored, topics, online, wifi, agentVars, apiVars, session,
                 records, linkClosed, broker, callVars>>

RunOn ==
  /\ pc = "run"
  /\ ~LinkIsOver
  /\ online' = (s_state = "connected")
  /\ IF online' /\ ~ready
     THEN Goto("subscribe") /\ topics' = Topics
     ELSE Goto("status") /\ UNCHANGED topics
  /\ UNCHANGED <<parts, ramq, stored, ready, wifi, mqttVars>>

(* mqtt_config_callbacks_init, topic by topic; there is always a slot and  *)
(* a registry entry for them (SubscriptionsFit).                           *)
Subscribe ==
  /\ pc = "subscribe"
  /\ topics # <<>>
  /\ Len(subs) < MaxSubs
  /\ Enqueue([type |-> "subscribe", of |-> Head(topics), by |-> Me])
  /\ topics' = Tail(topics)
  /\ UNCHANGED <<pc, parts, ramq, stored, ready, online, wifi, agentVars, subs, connSem,
                 netVars, callVars>>

Subscribed ==
  /\ pc = "subscribe"
  /\ topics = <<>>
  /\ ready' = TRUE
  /\ Goto("status")
  /\ UNCHANGED <<parts, ramq, stored, topics, online, wifi, mqttVars>>

(* mqtt_task_publish_status, when MQTT_TASK_STATUS_PERIOD_MS = 30 s are     *)
(* over (the last heartbeat has left the pool by then) and a slot is free. *)
StatusQueued == \E s \in Slots : pool[s].type = "status"
Status ==
  /\ pc = "status"
  /\ \/ UNCHANGED <<pool, cmdQueue>>
     \/ /\ online
        /\ ~StatusQueued
        /\ Enqueue([type |-> "status", of |-> None, by |-> Me])
  /\ Goto(IF online THEN "flush" ELSE "sleep")
  /\ UNCHANGED <<parts, ramq, stored, topics, ready, online, wifi, agentVars, subs, connSem,
                 netVars, callVars>>

CanPublish == s_state = "connected" /\ ~PoolFull

(* The large messages out of queue whose commands are not executed yet. *)
Referenced(queue) == Long \cap Contents(queue) \cap Pending

(* build_full_inspection_json overwrites what was in json_payload before.  *)
Format(queue) == spoilt' = spoilt \cup Referenced(queue)

(* A function that returns leaves its json_payload to the functions called *)
(* after it, which may overwrite it or not.                                *)
Forsake(queue) == \E some \in SUBSET Referenced(queue) : spoilt' = spoilt \cup some

(* mqtt_task_publish_to_topic of json_payload, which was just filled. *)
Publish(m) ==
  /\ CanPublish
  /\ Enqueue([type |-> "publish", of |-> m, by |-> Me])
  /\ accepted' = Append(accepted, m)
  /\ UNCHANGED <<agentVars, subs, connSem, netVars, held, waiting, given>>

(* One round of mqtt_task_flush_persistent_inspections. *)
FlushOne ==
  /\ pc = "flush"
  /\ stored # <<>>
  /\ Head(stored) \notin TooLong
  /\ Format(Backlog)
  /\ Publish(Head(stored))
  /\ stored' = Tail(stored)
  /\ UNCHANGED <<pc, parts, ramq, topics, ready, online, wifi>>

(* Its ends: nothing left, a message that cannot be read or makes no JSON  *)
(* and is dropped, a failed publish after which the message is stored      *)
(* again; that this may fail too is ignored.                               *)
StoredAgain ==
  \/ stored' = Append(Tail(stored), Head(stored)) /\ UNCHANGED trouble
  \/ stored' = Tail(stored) /\ Unlucky

FlushEnds ==
  /\ pc = "flush"
  /\ \/ /\ \/ stored = <<>> /\ UNCHANGED <<stored, trouble>>
           \/ stored # <<>> /\ stored' \in {stored, Tail(stored)} /\ Unlucky
        /\ Forsake(Backlog)
     \/ /\ stored # <<>>
        /\ \/ /\ Head(stored) \in TooLong
              /\ stored' = Tail(stored)
              /\ UNCHANGED trouble
           \/ /\ Head(stored) \notin TooLong
              /\ ~CanPublish
              /\ StoredAgain
        /\ Format(Backlog)
  /\ Goto("service")
  /\ UNCHANGED <<parts, ramq, topics, ready, online, wifi, agentVars, apiVars, session, records,
                 net, linkClosed, broker, held, waiting, given, accepted>>

(* One round of mqtt_task_service_inspection_queue: peek, publish, then    *)
(* remove, and a pause of 30 ms.                                           *)
ServiceOne ==
  /\ pc = "service"
  /\ ramq # <<>>
  /\ Head(ramq) \notin TooLong
  /\ Format(Parts)
  /\ Publish(Head(ramq))
  /\ ramq' = inspection_queue_receive(ramq)
  /\ Goto("pace")
  /\ UNCHANGED <<parts, stored, topics, ready, online, wifi>>

DropTooLong ==
  /\ pc = "service"
  /\ ramq # <<>>
  /\ Head(ramq) \in TooLong
  /\ Format(Parts)
  /\ ramq' = inspection_queue_receive(ramq)
  /\ UNCHANGED <<pc, parts, stored, topics, ready, online, wifi, mqttVars>>

Pace ==
  /\ pc = "pace"
  /\ Goto("service")
  /\ UNCHANGED <<parts, ramq, stored, topics, ready, online, wifi, mqttVars>>

ServiceEnds ==
  /\ pc = "service"
  /\ \/ ramq = <<>> /\ Forsake(Parts)
     \/ /\ ramq # <<>>
        /\ Head(ramq) \notin TooLong
        /\ ~CanPublish
        /\ Format(Parts)
  /\ Goto("sleep")
  /\ UNCHANGED <<parts, ramq, stored, topics, ready, online, wifi, agentVars, apiVars,
                 netVars, held, waiting, given, accepted>>

Sleep ==
  /\ pc = "sleep"
  /\ Goto("run")
  /\ UNCHANGED <<parts, ramq, stored, topics, ready, online, wifi, mqttVars>>

-----------------------------------------------------------------------------
TaskStep ==
  \/ /\ \/ WifiCheck \/ WifiConnect \/ TcpOpens \/ TcpFails \/ InitAgent \/ StartAgent
        \/ StartFails \/ WaitConnected \/ RunStops \/ StopDone \/ Reopen \/ RunOn
        \/ Subscribe \/ Subscribed \/ Status \/ Pace \/ Sleep
     /\ UNCHANGED spoilt
  \/ FlushOne \/ FlushEnds \/ ServiceOne \/ DropTooLong \/ ServiceEnds

Agent == AgentMayRun /\ AgentStep /\ UNCHANGED taskVars

(* The agent notices that the connection is gone. *)
AgentNotices == AgentMayRun /\ ProcessFails /\ UNCHANGED taskVars

WifiDrops ==
  /\ wifi
  /\ Unlucky
  /\ wifi' = FALSE
  /\ net' = IF net = "up" THEN "down" ELSE net
  /\ UNCHANGED <<pc, parts, ramq, stored, topics, ready, online, spoilt, agentVars, apiVars,
                 session, records, linkClosed, broker, callVars>>

Trouble == ((LinkDrops \/ ClosedSeen) /\ UNCHANGED taskVars) \/ WifiDrops

Next == Inspect \/ TaskStep \/ Agent \/ Trouble

(* mqtt_task always goes on: what it waits for has a timeout.  The agent   *)
(* gets the processor in every pause of mqtt_task, and finds a dead        *)
(* connection even if CLOSED is never seen: its heartbeats no longer get   *)
(* through, so that 60 s after the last packet sent MQTT_ProcessLoop sends *)
(* a PINGREQ, which fails too (core_mqtt_config.h l.64-84 turns off the    *)
(* pings of an idle connection, but not the cap of the keep-alive).        *)
Spec == /\ Init /\ [][Next]_vars
        /\ WF_vars(TaskStep)
        /\ SF_vars(Agent)
        /\ SF_vars(AgentNotices)

-----------------------------------------------------------------------------
(* Type invariant. *)
TaskTypeOK ==
  /\ AgentTypeOK
  /\ pc \in Waits \cup {"wifi_check", "mqtt_start", "start", "reopen", "run", "subscribe", "status", "flush", "service"}
  /\ Contents(parts) \cup Contents(ramq) \cup Contents(stored) \subseteq Messages
  /\ Len(ramq) <= RamLen
  /\ topics \in Seq(Filters)
  /\ ready \in BOOLEAN
  /\ online \in BOOLEAN
  /\ wifi \in BOOLEAN

(* An inspection is handed to the agent at most once, although it is only  *)
(* peeked at, retried after a failed publish, taken out of flash and put   *)
(* back, over any reconnections.                                           *)
HandedOverOnce ==
  /\ \A i, j \in DOMAIN accepted : i # j => accepted[i] # accepted[j]
  /\ Contents(accepted) \cap (Contents(ramq) \cup Contents(stored) \cup Contents(parts)) = {}

(* The inspections waiting in RAM are sent in the order they were made. *)
RamInOrder ==
  \A m, n \in Contents(Parts) : SentBefore(m, n) => Precedes(m, n, Parts)

(* The subscriptions of a new session always find a slot and a registry    *)
(* entry, so they are never made in part and never made twice.             *)
SubscriptionsFit ==
  /\ pc = "subscribe" => /\ Len(topics) <= Cardinality({s \in Slots : IsFree(s)})
                         /\ Len(subs) + Len(topics) <= MaxSubs
  /\ \A i, j \in DOMAIN subs : i # j => subs[i] # subs[j]

(* Once the network stops failing the device is online for good: Wi-Fi,    *)
(* connection and session are up, the agent runs, and the topics are       *)
(* subscribed to.                                                          *)
Online ==
  /\ wifi /\ net = "up" /\ session /\ s_state = "connected"
  /\ at \in {"drain", "exec"}
  /\ Contents(subs) = Contents(Topics)
Recovers == <>[]Online

(* The RAM queue is worked off once the network stops failing. *)
WorkedOff == <>[](ramq = <<>>)

(* On a connection that never fails every inspection that the RAM queue or *)
(* the flash queue holds reaches the broker, if its JSON can be made and   *)
(* the agent never executes a publish command while all the records of     *)
(* unacknowledged messages are taken (coreMQTT then refuses the message    *)
(* and nobody notices); large ones may be overwritten (PayloadAsGiven).    *)
Exhausted == Executing("publish") /\ Cardinality(records) >= Records
Delivered ==
  [](trouble = MaxTrouble /\ ~Exhausted) =>
    \A m \in Messages \ Long :
      m \in Contents(ramq) \cup Contents(stored) ~> m \in Contents(broker)

(* Unless the flash fails, an inspection stays in one of the queues until  *)
(* it was accepted by the agent, however the two queues are emptied, put   *)
(* back and filled meanwhile.                                              *)
KeptUntilAccepted ==
  [][trouble' = trouble =>
       \A m \in (Contents(ramq) \cup Contents(stored)) \ TooLong :
         m \in Contents(ramq') \cup Contents(stored') \cup Contents(accepted')]_vars

(* "Larger QoS 1/2 payloads must remain valid until PUBACK/PUBCOMP"        *)
(* (mqtt_agent.h l.304), so at least until their command is executed.      *)
PayloadAsGiven == Pending \cap spoilt = {}
=============================================================================
