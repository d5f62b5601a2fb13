------------------------------ MODULE MqttAgent ------------------------------
(***************************************************************************)
(* The MQTT agent (STM32CubeIDE/Application/User/netif/mqtt_agent.c): a    *)
(* task that owns the MQTT session, a pool of command slots, a queue of    *)
(* pointers into that pool, and the calls other tasks make.                *)
(*                                                                         *)
(* A call takes a slot from the pool and then sends its address to the     *)
(* queue; other tasks, and the agent, run in between.  The agent runs at a *)
(* lower priority than its callers and may be suspended between any two of *)
(* its steps, and for long in the middle of a network call (a send may     *)
(* take MQTT_SEND_TIMEOUT_MS = 20 s, a CONNECT waits 5 s for its CONNACK). *)
(*                                                                         *)
(* The network is the TCP connection the ESP-01 holds: "up", "down" (dead, *)
(* noticed or not) or "none".  What goes wrong on it is counted, so that a *)
(* behaviour has at most MaxTrouble such events.                           *)
(***************************************************************************)
EXTENDS Naturals, Sequences, FiniteSets

CONSTANTS
  Clients,     (* the tasks that call the agent                            *)
  Messages,    (* the payloads published, each once                        *)
  Filters,     (* the topic filters subscribed to                          *)
  QueueLen,    (* MQTT_AGENT_COMMAND_QUEUE_LEN                             *)
  CmdsPerLoop, (* MQTT_AGENT_CMDS_PER_LOOP                                 *)
  Records,     (* MQTT_AGENT_OUTGOING_PUBLISH_MAX                          *)
  MaxSubs,     (* MQTT_AGENT_MAX_SUBSCRIPTIONS                             *)
  MaxRetries,  (* the 4 of agent_task                                      *)
  MaxTrouble,  (* bound: network failures in a behaviour                   *)
  None         (* no message, no client                                    *)

ASSUME QueueLenAssumption == QueueLen \in Nat \ {0}
ASSUME CmdsPerLoopAssumption == CmdsPerLoop \in Nat \ {0}
ASSUME LimitsAssumption ==
  /\ Records \in Nat
  /\ MaxSubs \in Nat
  /\ MaxRetries \in Nat \ {0}
  /\ MaxTrouble \in Nat
ASSUME NoneAssumption == None \notin Messages \cup Filters \cup Clients

VARIABLES
  s_state,    (* what MqttAgent_GetState returns                           *)
  at,         (* where the agent task is; s_agentTask is NULL at "none"    *)
  retry,      (* s_retryCount                                              *)
  pool,       (* s_cmdPool: the command in each slot, or Free              *)
  cmdQueue,   (* s_cmdQueue                                                *)
  running,    (* the slot of the command being executed, 0 if none         *)
  count,      (* commands executed by the current drain_command_queue      *)
  subs,       (* s_subs: the filters of the active entries                 *)
  connSem,    (* s_connectedSem                                            *)
  session,    (* the coreMQTT context is connected                         *)
  records,    (* s_outRecords: messages sent and not acknowledged          *)
  net,        (* the TCP connection                                        *)
  linkClosed, (* s_netCtx.linkClosed: the driver has seen CLOSED           *)
  held,       (* the slot a call has taken and not sent yet, 0 if none     *)
  waiting,    (* the slot of the CMD_STOP whose caller waits, 0 if none    *)
  given,      (* the semaphore of that caller has been given               *)
  accepted,   (* history: the messages whose publish call succeeded        *)
  broker,     (* the messages that reached the broker as they were given   *)
  trouble,    (* network failures still to come                            *)
  spoilt      (* messages that were not copied into their command and      *)
              (* whose bytes the caller has used for something else        *)

agentVars  == <<s_state, at, retry, running, count>>
apiVars    == <<pool, cmdQueue, subs, connSem>>
netVars    == <<session, records, net, linkClosed, broker, trouble>>
callVars   == <<held, waiting, given, accepted>>
mqttVars   == <<s_state, at, retry, pool, cmdQueue, running, count, subs, connSem, session,
               records, net, linkClosed, held, waiting, given, accepted, broker,
               trouble>>

Slots   == 1 .. QueueLen
Free    == [type |-> "free", of |-> None, by |-> None]
Command == [type : {"publish"}, of : Messages, by : Clients]
             \cup [type : {"subscribe"}, of : Filters, by : Clients]
             \cup [type : {"status", "stop"}, of : {None}, by : Clients]

IsFree(s)    == pool[s] = Free
FirstSlot(s)  == s = 1
LowestFree(s) == IsFree(s) /\ \A t \in Slots : IsFree(t) => s <= t

(* xQueueSend puts a command at the back. *)
EnqueuedInFront(q, s) == <<s>> \o q
Enqueued(q, s) == Append(q, s)

AgentInit ==
  /\ s_state = "uninit"
  /\ at = "none"
  /\ retry = 0
  /\ pool = [s \in Slots |-> Free]
  /\ cmdQueue = <<>>
  /\ running = 0
  /\ count = 0
  /\ subs = <<>>
  /\ connSem = FALSE
  /\ session = FALSE
  /\ records = {}
  /\ net = "none"
  /\ linkClosed = FALSE
  /\ held = [c \in Clients |-> 0]
  /\ waiting = 0
  /\ given = FALSE
  /\ accepted = <<>>
  /\ broker = <<>>
  /\ trouble = MaxTrouble
  /\ spoilt = {}

-----------------------------------------------------------------------------
(* The calls.                                                              *)

(* The subscription registry is emptied. *)
RegistryKept == UNCHANGED subs
RegistryCleared == subs' = <<>>

(* MqttAgent_Init: every object is created anew, whoever uses the old one. *)
MqttAgent_Init ==
  /\ pool' = [s \in Slots |-> Free]
  /\ cmdQueue' = <<>>
  /\ connSem' = FALSE
  /\ session' = FALSE
  /\ records' = {}
  /\ RegistryCleared
  /\ s_state' = "disconnected"
  /\ UNCHANGED <<at, retry, running, count, net, linkClosed, broker, trouble, callVars>>

(* MqttAgent_Start; without effect when the agent task exists already. *)
MqttAgent_Start ==
  /\ s_state # "uninit"
  /\ at = "none"
  /\ at' = "entry"
  /\ UNCHANGED <<s_state, retry, running, count, apiVars, netVars, callVars>>

(* pool_alloc and the filling of the slot: the first free slot is taken.   *)
(* When none is free the call returns MQTT_AGENT_ERR_QUEUE.                *)
TakeSlot(c, cmd) ==
  /\ held[c] = 0
  /\ \E s \in Slots :
       /\ LowestFree(s)
       /\ pool' = [pool EXCEPT ![s] = cmd]
       /\ held' = [held EXCEPT ![c] = s]

(* MqttAgent_Publish(QoS 1) until its command is filled. *)
PublishAlloc(c, m) ==
  /\ TakeSlot(c, [type |-> "publish", of |-> m, by |-> c])
  /\ UNCHANGED <<agentVars, cmdQueue, subs, connSem, netVars, waiting, given, accepted>>

(* MqttAgent_Subscribe, with its check that the registry has an entry left. *)
SubscribeAlloc(c, f) ==
  /\ Len(subs) < MaxSubs
  /\ TakeSlot(c, [type |-> "subscribe", of |-> f, by |-> c])
  /\ UNCHANGED <<agentVars, cmdQueue, subs, connSem, netVars, waiting, given, accepted>>

(* MqttAgent_Publish of the status heartbeat (QoS 0). *)
StatusAlloc(c) ==
  /\ TakeSlot(c, [type |-> "status", of |-> None, by |-> c])
  /\ UNCHANGED <<agentVars, cmdQueue, subs, connSem, netVars, waiting, given, accepted>>

(* MqttAgent_Stop.  When the agent is gone already it returns at once. *)
StopNeeded == at # "none" /\ s_state # "stopped"
StopAlloc(c) ==
  /\ waiting = 0
  /\ StopNeeded
  /\ TakeSlot(c, [type |-> "stop", of |-> None, by |-> c])
  /\ UNCHANGED <<agentVars, cmdQueue, subs, connSem, netVars, waiting, given, accepted>>

(* xQueueSend.  There is always room (SendNeverWaits), so the call neither *)
(* waits nor gives its slot back.                                          *)
Send(c) ==
  /\ held[c] # 0
  /\ Len(cmdQueue) < QueueLen
  /\ cmdQueue' = Enqueued(cmdQueue, held[c])
  /\ held' = [held EXCEPT ![c] = 0]
  /\ LET cmd == pool[held[c]]
     IN  /\ accepted' = IF cmd.type = "publish" THEN Append(accepted, cmd.of) ELSE accepted
         /\ IF cmd.type = "stop"
            THEN waiting' = held[c] /\ given' = FALSE
            ELSE UNCHANGED <<waiting, given>>
  /\ UNCHANGED <<agentVars, pool, subs, connSem, netVars>>

(* The wait in MqttAgent_Stop ends with the semaphore or without it; the   *)
(* semaphore lives on the caller's stack and is gone after either.         *)
StopReturns ==
  /\ waiting # 0
  /\ given
  /\ waiting' = 0
  /\ given' = FALSE
  /\ UNCHANGED <<agentVars, apiVars, netVars, held, accepted>>

StopTimesOut ==
  /\ waiting # 0
  /\ ~given
  /\ waiting' = 0
  /\ UNCHANGED <<agentVars, apiVars, netVars, held, given, accepted>>

-----------------------------------------------------------------------------
(* The agent task.                                                         *)

Entry ==
  /\ at = "entry"
  /\ s_state' = "connecting"
  /\ at' = "connect"
  /\ UNCHANGED <<retry, running, count, apiVars, netVars, callVars>>

StopAtHead == cmdQueue # <<>> /\ pool[Head(cmdQueue)].type = "stop"

(* xSemaphoreGive on the completion semaphore of a CMD_STOP: the caller is *)
(* woken if it still waits; otherwise the semaphore does not exist.        *)
Give(s) == given' = IF waiting = s THEN TRUE ELSE given

(* set_state(MQTT_AGENT_STATE_STOPPED), with vTaskDelete still to come. *)
BecomeStoppedAndGoOn ==
  /\ s_state' = "stopped"
  /\ at' = "connect"
BecomeStopped ==
  /\ s_state' = "stopped"
  /\ at' = "ending"

(* stop_if_requested, before each attempt to connect: only a CMD_STOP at   *)
(* the head of the queue is seen.                                          *)
StopIfRequested ==
  /\ at = "connect"
  /\ StopAtHead
  /\ cmdQueue' = Tail(cmdQueue)
  /\ Give(Head(cmdQueue))
  /\ pool' = [pool EXCEPT ![Head(cmdQueue)] = Free]
  /\ BecomeStopped
  /\ UNCHANGED <<retry, running, count, subs, connSem, netVars, held, waiting, accepted>>

TryConnect ==
  /\ at = "connect"
  /\ ~StopAtHead
  /\ at' = "connecting"
  /\ UNCHANGED <<s_state, retry, running, count, apiVars, netVars, callVars>>

(* Every drain_command_queue counts from 0. *)
CountOn == UNCHANGED count
CountAgain == count' = 0

Connected ==
  /\ at = "connecting"
  /\ net = "up"
  /\ session' = TRUE
  /\ retry' = 0
  /\ s_state' = "connected"
  /\ connSem' = TRUE
  /\ at' = "drain"
  /\ CountAgain
  /\ UNCHANGED <<running, pool, cmdQueue, subs, records, net, linkClosed, broker, trouble, callVars>>

(* A network call on a live connection may fail too, as trouble. *)
NetworkFails ==
  IF net = "up"
  THEN trouble > 0 /\ trouble' = trouble - 1
  ELSE UNCHANGED trouble

(* The count of failed attempts is static and survives the agent task; it  *)
(* is only compared with MaxRetries, and not counted beyond it here.       *)
GivesUpNever == FALSE
GivesUp == retry + 1 >= MaxRetries
ConnectFails ==
  /\ at = "connecting"
  /\ NetworkFails
  /\ retry' = IF retry < MaxRetries THEN retry + 1 ELSE retry
  /\ IF GivesUp
     THEN BecomeStopped
     ELSE at' = "backoff" /\ UNCHANGED s_state
  /\ UNCHANGED <<running, count, apiVars, session, records, net, linkClosed, broker, callVars>>

BackoffEnds ==
  /\ at = "backoff"
  /\ at' = "connect"
  /\ UNCHANGED <<s_state, retry, running, count, apiVars, netVars, callVars>>

(* drain_command_queue runs at most MQTT_AGENT_CMDS_PER_LOOP commands. *)
MoreThisLoopByOne == count <= CmdsPerLoop
MoreThisLoop == count < CmdsPerLoop

(* drain_command_queue: the next command leaves the queue. *)
Receive ==
  /\ at = "drain"
  /\ MoreThisLoop
  /\ cmdQueue # <<>>
  /\ running' = Head(cmdQueue)
  /\ cmdQueue' = Tail(cmdQueue)
  /\ at' = "exec"
  /\ UNCHANGED <<s_state, retry, count, pool, subs, connSem, netVars, callVars>>

(* The end of a command: its slot is free again, whatever became of it. *)
FreeSlotNot ==
  /\ running' = 0
  /\ count' = count + 1
  /\ at' = "drain"
  /\ UNCHANGED pool
FreeSlot ==
  /\ pool' = [pool EXCEPT ![running] = Free]
  /\ running' = 0
  /\ count' = count + 1
  /\ at' = "drain"

Executing(type) == at = "exec" /\ pool[running].type = type

(* The driver passes what it is given to the ESP-01, which may not know    *)
(* yet that the connection is dead.                                        *)
CanSend == net # "none" /\ ~linkClosed

(* What the broker gets: of a payload larger than payloadBuf the command   *)
(* has only the address, and whatever lies there now is sent.              *)
Sent(m) == IF m \in spoilt THEN <<>> ELSE <<m>>

(* MQTT_Publish, QoS 1.  The result goes to pCmd->result, which nobody     *)
(* reads; without a free record the message is not even sent.              *)
DoPublish ==
  /\ Executing("publish")
  /\ LET m == pool[running].of
     IN  \/ /\ ~session \/ Cardinality(records) >= Records
            /\ UNCHANGED <<session, records, broker, trouble>>
         \/ /\ session
            /\ Cardinality(records) < Records
            /\ CanSend
            /\ records' = records \cup {m}
            /\ broker' = IF net = "up" THEN broker \o Sent(m) ELSE broker
            /\ UNCHANGED <<session, trouble>>
         \/ /\ session
            /\ Cardinality(records) < Records
            /\ NetworkFails
            /\ session' = FALSE
            /\ UNCHANGED <<records, broker>>
  /\ FreeSlot
  /\ UNCHANGED <<s_state, retry, cmdQueue, subs, connSem, net, linkClosed, callVars>>

DoSubscribe ==
  /\ Executing("subscribe")
  /\ \/ /\ session
        /\ CanSend
        /\ subs' = IF Len(subs) < MaxSubs THEN Append(subs, pool[running].of) ELSE subs
        /\ UNCHANGED <<session, trouble>>
     \/ /\ session
        /\ NetworkFails
        /\ session' = FALSE
        /\ UNCHANGED subs
     \/ /\ ~session
        /\ UNCHANGED <<session, subs, trouble>>
  /\ FreeSlot
  /\ UNCHANGED <<s_state, retry, cmdQueue, connSem, records, net, linkClosed, broker, callVars>>

(* MQTT_Publish, QoS 0: the status heartbeat leaves no trace here. *)
DoStatus ==
  /\ Executing("status")
  /\ FreeSlot
  /\ UNCHANGED <<s_state, retry, cmdQueue, subs, connSem, netVars, callVars>>

(* CMD_STOP: MQTT_Disconnect, then the end of the task. *)
DoStop ==
  /\ Executing("stop")
  /\ session' = FALSE
  /\ Give(running)
  /\ pool' = [pool EXCEPT ![running] = Free]
  /\ running' = 0
  /\ BecomeStopped
  /\ UNCHANGED <<retry, count, cmdQueue, subs, connSem, records, net, linkClosed, broker,
                 trouble, held, waiting, accepted>>

(* MQTT_ProcessLoop after the drain: an acknowledgement, nothing, or an    *)
(* error, which ends the task.                                             *)
Drained == at = "drain" /\ (cmdQueue = <<>> \/ ~MoreThisLoop)

ProcessAck ==
  /\ Drained
  /\ session
  /\ net = "up"
  /\ \E m \in records : records' = records \ {m}
  /\ CountAgain
  /\ UNCHANGED <<s_state, at, retry, running, apiVars, session, net, linkClosed, broker,
                 trouble, callVars>>

ProcessIdle ==
  /\ Drained
  /\ session
  /\ CountAgain
  /\ UNCHANGED <<s_state, at, retry, running, apiVars, netVars, callVars>>

ProcessFails ==
  /\ Drained
  /\ ~session \/ net # "up"
  /\ session' = FALSE
  /\ BecomeStopped
  /\ UNCHANGED <<retry, running, count, apiVars, records, net, linkClosed, broker, trouble,
                 callVars>>

(* s_agentTask = NULL and vTaskDelete. *)
TaskEnds ==
  /\ at = "ending"
  /\ at' = "none"
  /\ UNCHANGED <<s_state, retry, running, count, apiVars, netVars, callVars>>

AgentStep ==
  \/ Entry \/ StopIfRequested \/ TryConnect \/ Connected \/ ConnectFails \/ BackoffEnds
  \/ Receive \/ DoPublish \/ DoSubscribe \/ DoStatus \/ DoStop
  \/ ProcessAck \/ ProcessIdle \/ ProcessFails \/ TaskEnds

(* The connection dies. *)
LinkDrops ==
  /\ net = "up"
  /\ trouble > 0
  /\ net' = "down"
  /\ trouble' = trouble - 1
  /\ UNCHANGED <<agentVars, apiVars, session, records, linkClosed, broker, callVars>>

(* The receive interrupt sees CLOSED.  It may not come, or not be seen. *)
ClosedSeen ==
  /\ net = "down"
  /\ ~linkClosed
  /\ linkClosed' = TRUE
  /\ UNCHANGED <<agentVars, apiVars, session, records, net, broker, trouble, callVars>>

(* ESP01_Connect succeeded: a new connection. *)
OpenConnection ==
  /\ net' = "up"
  /\ linkClosed' = FALSE
  /\ UNCHANGED <<agentVars, apiVars, session, records, broker, trouble, callVars>>

-----------------------------------------------------------------------------
(* The agent with any tasks as its callers: they may call it at any time   *)
(* and in any order, but create it anew only when the agent task is gone   *)
(* and no call is in progress, and start it only when nobody stops it.     *)
(* They leave the bytes of a large payload alone until it was sent.        *)

Quiet == at = "none" /\ waiting = 0 /\ \A c \in Clients : held[c] = 0

Contents(seq) == {seq[i] : i \in DOMAIN seq}

InPool(x) == \E s \in Slots : pool[s].of = x

Call(c) ==
  \/ \E m \in Messages : ~InPool(m) /\ m \notin Contents(accepted)
                         /\ PublishAlloc(c, m)
  \/ \E f \in Filters : ~InPool(f) /\ SubscribeAlloc(c, f)
  \/ StatusAlloc(c)
  \/ StopAlloc(c)
  \/ Send(c)

AgentNext ==
  /\ \/ s_state # "uninit" /\ \E c \in Clients : Call(c)
     \/ StopReturns
     \/ StopTimesOut
     \/ Quiet /\ MqttAgent_Init
     \/ Quiet /\ net # "up" /\ OpenConnection
     \/ waiting = 0 /\ MqttAgent_Start
     \/ AgentStep
     \/ LinkDrops
     \/ ClosedSeen
  /\ UNCHANGED spoilt

(* The agent task runs whenever its callers wait, and what it waits for    *)
(* has a timeout.                                                          *)
agentSpecVars == <<mqttVars, spoilt>>

AgentSpec ==
  AgentInit /\ [][AgentNext]_agentSpecVars /\ WF_agentSpecVars(AgentStep /\ UNCHANGED spoilt)

-----------------------------------------------------------------------------
(* Type invariant. *)
AgentTypeOK ==
  /\ s_state \in {"uninit", "disconnected", "connecting", "connected", "stopped"}
  /\ at \in {"none", "entry", "connect", "connecting", "backoff", "drain", "exec", "ending"}
  /\ retry \in 0 .. MaxRetries
  /\ pool \in [Slots -> Command \cup {Free}]
  /\ cmdQueue \in Seq(Slots)
  /\ running \in 0 .. QueueLen
  /\ count \in 0 .. CmdsPerLoop
  /\ subs \in Seq(Filters)
  /\ connSem \in BOOLEAN
  /\ session \in BOOLEAN
  /\ records \subseteq Messages
  /\ net \in {"none", "up", "down"}
  /\ linkClosed \in BOOLEAN
  /\ held \in [Clients -> 0 .. QueueLen]
  /\ waiting \in 0 .. QueueLen
  /\ given \in BOOLEAN
  /\ accepted \in Seq(Messages)
  /\ broker \in Seq(Messages)
  /\ trouble \in 0 .. MaxTrouble
  /\ spoilt \subseteq Messages

(* Every slot of the pool that is in use is in exactly one place: in the   *)
(* hands of one call, once in the queue, or being executed.  No two tasks  *)
(* fill the same slot, none is lost, none is queued or freed twice.        *)
Places(s) == {c \in Clients : held[c] = s}
               \cup {i \in DOMAIN cmdQueue : cmdQueue[i] = s}
               \cup {t \in {<<running>>} : t = <<s>>}
SlotsAccounted ==
  \A s \in Slots : Cardinality(Places(s)) = IF IsFree(s) THEN 0 ELSE 1

(* A call that has got a slot finds room in the queue, so the timeouts of  *)
(* xQueueSend (1 s, 5 s, or none at all) never matter and no command is    *)
(* given up after its slot was filled.                                     *)
SendNeverWaits == \A c \in Clients : held[c] # 0 => Len(cmdQueue) < QueueLen

(* The commands not yet executed, oldest first, and the messages the       *)
(* publish commands among them are to send.                                *)
Todo == (IF running = 0 THEN <<>> ELSE <<running>>) \o cmdQueue
ToSend(i, m) == pool[Todo[i]].type = "publish" /\ pool[Todo[i]].of = m
Pending == {m \in Messages : \E i \in DOMAIN Todo : ToSend(i, m)}

Precedes(m, n, seq) ==
  \E i, j \in DOMAIN seq : i < j /\ seq[i] = m /\ seq[j] = n

(* m has reached the broker, or is to be sent, ahead of n. *)
SentBefore(m, n) ==
  \/ Precedes(m, n, broker)
  \/ m \in Contents(broker) /\ n \in Pending
  \/ \E i, j \in DOMAIN Todo : i < j /\ ToSend(i, m) /\ ToSend(j, n)

(* What has reached the broker and what is still to be sent are messages   *)
(* accepted, in the order they were accepted and each at most once, over   *)
(* reconnects and restarts of the agent; messages may be missing.          *)
OnceInOrder ==
  /\ Contents(broker) \cup Pending \subseteq Contents(accepted)
  /\ \A m, n \in Messages : SentBefore(m, n) => Precedes(m, n, accepted)
  /\ \A m \in Messages : ~Precedes(m, m, accepted)

(* MqttAgent_Stop reports success only when the agent will do nothing any  *)
(* more.                                                                   *)
StopMeansGone == given => at \in {"ending", "none"}

(* A CMD_STOP in the queue ends the agent, wherever it is: connecting,     *)
(* waiting before the next attempt, or with commands ahead of it.          *)
StopQueued == \E i \in DOMAIN cmdQueue : pool[cmdQueue[i]].type = "stop"
StopTakesEffect == StopQueued ~> at = "none"

(* An accepted message is executed, or the agent ends. *)
CommandsAreExecuted ==
  \A m \in Messages : at # "none" /\ m \in Pending ~> at = "none" \/ m \notin Pending

(* The completion semaphore the agent gives is one somebody waits on ("so  *)
(* that a synchronous caller can block until done", mqtt_agent.c l.104).   *)
GiveIsAwaited ==
  [][\A s \in Slots : pool[s].type = "stop" /\ pool'[s] = Free /\ at' = "ending"
       => given']_mqttVars
=============================================================================
