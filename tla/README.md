# qc_node: a TLA+ development

qc_node is the firmware of a quality-control terminal (STM32H7, FreeRTOS,
TouchGFX, an ESP-01 Wi-Fi modem on a UART). An operator logs in with a PIN,
marks the defects of each part on two screens, and every inspected part goes to
an MQTT broker; the operator list and the defect catalogue come back from the
broker as retained messages. This directory holds TLA+ models of the program,
TLC configurations that check them on small instances, and TLAPS proofs.

Paths below are those of the repository. Short names used for long paths:
`U/` is `src/STM32CubeIDE/Application/User/`, `G/` is `src/TouchGFX/gui/src/`.

## 1. The system

### Tasks and what runs when

| task | created in | priority | does |
|---|---|---|---|
| GUI (TouchGFX) | `src/Core/Src/main.c` | osPriorityNormal (24) | screens, presenters, Model |
| MQTT task | `src/Core/Src/main.c` | osPriorityNormal (24) | Wi-Fi, TCP, the agent's life, sending inspections |
| MQTT agent | `U/netif/mqtt_agent.c` | 3 | the MQTT session; runs the config callbacks |
| UART interrupt | `U/netif/esp01_transport.c` | interrupt | moves DMA bursts into the receive ring |

GUI and MQTT task are time-sliced. The agent runs only when both wait; the
models use this in both directions: the MQTT task's steps between two waits are
atomic for the agent, and the agent may be suspended between any two writes.

### Components

| component | files | state | operations | status |
|---|---|---|---|---|
| Flash queue | `src/Application/net/persistent_inspection_queue.c` | control record and message array in NOR flash | init, store, retrieve, has_pending, clear | `PersistentQueue`, `BoundedFifo` |
| RAM queue | `src/Application/net/inspection_queue.c` | one RTOS queue of 32 | init, send, peek, receive | `MqttTask` |
| MQTT agent | `U/netif/mqtt_agent.c` | command pool and queue, session, outgoing records, subscription registry, semaphores | Init, Start, Stop, WaitConnected, Publish, Subscribe, agent loop | `MqttAgent` |
| MQTT task | `U/mqtt/mqtt_task.c` | taskState, configCallbacksReady, s_mqttConnected | WIFI_CHECK .. MQTT_RUN, flush, service, status | `MqttTask` |
| Config callbacks | `src/Application/mqtt/mqtt_config_callbacks.c` | none of its own | subscribe; apply operators, products | `MqttTask`, `DomainTables` |
| Operators, defect catalogue | `U/domain/operator_list.c`, `defect_config.c`, `config_parser.c` | tables in RAM, no lock | set, find, check PIN | `DomainTables` |
| Session, GUI model, screens | `U/domain/session.c`, `G/model/Model.cpp`, views and presenters | session, selection, note, pending part | login .. summary | `InspectionFlow` |
| Clock | `U/time/time_source.c` | base epoch, base tick, valid | set, now | `TimeSource` |
| ESP-01 driver | `U/netif/esp01_transport.c` | receive ring, +IPD parser, linkClosed | connect, send, recv, disconnect, AT commands | `EspLink` |
| Configuration store | `U/persistence/config_store.c` | operators, products, metadata, credentials in NOR flash | write, read, clear | `ConfigStore` |
| Text: JSON, payloads, PIN hash, log | `U/domain/pin_hash.c`, `U/mqtt/mqtt_payloads.c`, ... | none | | not modelled |
| Boot, peripherals, vendored code | `src/Core`, `src/Drivers`, `src/Middlewares` | | | not modelled |

### How they interact

    GUI --inspection_queue_send--> RAM queue --peek/publish/receive--> MQTT task
    flash queue --retrieve/publish/(store again)--> MQTT task
    MQTT task --MqttAgent_* (slot from the pool, address to the queue)--> agent
    agent --MQTT_*, esp01_send/recv--> ESP-01 ~~> broker
    broker ~~> agent --config callbacks--> tables --read without lock--> GUI
    MQTT task --time_source_set_utc--> clock --time_source_now_utc--> GUI

### What is hard, and what makes each part correct

- Flash queue: NOR flash sets a bit only by erasing a whole sector, messages
  straddle sectors, a command may fail or power may go between any two
  commands. Correct: every call that works is a call of a FIFO, and a fault may
  lose or damage but not reorder, repeat or bring back a message; the three
  numbers of the control record agree and nobody's neighbour is damaged, except
  by a rewrite that is cut short.
- Configuration store: data and their sizes are in different sectors, both kinds
  share one metadata record, and only that has a CRC. Correct: what is read is
  the configuration stored last; after an attempt that failed, at worst a
  mixture of the attempts since and that one.
- Agent: a call fills a slot and queues its address in two steps, with other
  tasks and the agent in between; a stop races with backoff and CONNECT.
  Correct: a slot is in one place, a send never blocks, order is kept, a stop
  takes effect and its success is real.
- MQTT task: it replaces agents that may not have ended, on links that die
  silently. Correct: no inspection twice or out of order, everything is
  subscribed once per session, the device always comes back.
- ESP-01 driver: one ring carries answers, events and payload, the interrupt
  overwrites it under its reader, every wait may end before its answer comes,
  and takes a byte of payload for its answer. Correct: coreMQTT reads the
  broker's bytes of this connection, the modem never takes a command for
  payload, a successful send was passed on. The code does this with exceptions,
  each of which a property names (section 3).
- Tables: rewritten word by word under a reader of higher priority. Correct:
  the reader never sees a mixture.
- Inspection flow: state outlives screens. Correct: operator, defects and note
  of a part belong to it. For the operator there is one exception, a login at the
  moment at which the list is half wiped (section 3), and the defects may be
  resolved against a half-written catalogue (`st_defects`).
- Clock: three variables, two tasks, a tick count that wraps. Correct: a stamp
  is 0 or true, and stamps do not go back.

`PROJECT.json` lists every hazard found, at its line, with the properties that
cover it or the reason why none does.

## 2. Modules

| module | extends | is |
|---|---|---|
| `BoundedFifo` | | what a message queue promises |
| `PersistentQueue` | | the flash queue, one flash command per step; refines `BoundedFifo` |
| `PersistentQueue_proofs` | `PersistentQueue` | its invariant and safety theorems |
| `PersistentQueue_refinement` | `PersistentQueue_proofs` | that it implements `BoundedFifo` |
| `ConfigStore` | | the configuration store, one flash command per step |
| `ConfigStore_proofs` | `ConfigStore` | its theorems |
| `MqttAgent` | | the agent, its calls, the network under it |
| `MqttAgent_proofs` | `MqttAgent` | its theorems |
| `MqttTask` | `MqttAgent` | the MQTT task as the agent's only caller, with both queues |
| `MqttTask_proofs` | `MqttTask`, `MqttAgent_proofs` | its theorems |
| `EspLink` | | the ESP-01 driver, the modem and the broker's bytes |
| `EspLink_proofs` | `EspLink` | its theorems |
| `DomainTables` | | the tables and the agent task writing them |
| `InspectionFlow` | `DomainTables` | session, Model and screens reading them |
| `InspectionFlow_proofs` | `InspectionFlow` | its theorems |
| `TimeSource` | | the clock |
| `TimeSource_proofs` | `TimeSource` | its theorems |
| `MC_*` | | small constants for TLC |

### PersistentQueue

`data` is the message array cell by cell (cell `k` of message `m` is
`<<m, k>>`), `ctrl` the control record or `Unreadable`. `pc` and `op` are the
place in the running call, `cur`, `sec`, `buf`, `msg` its locals.
`Store`, `Retrieve`, `Clear`, `QueueInit` are the calls up to their first flash
command; `UpdateSector` .. `ProgramControl` are `queue_update_sector_range`,
`queue_erase_sector`, `queue_program_bytes`, `write_control`. `PowerLoss` and
`FlashFault` may come at each command, which then had no effect, all of it, or
left a torn cell; `InitMisreads` is the boot that cannot read a good control
record and replaces it by an empty one. `Clears` says which message can be
programmed over which without an erase. `BoundedFifo` is the queue its callers
count on, with a `Fault` for a call that fails: it happened or not, the whole
queue is lost, or messages are damaged, each in its place: what stands in a place
afterwards is the message that stood there, or that message with some cells
spoilt (`Damaged`, here `Spoilt`), never another one.

### ConfigStore

`data` are the regions of the operators and the products cell by cell, `meta` the
sizes in the metadata record, `creds` the credentials; `pc`, `kind`, `conf`,
`sec`, `buf`, `new` are the running call. `Persist` .. `ProgramMeta` are the
persisting half of a configuration callback: `write_region` sector by sector,
then the metadata. `SaveCredentials`, `ClearCredentials`, `ClearAll` and what
follows them are the other writers; `PowerLoss` and `FlashFault` end any of
them. `last` and `started` are history: what was stored with its size last, and
what was begun since (`Complete`, `Lose`, `Account`).

The writers are compiled in only with `CONFIG_PERSIST_TO_FLASH`, which the build
does not define, and the boot reads the configurations, reports them and frees
them. `config_store_init` only prints, although `config_store.h:77` announces
that it reads and validates the store. The module is of the store as it stands
in `config_store.c`.

### MqttAgent

`pool`, `cmdQueue`, `running` are the slots, the queue of addresses and the
command in execution; `held` is the slot a caller has filled and not yet
queued; `at` is the agent task's place. `...Alloc` and `Send` are the two halves
of a call. `Entry` .. `TaskEnds` are `agent_task` and what it calls. `net` is
the TCP connection, `linkClosed` the driver's knowledge of it. `accepted` and
`broker` are history. A command holds a copy of a payload up to 256 bytes and
only the address of a larger one: `spoilt` are the messages whose bytes were
overwritten before they were sent, and what such a command sends is no message
(`Sent`).

### MqttTask

`pc` refines `taskState`. As the only caller, with higher priority, the MQTT
task makes an agent call in one step (`Enqueue`), and the agent moves only at
the places in `Waits`. One action per stage: `WifiCheck` .. `WaitConnected`,
then `RunStops`/`RunOn`, `Subscribe`, `Status`, `FlushOne`/`FlushEnds`,
`ServiceOne`/`DropTooLong`/`Pace`/`ServiceEnds`, `Sleep`. The flash queue
appears as the sequence `stored`, as theorem `Refinement` allows; a call on it
that fails counts as trouble, like a network failure. `Long` are the messages
of more than 256 bytes: `Format` writes the next one into `json_payload` over
those still referenced, and `Forsake` is the return of the function that holds
`json_payload` on its stack.

### EspLink

`buf`, `head`, `tail` are the ring; a symbol in it is an answer, the start or the
length of an +IPD header, or a byte of payload marked with its connection and
its number. `PopIndex`, `PopByte`, `PopTail`, `PopStore` are the four memory
accesses of `ring_pop` (the tail as index and the byte of l.141, the tail again and
its store of l.142), between which `Interrupt` may push and drop. `pc` is the loop
that reads: the drain before a command, the wait for `op`, the drain after a
failure token, or `esp01_recv`, whose static variables are `state` and `remain`.
`Connect` .. `Opened`, `SendStart` .. `SendPayload`, `Disconnect` are the calls;
`WaitTimesOut` may end any wait. `Success` and `Failure` are the tokens with what
else `strstr` finds in them: "OK" in "SEND OK", "CONNECT" in "WIFI DISCONNECT".
`at_wait_result` searches payload too, so a byte of it may match whatever is
waited for (`Matches`); that a token takes several bytes, and that a zero byte
hides what follows it until the window has moved on, only makes this rarer.
`fooled`, `mistaken`, `doubt` and `lost` record that the driver was deceived or
lost something, for the properties.
The modem (`TakePayload` .. `LinkLost`) is modelled from what the driver
expects of it; it obeys commands in order and answers late. One call runs at a
time; the session over it is reduced to its effect, a call that fails and is
followed by `ESP01_Disconnect`. A packet is one `CIPSEND`: `esp01_writev`
gathers it in a buffer and refuses one that is too long, without touching the
link.

### DomainTables and InspectionFlow

The tables have the names of the source (`s_operators`, `s_operator_count`,
`s_products`, ...). `step` is the write the agent does next, and `entry`, `cat` and
`pos` are the variables of the loops around it; there is one action per write, in
the order of the code: `SetOperators` is `operator_list_set` (`WipeId` ..
`CountOperators`), `ApplyProducts` is `config_parser_apply_products` (`ClearAll`,
`CopyProduct`, `CountProducts`, `ApplyCategory`, `Applied`). `OperatorsKept`,
`ProductsKept` and `TypesKept` are how much of a list parser and tables have
room for. The GUI's handlers are steps between any two writes. `Commit` is
`commitSelection` and `setCategoryDefects`, `ShowSummary` is
`publishInspection`. `owner` and `typed` record what really happened; `Caught` is
the login that `owner` leaves out.

### TimeSource

Each access to a clock variable is a step of the setting or the reading task.

## 3. Runs

| run | instance | result |
|---|---|---|
| `pq_faults` | 3 slots of 2 cells, sectors of 3 cells, power losses and failing commands anywhere, any number | control record right, only a rewrite cut short damages, refines `BoundedFifo`: a fault damages messages in their places or empties the queue, and reorders, repeats and brings back none |
| `pq_power_cycle` | the same, power losses only | **violated**: a power loss while the one control record is rewritten empties the queue, against `U/mqtt/mqtt_task.c:200` and `src/TEST_PLAN.md:71` |
| `cs_power` | 2 configurations of each kind, of 1 to 3 cells, sectors of 2 cells, regions of 1 and 2 sectors, 2 credentials, both faults | what was stored last is read, mixtures are of recent attempts only |
| `ma_calls` | 2 callers, 2 slots, 2 messages, 1 failure | slots accounted for, sends never wait, order, a successful stop is real |
| `ma_late_give` | 1 caller | **violated**: after `MqttAgent_Stop` timed out the agent gives a semaphore that no longer exists (`U/netif/mqtt_agent.c:104`) |
| `mt_link` | 3 parts, 1 stored, one too long, 2 slots, 2 records, 2 failures | nothing handed over twice or dropped, RAM order, subscriptions once |
| `mt_live` | 1 part, 1 stored, 2 slots, 1 record, 2 failures | recovery, queue worked off, delivery on a good link, stop and commands take effect |
| `mt_payload` | 1 part, 2 stored and large, no failure | **violated**: `json_payload` is overwritten while a queued command refers to it, against `mqtt_agent.h:304` |
| `el_stream` | ring of 3 (2 usable), 2 connections, 2 packets, segments of 1 or 2 bytes | what coreMQTT reads is what the broker sent, in order and once, and the modem takes commands for commands, with the exceptions listed below |
| `st_flow` | 3 people, 2 lists, 2 catalogues, room for 2 operators and 2 types a category, 3 configurations, 2 buttons a screen, 2 parts | no torn list, the right note, the right operator or none, with the exception below |
| `st_defects` | 1 catalogue received again | **violated**: a part with a marked defect is committed as passed while the catalogue is rewritten (`src/TouchGFX/gui/include/gui/model/Model.hpp:65`) |
| `ts_clock` | tick count modulo 4, time up to 6 | stamps 0 or true, in order |

The comment at `esp01_transport.c:1233` promises "a clean byte stream identical
to what the broker sent". `CleanStream` states when that holds, `InOrderOnce` what
holds even if bytes are lost, `Understood` and `SentIsSent` what holds of sending.
Each of their premises is a weakness of the code, and TLC finds the violation when
the premise is left out (for `mistaken` with `MaxCmds = 2`):

- `lost`: the ring drops the oldest byte when it is full, and the waits of
  `esp01_send` discard what arrives meanwhile, payload included (l.321).
- `doubt`: a prompt that comes after its time-out makes the modem take the next
  command for payload (l.1419).
- `mistaken`: a late "SEND OK" of the session before contains the "OK" that
  `ESP01_Connect` accepts (l.1149), so that a session is opened on a connection that
  is just being closed, and its last bytes are read as the new session's, which
  l.1182 means to exclude.
- `fooled`, first case: `ring_pop` loads the tail and then the byte at it (l.141). If
  the ring is full and the interrupt pushes two bytes between the two loads, the
  newest byte stands where the oldest was; it is delivered at once, and again in
  its turn, after the bytes that came before it. One byte is not enough, and l.142
  loads the tail anew.
- `fooled`, second case: the waits look for their token in +IPD payload too
  (l.363). A `>` in a message, for instance in the packet identifier of a PUBACK
  (318 is 01 3E), ends the wait for the prompt of l.1419; `esp01_send` then writes its
  payload before the modem asks for it, and if `AT+CIPSEND` is answered ERROR the
  payload is taken for a command. "SEND OK" in a message likewise ends the wait
  of l.1448. The comment at l.293-300 calls what the wait consumes no TCP payload.

`Attributed` has an exception too. `operator_list_set` wipes an entry's id before
its PIN (`U/domain/operator_list.c:33`). A login between these two writes
finds the PIN and the id 0, so `session_start` refuses (`U/domain/session.c:29`), but
the screens go on; the session of the operator before was not ended by signing
out, and the parts are published under his id (under 0 if there was nobody before).
`owner` leaves out this one login (`Caught`), so the property says that the parts
then go to the operator before and to no third one, and that this is the only
login for which they do not go to the person who logged in.

`StampsInOrder` ends with the first round of the tick count: 49.7 days after the
clock was set its extrapolation wraps around (`U/time/time_source.c:76`), although
`time_source.h:13` calls the clock monotonic.

The four violated properties state what a comment or document of the
repository says; `PROJECT.json` quotes each. They are not repaired in the
models, and the other properties hold beside them. One more comment is not what
the code does and has no run, as the model shows it at a glance: an inspection
leaves the RAM queue when `MqttAgent_Publish` has queued its command
(`ServiceOne`), not "only after the broker confirms it" (`mqtt_task.c:417`). The
weaknesses listed above have no runs of their own; their premises mark them in the
properties, and the hazards in `PROJECT.json` that no property excludes say so.

### Why the bounds are enough

- Flash queue: with 2-cell messages in 3-cell sectors one message straddles two
  sectors and each sector has two owners. The array is full, empty and wraps
  around. Real sizes differ only in how often this happens; the theorems
  of section 5 are for all sizes.
- Configuration store: the operators always fit one sector, one products
  configuration fits a sector and the other needs two, and one pair can be
  programmed over each other without an erase. The theorems are for all sizes.
- Agent and task: two slots make a full pool reachable, `CmdsPerLoop` below the
  pool size makes a drain end early, `MaxRetries = 2` gives one backoff and one
  giving up, and two failures include a failure during the recovery from the
  first, or of the flash when a stored inspection is put back during it. One
  outgoing record (`mt_live`) or two for four messages (`mt_link`) run out. A RAM
  queue of two places is full with three parts to come.
- `el_stream`: a ring with two usable places overruns within a single frame and
  while `ring_pop` is between its accesses; room for one byte cuts a frame of two
  between two calls of `esp01_recv`; the second connection meets all that the
  first left in the ring, in the modem and in the parser's variables. The
  properties also held, with runs of some minutes that are not part of this
  project, for two unread commands (one packet, segments of 1 byte), and for
  segments of 3 bytes read two at a time. `VIEW` forgets places of the ring that are written before they are
  read; `OnlyOverrunsWithinPop` leaves out interrupts between the accesses of
  `ring_pop` that commute with them; `NotMisled` stops where a command was misread
  or the driver fooled, behind which the properties claim nothing.
- `st_flow`: three configurations are enough for a configuration, a
  replacement, and the retained one again after a reconnect. The two catalogues
  differ in order, in categories and in the product's place; one operator of the
  longer list and one defect type are more than the tables hold. `MaxParts` of 2 lets
  one part's state leak into the next.
- `ts_clock`: the tick count wraps once before and once after the clock is set.

Bounds that cut counters: `MaxBytes`, `MaxConns`, `MaxPackets`, `MaxCmds`,
`MaxWire`, `MaxTrouble`, `MaxConfigs`, `MaxParts`, `MaxTime`;
`retry` is not counted beyond `MaxRetries`, with which alone it is compared.
`st_defects` and nothing else turns deadlock checking off: with one part and no
more configurations the device waits for nothing.

## 4. Fairness

- `PersistentQueue`, `ConfigStore`, `EspLink`, `TimeSource`, `InspectionFlow`:
  none; their properties are safety.
- `MqttAgent!AgentSpec`: weak fairness of the agent's own steps; every wait in it
  has a timeout. Used by the agent's runs only for completeness: they check
  safety.
- `MqttTask!Spec`: weak fairness of the MQTT task, all of whose waits have
  timeouts; strong fairness of the agent, which gets the processor in every
  pause of the MQTT task (30 ms, 50 ms, 5 s) but only there; strong fairness of
  `AgentNotices`: a session on a dead connection ends even if CLOSED is never
  seen. `core_mqtt_config.h` (l.64-84) turns off the pings of an idle connection,
  but the heartbeats of every 30 s no longer get through, so that 60 s after the last
  packet sent (the keep-alive interval, which caps the transmit time-out) coreMQTT
  sends a PINGREQ, which fails as well, and `MQTT_ProcessLoop` returns an
  error. Failures are never forced and are
  finitely many, so the liveness properties speak of what follows the last one.

Timing facts used as guards, each stated at its action: a new TCP connection is
not open while a command of the agent before is still in a send (`TcpOpens`; its
guard `running = 0` is not in the code, and theorem `AgentUnderTask` rests on it);
a heartbeat has left the pool before the next, 30 s later (`Status`).

## 5. What is proved

`PersistentQueue_proofs`, for every capacity, message size, sector size,
set of messages and `Faults`, from the assumptions that the sizes are positive
and the special values are distinct from data:

- `TypeCorrect`: `Spec => []TypeOK`; no cell or sector outside the region is
  touched.
- `ControlAgrees`: `Spec => []ControlConsistent`.
- `Survival`: `Spec => SurvivorsIntact`.

`TypeOK /\ ControlConsistent` is not inductive: the record a call is about to
write is computed from its copy `cur`, and a sector rewrite from its buffer. The
invariant proved is

    IInv == TypeOK /\ ControlConsistent /\ CallOK /\ CopyOK

`CallOK` ties `pc` to the call (`store` has room and works on a sector of its own
slot, `retrieve` has something to take, `cur` is the control record until that is
rewritten), and `CopyOK` says that during a rewrite `buf` together with the
cells already programmed is the sector as it was, with the new chunk. One lemma
per action shows that `IInv` is preserved (`NextInv`). `Survival` then needs that
the slot a store writes is not live (`WriteSlotNotLive`, by arithmetic modulo the
capacity: `WriteSlotFree`) and, per action, that the live cells seen through the
buffer do not change.

`PersistentQueue_refinement`, under the same assumptions:

- `Refinement`: `Spec => ImplementsFifo`; every step maps to a step of `BoundedFifo`
  or a stutter, with faults as well as without.

A retrieve returns the message it read before it rewrote the control record, and
a store makes its message visible by that rewrite; so the proof has to know, at
the control write, what the steps before achieved. `RInv == IInv /\ SoFar` says
it: `StoreSoFar` that the sectors before the current one hold the message, and in
the current one each of its cells is programmed or still in `buf` and can be;
`RetrieveSoFar` that the message read is still in its slot; `EmptySoFar` that
a clear or an init writes an empty record. `Progress` is `Spec => []RInv`.

`ConfigStore_proofs`, for all configurations, lengths, region and sector sizes
and `Faults`:

- `TypeCorrect`: `Spec => []StoreTypeOK`.
- `LastStoredIsRead`: `Spec => []ReadsLastStored`.
- `OnlyRecentIsRead`: `Spec => []MixesOnlyRecent`.

The invariant is `IInv == StoreTypeOK /\ CallOK /\ RecordOK /\ DataOK /\ BufOK /\
SoFar`. `RecordOK` says that a readable metadata record holds the sizes of the
configurations stored last, and that without one none counts as stored; `DataOK`
what each cell below such a size may hold (the piece of that configuration as
long as nothing was begun since, else a piece of a recent one or an undefined
cell); `BufOK` that what will be programmed is no worse; and `SoFar` that a running `Persist` has written what lies before its
place. A sector rewrite does not disturb the other kind because the regions
share no sector.

`MqttAgent_proofs`, for every number of callers, messages and filters, every
queue length and limit:

- `TypeCorrect`: `AgentSpec => []AgentTypeOK`.
- `NoSlotLost`: `AgentSpec => []SlotsAccounted`.
- `RoomForEverySend`: `AgentSpec => []SendNeverWaits`.
- `StopIsFinal`: `AgentSpec => []StopMeansGone`.
- `AcceptedOrderKept`: `AgentSpec => []OnceInOrder`.

The invariant is `AgentTypeOK /\ Owned /\ Control`: every slot in use has exactly
one owner, a call that filled it, a place of the queue or the command in
execution; and a slot is in execution exactly where the agent task executes
one, and a stop is confirmed only by an agent that ends. A queue without
repetitions that lacks one slot is shorter than the pool (`UniqueIsShort`, the
pigeonhole principle), hence a send finds room. For the order of messages two things
are added: `OnceInOrder` itself, which speaks of the commands still to be executed
as well as of those the broker has, and `HeldOnce`: a call that is between filling
its slot and queueing it is about a message that was not accepted before, and
about no other call's. An agent step then removes the first command or none
(`OrderKept`), and a send appends one.

`MqttTask_proofs`, for all parts and backlogs in which no inspection occurs twice
(`OnceAssumption`: each inspection is a record of its own), all topics and
limits, with network and flash failures:

- `PipelineTypes`: `Spec => []TaskTypeOK`.
- `NeverTwice`: `Spec => []HandedOverOnce`.
- `NothingLost`: `Spec => KeptUntilAccepted`.
- `RamOrderKept`: `Spec => [](RamInOrder /\ OnceInOrder)`.
- `EverySubscriptionFits`: `Spec => []SubscriptionsFit`.
- `AgentUnderTask`: the agent's invariants hold under the MQTT task too, although
  it calls `MqttAgent_Init` again and again; this uses the timing fact of `TcpOpens`
  (section 4).

The invariant is the agent's, with two additions: every inspection is in exactly
one of the parts to come, the RAM queue, the flash queue and the accepted ones
(`OnePlace`), and a call of the MQTT task is whole (`CallsWhole`), so that
`MqttAgent_Init` empties the pool when no command is in execution. `RamOrder` adds
that what was handed over comes before what waits in RAM, and this before what
is still to be made. `SessionSubs` says for each stage what the pool and
the registry hold: nothing until the topics are subscribed to, and from then on
each topic at most once, in a command or in the registry. `TopicsAssumption`
(the topics are different and no more than the pool or the registry has
entries) holds with the two topics of `mqtt_config_callbacks.c:207` and
the eight and eight of `MQTT_AGENT_COMMAND_QUEUE_LEN` and
`MQTT_AGENT_MAX_SUBSCRIPTIONS`.

`EspLink_proofs`, for every size of the ring, all segments of at least one byte
(`SegmentsAssumption`), and any number of connections, packets and late answers:

- `TypeCorrect`: `Spec => []LinkTypeOK`.
- `NeverMisread`: `Spec => []Understood`.
- `SuccessIsReal`: `Spec => SentIsSent`.
- `NothingTwice`: `Spec => []InOrderOnce`.
- `NoGap`: `Spec => []CleanStream`.

All four have the premises listed in section 3: a byte of payload may match any
token in the module, and the tail may move between the two loads of l.141, but once
one of these has deceived the driver (`fooled`) nothing is claimed any more.

The invariant is `LinkInv == Types /\ PopOK /\ (Sure => Calm)`; `Sure` says that no
wait for a prompt has timed out and the driver was not fooled. The driver never asks which command an answer
belongs to; `Calm` says why it need not as long as it is sure: no answer to a
command follows a prompt in the wire, the ring and `ring_pop`'s byte (`Order`), a
prompt that is there belongs to the `AT+CIPSEND` that awaits it (`PromptOK`), that
command is the last one written (`CmdsOK`), and so the payload is written
when no other answer is on its way and the confirmation that comes is its
own (`PayloadOK`). The interrupt moves the tail while `ring_pop` holds a copy of
it; `PopOK` says that at the store the tail differs from the copy only while the
ring is full, and
the lemmas `PushFacts` and `StoreFacts` that what the two store brings no symbol
back.

The last two theorems speak of order, so they need the ring, the byte `ring_pop`
holds and the wire as one sequence: `Coming`, of which every step of the driver
takes the first symbols or loses some (`ReadingSteps`), and to which only the
modem appends. `OrderInv` adds to `LinkInv`, as long as the modem was not misled and the
driver not fooled, what the modem was told and what it said (`Modems`: a connection's first payload
comes after the answer that opened it, a new connection after `AT+CIPCLOSE`), and
that what the session has read and will read belongs to its own connection and is in
order (`History`, `Session`). `StreamInv` adds that nothing is missing:
`Takeable` is the state machine of `esp01_recv` over a sequence, and `Expected` says
that it will read `Coming`, from where it stands, to the last byte sent.

`InspectionFlow_proofs`, for all operator lists, catalogues, buttons and texts:

- `FlowTypes`: `FlowSpec => []FlowTypeOK`.
- `NeverTorn`: `FlowSpec => []TypesWhole`.
- `OneAtATime`: `FlowSpec => []HalfInspected`.
- `OwnNote`: `FlowSpec => NoteOfThisPart`.
- `OwnOperator`: `FlowSpec => Attributed`.

The invariant is `FlowInv == TablesInv /\ PartInv /\ FlowTypeOK /\ LoggedIn /\
PartsOK`. `TablesInv` says for each place in the loops what is in the tables
already. `CatalogueOK`: between two configurations they show the newest
(`Settled`); while the ids are wiped, the one before (`Wiping`); then the count is 0
until the new ids are in (`Copying`); and each list appears whole when its count is
written (`Filling`). `OperatorsOK`: an entry's id is wiped before its PIN and comes
back before it, so that an entry with a PIN has that person's id, or none exactly
when the next write is that of its PIN (`Caught`); hence the session is always that
of `owner` (`LoggedIn`), and a part is credited to the person who logged in,
or to the operator before if the login was caught there, never to a third. The proof needs that ids
are positive and products different (`OperatorsAssumption`, `ProductsAssumption`):
they are keys of the server's tables (`defect_config.h:42`, `operator_list.h:27`),
and 0 is what the program itself takes for none. `PartInv` says for each screen what
has been cleared and what may be set when it is reached; the note is empty or typed
for this part on every path to the summary.

`TimeSource_proofs`, for every span of the tick count, start time, SNTP delay and
running time:

- `TimeTypes`: `Spec => []TimeTypeOK`.
- `StampsTrue`: `Spec => StampIsTrue`.
- `StampsMonotonic`: `Spec => StampsInOrder`.

The invariant adds to the types what the missing lock is replaced by: the clock is
set only while it is not valid and declared valid last (`EpochOK`, `AssignedOK`),
so that a reader that found it valid (`ReadOK`) reads variables that no longer
change; and the stamp before is not ahead of the last reading (`StampOK`). The
arithmetic is in `TickDifference`: two tick counts subtracted modulo their span
give the time between them if that is shorter than the span.

## 6. What is only model-checked

Every invariant and every action property that a passing run checks is stated by
a theorem of section 5. What remains with TLC is:

- Liveness (`Recovers`, `WorkedOff`, `Delivered`, `StopTakesEffect`,
  `CommandsAreExecuted`): the argument rests on fairness, and so on `ENABLED`,
  about which TLAPS does not reason here.
- The four violated properties, which are counterexamples and have nothing to prove.

## 7. Not modelled, and why

- Text (JSON tokens, payload formatting, PIN digits and SHA-256, labels, logs):
  pure functions of their input. A payload that does not fit its buffer is the
  constant `TooLong`.
- `mqtt_task_store_inspection`, `MqttAgent_Unsubscribe`, `ui_bridge_*`,
  `mqtt_agent_example.c`, `src/Application/mqtt/mqtt_task.c`: nothing calls them.
- The number of buttons on a defect screen (7 and 10 besides "Autre") against
  the 12 types a category may have: the surplus types cannot be marked.
  `Grid` and `MaxTypes` are constants, and no property is stated.
- The product chosen on the product screen: the code passes it on nowhere
  (`session_start(op.id, 1)`); the model has product 1 as well.
- Joining the Wi-Fi, the SNTP query and the scan of networks read the ring the
  way `AT+CIPSTART` does; their answers are outcomes in `MqttTask`. The ticks of
  `at_wait_result` are left out: a wait may end at any moment.
- coreMQTT after a publish: its retransmission of unacknowledged messages is left
  out, as nothing in the program calls for it (`MQTT_PublishToResend` is not used).
- Vendored code (`src/Drivers`, `src/Middlewares`, coreMQTT, TouchGFX and its generated
  screens and fonts) and the boot in `src/Core`: most of the lines of the repository,
  and none of its own logic. What the modelled code relies on in it is an action
  of the environment (a queue of the RTOS, `MQTT_ProcessLoop`, a flash command, the
  modem).

## 8. What is left

1. `EspLink`: Wi-Fi join and status query, two callers at once (an agent that has
   not ended while the MQTT task reconnects), reception that is not armed again,
   and runs for the exceptions of section 3.
2. Inbound dispatch and the registry in `MqttAgent` at the level of topics.
