# TLA+ models of the household controller daemon (hukong)

`server485` is the daemon of a household controller. It is the master of an RS485 bus with lights, curtains, fresh-air
units and meters ("the device bus"); it is the slave of a master unit called *kongguan* on a second serial port; and it
offers both to the network by XML-RPC. Beside it the repository holds the library it is built on (`lib-linux`: serial
port, job queue, sessions) and the tools that put firmware into the devices (`ymodem`). This directory holds TLA+ modules that model their concurrent core, TLC
configurations that check them on small instances, and proofs, checked by TLAPS, that the main properties hold for
every value of the constants.

All paths below are relative to the repository, which the modules call `src/`.

## 1. The system

### Threads and the state they share

| thread | code | what it does |
|---|---|---|
| XML-RPC threads | `src/rpc_method.cpp` in the xmlrpc-c server | commands and queries of devices; settings; counts; alarms |
| `TimerQuery` | `RepeatComm::TimerQuery::Run`, `src/repeat_comm.cpp:22` | polls the configured devices in turn, sets meters' clocks, passes the fire alarm on |
| `RepeatComm::Run` | `src/repeat_comm.cpp:536` | serves the kongguan's requests one at a time, forwarding some to the device bus |
| two serial readers | `CProtocolComm::OnReceive`, `src/protocol/protocol_comm.cpp:19` | cut the byte stream into packets and queue them, one thread per port |

Shared state: the device bus (`m_method`: `m_packet`, `m_bResend`, `m_queue`, under its `m_mutex`), the query cache
(`m_queryPacketMap`, `m_queryPacketBlockSet`, under `m_query_mutex`), the tables of `RepeatComm` (`m_data_setting`,
`m_data_hukong`, ..., under `RepeatComm::m_mutex`), and volatile flags without a lock (`m_isDevChange`,
`m_isBindChange`, `m_isMeterSyncTime`, `m_isKongguanSetCmd`). Locks are taken in the order `RepeatComm::m_mutex`, bus
`m_mutex`; `m_query_mutex` is never held together with the bus mutex.

### Components

| component | state | operations | hard behaviour | what makes it correct |
|---|---|---|---|---|
| **device bus and query cache** (`protocol_method.cpp`, `protocol_comm.cpp`) | bus mutex, `m_packet`, `m_bResend`, receive queue, cache and block set | `transform`, `SendFrame`, `WaitResponse`, `WaitCheckResult`, `OnReceive` | three threads; lost, late and repeated frames; a cache filled after the bus mutex is free | one exchange at a time, bounded retries, commands always reach the bus, cached replies are their device's, the bus is released, the cache follows the device |
| **timed query thread** | ring of devices, copy of its front, alarm map | head of the loop, turn, rotation; flags set by others | counts change in mid-round; flags read, then cleared; preemption | the ring is one configuration; every device is polled; set commands wait a bounded time; the alarm reaches the units |
| **kongguan link** | receive queue, request in hand | `WaitPopLast`, dispatch, `SendResponseFrame` | requests repeated and changed while one is served | a repeated request is answered, and not answered twice |
| **settings and file** | `m_data_setting`, `m_data_hukong`, `m_data_others`, `/etc/server485.dat` | frames 0x81, 0x01, 0x41, 0x47; RPC setters; `Save`, `Load` | partial saves, fields left open, restart at any point | values stay valid, a restart loses only what was never saved, changes are announced |
| **sensors** | contacts, sensor states, presence told to units and curtains, override counters | `ProcessSen`, `IsHasManBy...`, relayed frames, `aircondition_svm` | contacts that arrive out of a cache; presence read under the mutex and sent without it; tables that change | clients read what the contacts say; units and curtains end up with the presence of their sensors |
| **packet framing** (`protocol_packet.cpp`, `serialport.h`) | driver's buffers, `m_buffer` | `SerialPort::Run`, `OnReceive`, `PacketVaild`, `GetPacket`, `Flush` | lost, damaged and extra bytes; a discard that flushes both directions | an undisturbed exchange succeeds; what a fault or a discard in the middle of a reply leaves behind is soon gone |
| **job queue** (`jobqueue.h`, `condition.h`) | deque, condition | `Push`, `WaitPop`, `Clear` | signals, timeouts, spurious wakeups | no wake-up is lost, order is kept |
| **session manager** (`SimpleNet`) | maps of sessions, copies of them that loops walk | `Connect`, `Poll`, `Delete`, `DeleteDirect`, `Shutdown` | callbacks that change the maps | no session is used after it was deleted, none is lost, callbacks come in order |
| **ymodem sender and upgrade script** | block number, place in the protocol, attempt | `ymodem_send`, `send_data_packets`, `send_file` | lost and damaged bytes, late and stray answers, repetition without a count | the device runs a whole firmware only; the script ends |
| threads, pool (`thread_wrap.cpp`, `threadpool.cpp`) | running flag, task queue | `Start`, `Wait`, `Run`, `Stop` | start and stop | only a test uses the pool |
| scan (`server.cpp`) | counts | queries of all addresses | gaps in the addresses | polling reaches what was found |
| RPC methods, outside collector, watchdog | - | - | - | thin or sequential; see PROJECT.json |

### How they interact

RPC threads, `TimerQuery` and `Run` all call `ProtocolMethod::transform` (**Transform**). `TimerQuery` calls it to
refresh the cache; the others ask the cache first and, once a query is polled, are answered by it only. `Run` raises
`m_isKongguanSetCmd`, `InnerProcess` raises `m_isMeterSyncTime`, `m_isDevChange` and `m_bFireAlarm`, and RPC calls raise
`m_isDevChange` and `m_bBroadcastFireAlarm`: these are the environment of **TimerQuery**. **KongguanLink** decides which
requests of the kongguan are served and which answers it gets; **Settings** is what those requests and RPC calls store, and
**Sensors** is what presence becomes of on its way from a contact, through `Run`, the cache and the polling thread, to
units and curtains. **Receiver** is what one exchange of **Transform** looks like from inside: the bytes, the reader
thread and the job queue (**JobQueue**) between it and the caller. **SessionManager** and **Ymodem** stand beside the
daemon: the first is used by the outside collector, the second speaks to a device in its bootloader.
One module's environment is another's action: an exchange with a device, three or more steps in **Transform**, is one
step that ends well or fails in the other modules, which `Transform!BusReleased` and `BusRefined` justify.

## 2. The modules

Every model is a module of its own with the state as VARIABLES and one action per operation; `MC<module>` gives its
constants values; `<module>Proofs` holds its theorems. Operators that are named in a comment as a *mutant* are
variants of the operator below them with a plausible bug; no specification uses them. They exist to show that each
property notices something (PROJECT.json, `mutants`).

### Transform - the device bus and the query cache

A frame or reply is `[addr, fn, val]`; `fn` stands for the pair (type, function), `val` for the payload, which for a
command is its rank in bus order, so a larger value is a newer state of the device. The source address, part of the
packet id, is left out: it is 0 in every frame of the daemon (`protocol_method.cpp`) and taken to be 0 in those of the
kongguan, which then share the cache with them.

| TLA+ | code |
|---|---|
| `Start`, `MayCall` | the call sites: commands (defaults), polls (`bSaveInBuffer` and `bStopResendTemp`), RPC queries and forwarded requests (`bStopResendTemp`) |
| `Lookup` | `protocol_method.cpp:492-512`: cache hit, block set, or on to the bus |
| `LockBus`, `LeaveBus` | 514-529: mutex, resend setting |
| `SendFrame`, `SendFail` | `protocol_comm.cpp:72-92`: clear the queue, build `m_packet`, write |
| `TakeReply` | `WaitPopLast` and the comparison in `WaitCheckResult`; a reply that does not match ends the exchange |
| `Resend`, `GiveUp` | the timeout of `WaitResponse`, 144-178 |
| `UpdateCache` | 531-582, after the bus mutex is free: store, erase, or file a command's reply under its query |
| `Transmit`, `OnReceive`, `LoseReply` | devices, the line and the reader thread: frames and replies may be lost, replies may come after the timeout; equal replies on their way are told apart by a number (`NextCopy`) |

History variables: `sends` (frames written by this call), `applied` (states each device has been in). They are read by properties only.

### TimerQuery - the polling thread

`step` is a label per statement group of `Run`; reading and clearing a flag are separate steps, since `IsDevChange` and
`IsMeterSyncTime` are two statements without a lock. `devInfos` is the ring, `info` the local copy of its front (the
mark of a meter is cleared in the copy and reaches the ring on rotation). `aircondition` is two steps: the alarm is read
under `m_mutex`, the frame sent without it. `unit` is what the fresh-air units show. The other threads appear as
`SetDeviceCount`, `TimeFrame`, `KongguanSet`, `KongguanFire`, `SetFireAlarm`, `RpcCall`, `RpcSend`.

### KongguanLink - the server of the kongguan

A request is a model value; of its content the code compares only the packet id, the one-byte check sum: `Id[r]`.
`Take` is `WaitPopLast`; `Dispatch` is the switch in `Run` (a set command is announced before its length is checked; a
malformed request gets no answer); `CheckQueue`, `PushBack` and `WriteAnswer` are the steps of `SendResponseFrame`,
between which the reader thread may queue frames. The master asks (`Ask`), turns to another request when it likes, and
repeats what has not been answered (`AskAgain`). `fresh` is a history variable: requests received since they were last
answered.

### Settings - the tables and their file

`m_data_setting` is a function from fields to values, 0 meaning "left open". Fields differ in how the code treats them:
`Guarded` fields keep their value if a 0x81 frame leaves them open (`Merge`), `Compared` fields decide whether it is
saved (`Changed`, which compares the frame with the old values as the code does), `Ranged` fields are checked by their
RPC setter, and the room temperature is neither compared nor saved at once. `Save` writes one section, or fails;
`Restart` reads the file back, with `Load`'s habit of reading every section into one buffer (`LoadedHukong`). Each
handler runs under `m_mutex` and is one action; `IsBindChange` is two, as it takes no lock. `unsaved`, `stale` and
`missed` are history variables.

### BusAccess - what the bus promises

The abstract specification of `transform`: a hold of the bus carries one order, written a bounded number of times with
one value; only the addressed device may change, only for a command, only to that command's value, and every command is
newer than what any device was told before. It knows nothing of the mutex, `m_packet`, timeouts, the queue or the cache.
`Transform!Bus` instantiates it: the owner is the holder of `m_mutex`, the order is its call (`HeldOrder`), the value is
in `m_packet` once it has been written (`HeldValue`), the writes are `sends` of the holder (`HeldWrites`). Lookups, late
replies and cache updates are stuttering.

### Receiver and JobQueue - from the wire to the waiting thread

**JobQueue** is `lib_linux::JobQueue` over its condition variable: `Push` wakes one sleeper, `WaitPop` is `Sleep`,
`PopFront` and `ReturnFalse`, and `Condition::Wait` ends by a signal, by its time (`Expire`) or for no reason (`WakeUp`).
**Receiver** extends it with the other side. A byte is `[frame, pos, num]`: which byte of which frame it is (0 when it is
damaged), and the number it stands for when it is read as a length.

| TLA+ | code |
|---|---|
| `Transmit`, `Garbled`, `Arrive` | the device answers, or a request is lost; bytes are lost, damaged, inserted, or come late (external) |
| `Read` | `SerialPort::Run`: some of what the driver holds is appended to `m_buffer` |
| `HeadWrong`, `Complete`, `SumOk`, `Valid`, `Broken`, `Partial` | the ways out of `PacketVaild`: false, true, exception |
| `GetPacket`, `Incomplete`, `Discard` | one turn of `OnReceive`: a packet is cut off and pushed; nothing yet; clear `m_buffer` and flush the driver in both directions |
| `SendFrame`, `Block`, `Take`, `Timeout`, `Finish` | the thread that waits: clear the queue, write, `WaitPopLast` until a packet or the timeout, end of the exchange |

`clean`, `late` and `missed` are history variables: whether the exchange begun last found nothing left over and met no
fault since, whether a reply came after its timeout, and how many exchanges went without their own reply since the last
fault or *cut*, a discard while the device was still sending, whose rest then spoils what follows.

### Exchange - what the receive path promises

The abstract specification of the way from the wire: `Begin`, then any number of `Deliver`, each a newer reply than all
that were answers before, then `Answered` or `Missed`. While nothing goes wrong (`undisturbed`) the answer is the reply to
the request in hand and `Missed` is impossible. After a `Fault`, and again after a `Cut`, at most `Price` exchanges are
missed (`credit` is what is left of them) unless a reply comes too late; how many cuts follow a fault has no bound. It has
no bytes, no buffers, no queue and no reader thread. `Receiver!Promise` instantiates it: `answer` is the packet in the
hands of `WaitPopLast`, and `Price` is `HoldBack + 1`, the exchange in hand and those whose replies a wrong length byte
holds back, `(MaxLen + FrameLen - 2) \div FrameLen`. Bytes that arrive, packets that are cut off and pushed, and waiting
are stuttering.

### Sensors - from a contact to presence and alarms

A contact belongs to the controller (`Dev` 0), which reads it in each pass of `Run`, or to a light, whose answers bring
it: `shown` is the light's entry of the query cache. A table binds contacts to codes (1 to 8 presence, 9 to 12 leaks,
13 gas), sensors to units and curtains to sensors. `Pass` is the idle branch of `Run`; each relayed frame is `PassHead`
and its own case (`RelayUnit`, `RelaySetCurtain`, `RelayCurtain`, `Configure`, and for lights `RelayLight`, a query that
the cache answers, and `RelaySetLight`, a command that the light itself does). `Run` holds `m_mutex` over its exchange
(`MutexFree`), RPC calls and `TimerQuery` do not: `call` is the presence a thread has read and not yet sent. An exchange
and the cache are two steps, as the bus mutex is free (529) before the query mutex is taken (534): `answer` is what a
thread has been told by a device and `Store` puts into the cache; the answers of other threads may be stored in between,
and a newer one may be stored first. A poll that failed has the empty answer, which erases. `told` is what units and
curtains were last told, `asked` the cached answer in which a curtain repeats it. `forced` is the override of
`aircondition_svm`, counted in polls. The query cache is that of **Transform** reduced to what matters here: only the
poller's queries reach the bus.

### SessionManager - the select loop and its callbacks

A session is its number, in which order `std::map` keeps sessions. `Poll` is `Select` and its three loops (`phase`
"read", "write", "drop"), each of which works on a copy (`list`) or an iterator (`at`); a callback is a stretch (`cb`)
in which the program may `Connect`, `Delete` and `DeleteDirect`. `ReadError` is the callback `OnError` of a failed read,
with the session still in its map, and `ReadEnd` what follows it. `NewSocket` lets a session that is opened inside a loop
find the readiness of one that was closed there, since `_read_set` is keyed by the number of the socket. What the code
cannot survive is stated as two guards of the program: `MayDeleteDirect` (not a session that a loop still has to visit,
which the session of `OnError` is) and `MayDelete` (not one that the delete loop has passed, nor, while `Shutdown` runs,
one that it will not visit any more). These are the interface a user of the class has to keep to; no comment of the code
names them.

### Ymodem - the firmware upload

`pc` is the place at which `ymodem_send` or `send_data_packets` waits for a character; `Getchar` delivers one or a
timeout, and one action per place decides what is sent next. `Start` and `Return` are `send_file` and the second attempt
of `upgrade.lua`. The device is external: a receiver as the sender's comments describe it. Block numbers are modulo
`Wrap` (256 in the code). `extra` counts answers the sender reads that nothing it sent caused, `damaged` packets lost or
damaged. `GiveUp`, the device's return to its menu, comes after a silence that is far longer than any answer waits
unread, so not while the sender has still to read an answer at its prompt.

## 3. Properties and runs

Expected results, bounds and the reason why the bounds suffice.

| run | expects | properties | distinct states |
|---|---|---|---|
| `transform_safety` | pass | `OwnFrameOnBus`, `ResendRestored`, `CommandReachesBus`, `CacheProvenance`, `BusRefined` | 4.0 million |
| `transform_live` | pass | `TypeOK`, `QueriesStayLocal`, `BusReleased`, `CacheConverges` | 103 thousand |
| `timer_safety` | pass | `TypeOK`, `RingIsConfiguration`, `PreemptBound`, `SyncOncePerFrame` | 1.1 million |
| `timer_live` | pass | `EveryDevicePolled`, `AlarmReachesUnit` | 530 thousand |
| `kongguan` | pass | `NoEcho`, `RequestAnswered` | 29 thousand |
| `settings_durable` | pass | `TimesValid`, `Durable`, `BindAnnounced`, `RoomNotZero` | 1.1 million |
| `settings_first_boot` | violation | `RoomNotZero` | |
| `receive` | pass | `TypeOK`, `NoLostWakeup`, `CleanExchangeSucceeds`, `DamageBounded`, `ExchangeRefined` | 516 thousand |
| `sessions` | pass | `NoUseAfterDelete`, `CallbacksInOrder`, `NoLeak`, `WithinMax`, `DeleteHonoured`, `ShutdownLeavesNoneBefore` | 272 thousand |
| `upload` | pass | `RunsWhole`, `InOrder`, `CleanUploadSucceeds`, `Ends` | 934 thousand |
| `sensors` | pass | `SensorsSettle`, `UnitsFollow`, `CurtainsFollow`, `RestLasts` | 141 thousand |
| `sensors_leak` | violation | `LeaksAreNoPresence` | |

What each property says is in the comment above it. Some of them carry conditions that the code makes necessary.
`InOrder` holds without condition while the sender reads no stray answer. After stray answers the sender may be ahead of
the device by as many packets as the line has lost, and a block number, which is a byte, then tells the blocks apart only
if fewer packets than `Wrap - 1` were lost, and too few for a lost EOT to let the empty packet, whose number is 0, be stored
as the block the device waits for (`damaged <= (Blocks + 1) % Wrap`): a firmware of 255 blocks, `Wrap - 1`, is the case in
which one lost packet is enough. Without the condition TLC finds such a run. `RunsWhole` excludes a stray answer and a lost
packet together (section *Known behaviours*). `DamageBounded` counts anew after each fault and cut and stops when a reply has been
late; `ShutdownLeavesNoneBefore` is about the sessions that were there when `Shutdown` began.

**Bounds.** *Transform*: two addresses, one of which never answers (two are needed for a reply to be filed under the
wrong device); one query, its command and, in the live run, a request that is neither; one thread of each kind (a
second RPC thread would repeat the first); two commands in the safety run, so that a newer one can overtake the
cache update of an older; one fault, enough for a lost frame, a lost or late reply or a failed write, each met by the
three writes of `RESEND_COUNT`. *TimerQuery*: one or two devices per kind and a count above `COUNT_MAX`; `Budget` allows
each event of the environment once (the alarm twice in the live run, so that it can go up and down). *KongguanLink*:
two queries with the same check sum, a set command, a local and a malformed request; the master turns to three requests,
three frames wait at most, one fault; repetitions are unbounded. *Settings*: a guarded, a compared and a transient field
with two values and "open"; a device count beyond the cap; one failed save. *Receiver*: a frame of six bytes, one more
than the least the code accepts, so that every part of a frame is a byte of its own; a wrong length of 13 holds back two
replies, and the bound of `DamageBounded`, three, is reached; six exchanges and two faults, so that two damages can meet
and be followed by more missed exchanges than the bound allows and by an undisturbed one.
*SessionManager*: four sessions, two sockets: a session under each loop while its callback deletes and opens others.
*Ymodem*: five blocks, numbers modulo 4, three faults in two attempts: the block numbers come round within the file, and
with `Blocks + 1` at 2 modulo 4 and up to three packets lost `InOrder` is met on both sides of each part of its
condition. *Sensors*: a contact of the controller and one of a light, a unit and a curtain, two tables (both contacts on
one sensor with unit and curtain; gas, and a sensor beyond the number of probes, with a curtain without link), two trips,
one order, one change of tables, one failure, of which any two in a run (the constraint `Few`, which only keeps out
steps that nothing forces to happen); at first the unit and the curtain take it that nobody is there (`MCInit`).
No run uses symmetry. But for these two, which only `sensors` needs, bounds are guards of the
environment's actions and not constraints on states.

**Deadlock** is checked in every run but `receive` and `sessions`, whose exchanges and sessions are used up in the end.

**Fairness.** *Transform*: weak fairness of the reader thread and of each thread inside `transform` (threads run, waits
are timed). Strong fairness of the poller's `LockBus`: a pthread mutex that is free again and again is obtained in the
end; strong fairness of the poller's calls: its ring visits every pair (that is `TimerQuery!EveryDevicePolled`). No
fairness is assumed of RPC threads starting calls. *TimerQuery*: weak fairness of the thread and of an RPC call that has
begun. A query is one step, since an exchange ends (`BusReleased`). *KongguanLink*: weak fairness of `Run` and of the
master's repetitions. *SessionManager*: weak fairness of callbacks and loops, which are code that runs, and of
`Select`: the program calls `Poll` again and again, and something is readable again and again. *Ymodem*: weak fairness of
the sender, whose waits are timed, and of the device. *Sensors*: weak fairness of the pass, which happens every 200 ms,
and of an exchange that has begun and the store of its answer; strong fairness of the polls, as each needs `m_mutex` or its turn, and of the
master's queries of lights and curtains, which it repeats for its display. *Settings* and *Receiver* have safety
properties only.

### Disagreements between the code and what it says

* `settings_first_boot`: `Load` does not look at what `read` returns. With a file that holds settings only, bytes of
  the settings become device counts and room number, which may then be 0 although line 1097 sees to it that it never is.
* `sensors_leak`: a curtain that is linked to no sensor has code 9 in the tables. `IsHasManByCurtain`
  (`repeat_comm.cpp:1493`) takes it for an index and reads leak sensor 1, so a leak is told to the curtain as somebody's
  presence. `IsSenHumanType`, which tells the codes apart, is never called.

### Known behaviours that no run shows

They were found with variants of the runs and follow from the models; some limit what is claimed above.

* *Slipping replies.* After one late reply each exchange may find its predecessor's reply in the queue: the queue is
  cleared before sending only, a reply that does not match ends the exchange, and the right reply then arrives after
  it. The slip heals when an exchange goes unanswered or the bus idles. `CacheConverges` holds in `transform_live`
  because an absent address is polled, as configured but silent ones are; with an RPC thread that keeps a perfect bus busy it fails.
* *Alarm.* `AlarmReachesUnit` fails, besides lost frames, with RPC commands that read the alarm before it changes and
  are sent after; after a restart, when the stored bit says alarm and the flag and map say none; and when the alarm
  changes while the three frames are sent.
* *Lost alarm frame.* `repeat_comm.cpp:135` notes that the unit knows the alarm before the first of the three frames of
  the comment at 137 is sent; if that one fails, the other two are not sent and the unit never shows the alarm. (With an
  alarm frame that may fail, `Budget["send"] = 1`, the run `timer_live` finds it.)
* *Lost change of counts.* `IsDevChange` (1799-1804) reads the flag and then clears it without the mutex: a change in
  between is not taken over although line 2055 raises the flag for it.
* *Erased reply.* `protocol_method.cpp:545` deletes "the old data" when a poll fails, but the bus mutex is released before
  the query mutex is taken: a command that runs in between stores its reply first and that is erased.
* *Equal check sums.* A request of the kongguan that comes in while another one is served is taken for its repetition if
  the check sums agree (`protocol_comm.cpp:108`), as those of light 3's and curtain 1's queries do: it is lost until it is
  repeated, and answered with the other's data.
* *Clocks.* A time frame between reading and clearing `m_isMeterSyncTime`, or before the ring is rebuilt, is lost.
  `SyncOncePerFrame` says at most once, not at least once.
* *Starving the poller.* A kongguan that sends set commands without end keeps `TimerQuery` from querying: the budget
  of set commands is finite in `timer_live`.
* *Push-back.* `SendResponseFrame` pushes a newer request back behind a frame that arrived meanwhile; `WaitPopLast`
  then drops that frame although it is newer. `RequestAnswered` holds as the master repeats.
* *Order for an air test, temperature from RPC.* Both are cleared when put into an answer that may then be dropped.
* *Times set by RPC* are not saved, nor does a 0x81 frame with the same value save them: `Durable` lists them as unsaved.
* *Two callers* of `is_bind_change` take the notice from one another.
* *Contacts of lights* reach the sensor states only when the master asks for the light (612); a light that falls silent
  keeps its last state. A new table (0x41) replaces the old one at once, the sensor states follow with the next pass.
* *Sensors by number.* `GetSenStatus` reports the first sensors up to the number of probes, whatever codes are in use.
* *HumanSenToDev* (1736-1765) reads the bytes D53 to D56 the other way round than `IsHasManByXinfeng` and the protocol
  document: nibble as sensor, index as unit. The RPC call `humansen_to_dev` therefore names the wrong units.
* *Override.* The two polls of `aircondition_svm` are counted when they begin, failed ones included, and a poll that read
  "nobody" before the command may reach the unit after it.
* *Ymodem.* One answer too many shifts every later answer by one; a last block that is then lost is reported as sent, and
  the device runs a truncated firmware. A C that crosses packet 0 makes an upload fail at its very end. `MAX_ERRORS`
  (`ymodem.h:53`) is not used, and a failure in the data is not told to the device.
* *Discarding* clears `m_buffer` and flushes the driver at any moment of a reply; if the device is still sending, the rest
  of the reply spoils what follows. There is no bound on how often: a stray byte before a reply, read together with its
  first byte, makes the reader discard both; bytes 2 to 6 follow and, if they are read in twos, are discarded but for the
  last, which stays in `m_buffer`, as neither `SendFrame` nor a timeout clears it, and is the stray byte before the next
  reply. One fault may so cost every later exchange for as long as the bytes are read in that way. `DamageBounded`
  speaks of what is missed after the last such cut; `CleanExchangeSucceeds` of the first exchange that finds nothing left.
* *Stored out of order.* The bus mutex is free before the answer is stored: a poll's answer with the old contacts of a
  light, or the old presence of a curtain, may be stored after the newer one of a command. The next poll heals it.
* *Sessions.* A session that its own `OnError` deletes with `DeleteDirect` (`snet_sessionManager.cpp:255`) is told
  `OnDisconnect` twice and used and deleted after it was freed (259-261). A session connected in `OnDisconnect` while
  `Shutdown` runs (150-158) survives it, although `snet_sessionManager.h:42` says that all are disconnected, and a
  `Delete` of it is forgotten. The outside collector, the one program in the repository that uses the class, does neither.
* *Scan.* `server.cpp:278-322` counts answering addresses while polling uses addresses 1 to n: with a gap, the last
  device is never polled.

## 4. Theorems

All theorems hold for every value of the constants under the named ASSUMEs, which state types and the relations among
the constants that the code's tables satisfy (for example: translated commands are commands, guarded fields are
compared). The bounds of the runs (`MaxCmds`, `MaxFaults`, `Budget`, ...) are arbitrary natural numbers in the proofs.
Each safety theorem has the same plan: an inductive invariant, initiation, one lemma for the step with one case per
action, and PTL.

| theorem | establishes | inductive invariant and why it is needed |
|---|---|---|
| `TransformProofs!TypeCorrect` | `TypeOK` | inductive as it stands |
| `TransformProofs!BusExchange`, `ResendAlwaysRestored`, `SendsAlwaysBounded` | `OwnFrameOnBus`, `ResendRestored`, `SendsBounded` | `BusInv`: who waits holds the mutex (`Holder`); what the resend setting and the value to restore are while it is held (`ResendState`); what `count` and `sends` say of one another (`SendCount`) |
| `TransformProofs!CacheSafety`, `CommandsReachBus` | `CommandReachesBus`, `CacheProvenance` | `CacheInv`: the cache holds queries' keys only, since a polling call is a query and a command's reply is translated; replies on the line and in the queue are states of their device; a call that left the bus with success holds its own reply |
| `TransformProofs!BusRefinement` | `BusRefined` | `TypeOK`, `BusInv` and `DevBound` (no device has heard of a command that has not been sent): initial states map to initial states, and each action to `Acquire`, `Write`, `Release` or a stutter |
| `TimerQueryProofs!TypeCorrect`, `RingCorrect`, `Preemption`, `SyncCorrect` | `TypeOK`, `RingIsConfiguration`, `PreemptBound`, `SyncOncePerFrame` | `TurnInv`: the copy has the identity of the front of the ring from `TakeFront` to `Rotate`; where in the turn an exchange may have begun since the set command came; for each meter, marks in the ring, in the copy and in the flag are paid for by time frames (`Paid`). Lemmas on concatenation, marking and rotation of rings with distinct devices |
| `ReceiverProofs!ReceiverTyped`, `NeverLosesWakeup`, `RepliesAlwaysInOrder` | `TypeOK`, `NoLostWakeup`, `RepliesInOrder` | `ReceiverInv`: one increasing sequence of frames runs from the last packet taken through the queue, `m_buffer`, the driver and the line to the exchange in hand, whatever was cut out of it; the queue lemma that `Push`, `Clear` and each step of `WaitPop` keep `NoLostWakeup` |
| `ReceiverProofs!CleanExchangesSucceed` | `CleanExchangeSucceeds` | `CleanInv`: an exchange that goes well is in one of four phases (request on its way, reply on its way in one piece across the line, the driver and `m_buffer`, packet in the queue, packet taken), and between exchanges nothing is left over; each step without a fault leads from a phase to itself, the next or the end |
| `ReceiverProofs!DamageAlwaysBounded` | `DamageBounded` | `AccountInv`: what the bound leaves to be missed covers the exchanges that the bytes now in the flow may spoil: none if it is empty, few if its first byte is no head, since the second shows it, and else as many as fill the wrong length that `m_buffer` waits for; `Shape` says what the bytes behind the last whole reply look like |
| `ReceiverProofs!ExchangeRefinement` | `ExchangeRefined` | the two invariants above with `ReceiverInv`: initial states map to initial states, and each action to one of `Exchange` or a stutter |
| `SessionManagerProofs!NeverUsedAfterDelete`, `CallbacksAlwaysInOrder`, `NeverLeaks`, `AlwaysWithinMax`, `ShutdownAlwaysEnds` | the safety properties of `SessionManager` | `SessionInv`: what each loop's copy still holds is in its map; maps are disjoint and hold living sessions that were told what their map says; `WithinMax` needs facts on cardinalities of the two maps |
| `KongguanLinkProofs!LinkTypes`, `EchoFree` | `TypeOK`, `NoEcho` | `TypeOK` and `NoEcho` together |
| `SettingsProofs!TypeCorrect`, `TimesCorrect`, `DurableCorrect`, `BindCorrect`, `RoomCorrect` | `TypeOK`, `TimesValid`, `Durable`, `BindAnnounced`, `RoomNotZero` | each section by itself (`SettingKept`, `HukongKept`, `InternetKept`); `Durable` needs that `Changed` false implies that `Merge` changes no compared field, which rests on `TimesValid` for the open ones; `RoomCorrect` assumes that the file holds a hukong section from the start, without which `settings_first_boot` refutes it |
| `YmodemProofs!UploadInLockstep`, `CleanUploadsSucceed` | `CleanUploadSucceeds` | `LockInv`, for each place of the sender what may be on the line and in the device while no stray answer is read: only repetitions of the sender's packet and the device's one answer to it |
| `YmodemProofs!UploadWithoutGap`, `UploadRunsWhole` | `RunsWhole` | `LockInv` and, for runs with stray answers but no packet lost, `UndamagedInv`: the packets between device and sender are a chain without a gap, up to the sender's place (`Alive`), while keys of the menu come in the pairs in which they were typed |
| `YmodemProofs!UploadBeginsClean`, `UploadMissesFew`, `UploadInOrder` | `InOrder` | `LockInv`; `BehindInv`, which needs no condition: a file that is begun finds nothing of an earlier one in front of it; and `AlongInv` for stray answers and few lost packets: the packets under way are still a chain, since the line only loses the first of them, and no more places are missing before it than packets were lost (`InStep`), so a number modulo `Wrap` means the block it should |
| `SensorsProofs!SensorsTyped`, `RestAlwaysLasts` | `RestLasts` | `SensorsTypes`; the property itself has seven parts (what Run knows, the lights' cached answers, overrides, devices, curtains' cached answers, calls under way, answers under way), and each action keeps each part given the others: a call, for example, takes the right presence along because the sensor states are settled and no override is counted |

The theorems on `Ymodem` hold for every number of blocks, every `Wrap` of at least two and any number of faults; of the
device they assume what the module does. Every safety property that a passing run checks is the subject of a theorem, and
so are both refinements. Two theorems state properties that no run lists any more, as the refinements imply them:
`SendsBounded` (a hold of `BusAccess` is written `tries` times at most) and `RepliesInOrder` (`Exchange!Deliver`).
`RestLasts` is the part of the liveness of `Sensors` that needs no fairness: whatever brings the house to rest, it stays.

Only model-checked: the liveness properties (`BusReleased`, `QueriesStayLocal`, `CacheConverges`, `EveryDevicePolled`,
`AlarmReachesUnit`, `RequestAnswered`, `DeleteHonoured`, `Ends`, `SensorsSettle`, `UnitsFollow` and `CurtainsFollow`),
which TLAPS cannot derive from fairness, since that takes ENABLED.

## 5. Not modelled

The encodings of commands and answers; the frames of `InnerProcess` that only lay out answers; prices, calculation
tables, curtain directions and outside data, which are stored and read back without control; `HumanSenToDev` and the
light sensor's lookup; real time (the 40 ms, 500 ms and timeouts are an order of steps). `ThreadPool` is used by a test
only. The scan, the outside collector and the watchdog are sequential programs. The rest of PROJECT.json's list is
third-party. Of the repository's source lines more than a third are headers of libraries (xmlrpc-c, curl) and firmware tables;
the daemon, its library and the upload tool are the rest, and a large part of these unpacks arguments and lays out frames.

## 6. Plan

Done, in order of importance:

1. `Transform` - the bus and the cache, and its proofs.
2. `TimerQuery` - the polling thread, and its proofs.
3. `KongguanLink` - the link to the kongguan, and its proofs.
4. `Settings` - tables, file, restart, and its proofs.
5. `BusAccess` - the abstract bus, and the proof that `Transform` implements it.
6. `JobQueue` and `Receiver` - framing, reader thread and queue, and their proofs; `Exchange`, and the proof that
   `Receiver` implements it.
7. `SessionManager` - the select loop, and its proofs.
8. `Ymodem` - the upload against a receiver over a lossy line, and its proofs.
9. `Sensors` - from contacts to presence, and the proof that rest lasts.

Left:

10. `Gateway` - composition of `KongguanLink`, `Settings` and `TimerQuery`: one-shot orders and the temperature of RPC
    that are cleared by an answer that is dropped; restart with an alarm standing. These are two of the hazards without a
    property in PROJECT.json; in the others the code goes wrong, as *Known behaviours* says.
11. Steps of `Transform` that receive a reply as steps of `Exchange`, with the repetitions of `WaitResponse` as exchanges.
12. Proofs about `Sensors` beyond `RestLasts`: how far each fair action brings the house towards rest.
