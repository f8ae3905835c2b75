# A verification model of the BLE-mesh fire switch

This directory holds TLA+ modules, TLC configurations and TLAPS proofs about the
program under `src/board/evb/fireswitch/app/`: a wall switch that joins a BLE
mesh, drives latching relays, reports its state to a gateway and sleeps in the
DLPS power mode. The rest of `src/` is the vendor SDK (mesh stack and models, BLE
profiles, peripheral drivers and samples) that this program is linked with; of it
the firmware update of the mesh library, `src/src/app/mesh/lib/`, is modelled too.
File names below are relative to these directories; "server" stands for
`app_skyiot_server.c`, "dlps" for `app_skyiot_dlps.c`.

## The system

### Who runs

| context | priority | what it executes |
|---|---|---|
| app task (`app_main_task`, app_task.c) | lowest | IO messages: a pass of the main loop and a key scan, the sleep check, the ends of the two pairing timers; GAP and mesh events, from which the vendor receive callback and `prov_cb` are called |
| timer task (FreeRTOS) | higher | callbacks of the relay timers, of the blink after provisioning, of the reset; sends the messages of the main loop, sleep check and pairing timers |
| stack tasks | higher | put GAP and mesh events into the queue of the app task |
| idle hook | - | asks `app_dlps_check_cb`, enters and leaves DLPS |

A timer callback is therefore one atomic step seen from the app task, and may
fall between any two accesses of the app task to memory they share. Nothing in
the code excludes the timer task: no critical section, no mutex.

### Inventory

| component | state | operations | interacts through | what makes it correct |
|---|---|---|---|---|
| Relay driver (skyswitch.c:285-560) | per switch: counter, zero-cross level, timer, two coil pins | `HAL_SwitchLed_Control`, `HAL_SwNRelay_OnCtl_Timeout_cb` | `mSwitchManager.status`, hold bits | the coil of the wanted position is driven and always released; the contact is where the status says |
| Key scanner (skyswitch.c:605-746) | `keystatus`, `presstime`, `oldkeypress`, the key message | `Scan_Keyboard_Function`, `HAL_Switch_Is_Relese` | key message to the main loop; io hold bit | debounced; one message per press, short or long and not both |
| Event FIFO (server:307-421) | ring with head and tail, last accepted event and its tick | `Push_Msg_Into_FIFO`, `Pop_Msg_From_FIFO` | pushed from the receive callback and from the timer task, popped by the main loop | a queue that forgets the oldest; repeats within a second are dropped, later ones are not |
| App task queues (app_task.c) | IO queue, event queue | `app_send_msg_to_apptask`, the task's loop | every timer and both stacks send | no message is left without a token; none waits for ever |
| Transmit buffer (server:553-743) | ten slots with packet, tries, tick; the ack timeout | make, send, ack a packet | main loop, receive callback, mesh publication | one report per attribute; a packet is sent neither too soon, nor too late, nor too often; slots are freed |
| Main loop, reporting (server:1475-1911, 2044-2092) | report flags, alive status, delayed report, switch status | events, keys, online check, upload, send | all of the above, the gateway | the gateway learns the switch state |
| Sleep control (dlps, server:2096-2131) | hold bits, two periodic timers | sleep check, enter and leave DLPS | every component sets or clears a bit | sleeps only when nothing needs the chip, always again; no press or command is slept through |
| Provisioning, configuration (server:1068-1464, 2161-2216; device_app.c prov_cb; main.c driver_init) | node and config record in flash, `process_state`, four timers | boot, provisioning callbacks, long press, timeouts, save, reset | mesh stack, hold bits, event FIFO | pairing mode is entered when asked, ends by itself, survives power cuts |
| Online check, heartbeats (server:1800-1872, the answers in the receive callback) | ticks of the last check, ping and sign of life, the count of pings, alive status | ping, count, go offline; events that count as a sign of life | event FIFO, transmit buffer, report flags | a gateway that answers is not given up; one that is gone is noticed, one that is back is found |
| Firmware update (profile/dfu_server.c, profile/dfu_client.c, `src/src/flash/silent_dfu_flash.c`) | server: bank of flash, offset, buffer, offset to resend from; client: offset, checksum, state of the dialogue | requests of the control point, data packets, flash writes, pushing the image | a link of its own, answered by response and notification; `mesh_reboot` | never half an image that is ready; what was confirmed is in the flash; nothing beyond the bank is erased; the update ends |
| LED indication | blink states | indicator pins | - | no influence on the other components |
| Soft watchdog (soft_wdt.c, app_hwtmr.c) | task counters | feeds | - | compiled out (`USE_SOFT_WATCHDOG` is 0) |
| MD5, UART commands, io management | - | - | - | pure or debugging |

Hard behaviour: the interleaving of app task and timer task on shared memory;
messages in flight when their timer is deleted; a decision to sleep that is
made in one message and carried out after the next; lost and late packets with
a bounded buffer; a gateway that is judged by the silence since its last answer;
power cuts between two flash records, and in a firmware update at any of its
steps, with a flash that refuses to erase or program. PROJECT.json lists the
hazards at their lines, with the properties aimed at each.

## Modules

    TickArith   EventQueue        Relay   AppQueue   TxBuffer   KeyScan   DfuServer
         \        /  (refined by)                       |          |         |
          EventFifo            Pairing   Heartbeat   Reporting    Power      Dfu

`MC*.tla` instantiate a module for TLC, `*Proofs.tla` hold its theorems
(ReportingProofs those of TxBuffer too, DfuProofs those of DfuServer).
Definitions carry the names of the functions and variables they stand for, and
`map` in PROJECT.json gives the lines. Operators marked `\* mutant` are
variants with a plausible bug; no behaviour uses them.

**Relay.** A command writes the status, takes the hold, and tests, creates or
starts the timer, one action per access of the app task; `WaitZvd`, `Energise`
and `Release` are the counts of the callback, each atomic. `ProvisionedOn` is
the end of the provisioning blink, which switches everything on from the timer
task. `position` is the contact of the latching relay: it follows a single
driven coil and is unpredictable under two. `stale` records that a command came
while a coil was driven, the one overlap the code gets wrong (see
`relay_off_after_on`): the properties state that it is the only one.

**EventFifo, EventQueue, TickArith.** A push reads its slot address, copies,
advances the head, then the tail if the ring is full: four steps of the app
task, between which `TimerPush` may run when `Preemption` is TRUE. A pop is two
steps around the duplicate filter. EventQueue is what the ring promises: a queue
of `Depth - 1` events that forgets its oldest. The refinement `RingIsQueue` maps
the ring to the sequence of its slots, and a push to the step that moves the head.
TickArith is `HAL_CalculateTickDiff` with a wrap at any width.

**AppQueue.** Every sender posts its message and then its token; the app task
takes a token and then at most one message without waiting. The stacks put in
as many tokens as they were given. `lost` records a refused message or token.

**TxBuffer.** `MakePacket` finds the slot of the same attribute or the first
free one, `SendPacket` sends the lowest sendable slot or none, `AckPacket` frees
the slot of an acknowledged value. Ticks are abstracted to the age of a slot in
send periods of 800 ms. `sends` is a history: how often the packet made last into a
slot was sent and how long ago, counted apart from the tries and the tick of the code. `InfoAttrs` is what the attribute bytes of a device info
answer may spell: for the MAC these bytes are arbitrary (see Limits).

**Reporting.** One pass of the main loop in five phases above TxBuffer, a
network that may lose packets and delay answers, and the gateway's view. Events
are arbitrary (EventFifo says which ones arrive), going offline and heartbeats
are possible in every pass but not before provisioning is done (90 s against
9 s); Heartbeat says when they happen. Packets that are no reports are bounded by `MaxMade`. `missed` records
that the report of the latest value was dropped, given up or acknowledged by
mistake.

**Heartbeat.** `Check` is Main_Check_Online, a pass handles at most one event
before it, and `Pong` is what the receive callback does with an answer. Every
tick the code keeps is modelled by its age, since only ages are read. The network
loses pings and delays answers up to `TripMs`, and the gateway may go and come back
at any time. `asked`, `missed` and `lag` are histories: the pings since the last
sign of life, whether one of them was lost, and, if that sign was an answer, how
long its ping had been on its way. The provisioned event and commands that count as
a sign of life are inputs.

**KeyScan, Power.** KeyScan is the scan, one action per state of the scanner.
Power adds the sleep check, the hold bits, both periodic timers, the queue of
the app task, relay pulses, commands, the hold of an unprovisioned device, and
sleep and wake-up. Timers post whatever is queued already; a queue of `QueueSize`
messages refuses one more, and nobody looks at the result. A command is two steps
of the app task, taking the hold (`TakeHold`) and testing and starting the timer
(`StartPulse`), and a callback may come between. Two histories name what the code
gets wrong: `unheld`, a pulse that ended between those two steps and took the hold of
the next one with it, and `late`, a second sleep check that was queued when the first
one stopped the timers, which may leave the device `Stranded`: awake with nobody to
scan its keys. A report that is due is arbitrary for a provisioned device. The two
periodic timers have one period and are always started together, so that they expire
in turn. A change of a hold bit is atomic here.

**Pairing.** Two flash records, the process state and the four timers that begin
and end pairing mode. Durations are abstracted to an order, except that a long
press takes longer than a reset that is pending. A save takes time: timers run
and power may fail in it, leaving the old record, the new one, or one that does
not verify. A first boot may find a node without a config.

**DfuServer, Dfu.** DfuServer is the server with its bank: an image is a sequence
of cells named by their offset, a checksum is what it sums, and `Outcomes` is what
`sil_dfu_update` may leave behind, including erases that do not happen and writes
that stop half way (at most `MaxFaults` of them). Offsets are compared unsigned, as
in the code. Dfu adds the client and a link. A request is answered by the response
to the write and by a notification in either order, which is why the client keeps
an answer (`cached`); a packet pushed without a credit of the stack is lost; the
link may break and the server restart anywhere (at most `MaxLosses` times unless the
code asks for it). Neither the client's answer nor the server's resend offset is
reset when a session begins: `stale` says what a session found of an earlier one,
and the properties are stated for sessions that found nothing. The binary parts
(GATT, advertising, the boot loader that runs a ready image) are external.

## Runs

Every run finishes well within five minutes. Passing runs:

| run | question | bounds and why they are enough |
|---|---|---|
| `relay` | Can commands and callbacks interleave so that a coil stays driven, the wrong one is driven, or a pulse never ends? | Two switches, since commands to one interleave with callbacks of both; `WaitTicks` 2 gives one waiting count, one that drives and one that releases (the code has 3 more that wait). |
| `fifo` | Without preemption, is the ring a drop-oldest queue, and does the filter drop repeats for the window and no longer? | Three slots wrap and overflow; two filtered events and the provisioning event; window 2 of 6 ticks, which start anywhere and wrap. 1,611,528 states. |
| `queue` | Can a message lose its token or be starved? | Two senders, so that one may come between the message and the token of the other; queues of 3, 2 and 1 all fill up. |
| `txbuf` | Do reports stay unique, is every packet sent in time, not too soon and not too often, does the buffer drain? | Two attributes and other packets in two slots, so that reports and packets take each other's places and the buffer is full; three tries as in the code; ack timeouts of two or three periods, so that a deadline may move past one that was already due. The same with three slots and two tries was also run (113,680 states). |
| `reporting` | Does the gateway know the state of a quiet device, except when the report was really missed? | One switch (as built), two slots of which other packets may fill both, loss and late answers. |
| `power` | Does the chip sleep only when it may, always again, and without sleeping through a press or a command? | One key (as built), long press at 2 scans, one start delay tick, a queue of 3, which holds a second sleep check behind any other message and is soon full. 258,004 states. The safety properties were also run with two keys (2,359,384 states). |
| `pairing` | Does a long press end in pairing mode, does the mode end, is it saved? | Two long presses and two power cuts, anywhere and inside saves. |
| `heartbeat` | Is a gateway that answers ever given up, is it asked often enough, is one that goes or returns noticed? | A check every tick or a tick late, three pings in a series as in the code, answers of up to 3 ticks, 4 lost pings (more than a series); the intervals are the smallest in which a series fits, which is all the proofs need. 184,468 states. |
| `dfu` | Does an update over a bad link into a bad flash ever leave half an image that runs, lose what it confirmed, erase a neighbour or hang? | An image of 10 cells in a bank of 12: three sectors, the last partly used; buffers of two packets, so that the header shifts every buffer against the sectors; one credit, so that packets are lost; two faults and one lost session. 385,681 states. The safety properties were also run with three losses and one fault, which reaches every kind of leftover (9,680,905 states). |

Runs that show a disagreement between the code and what its comments say
(details in PROJECT.json, `findings`):

| run | what happens |
|---|---|
| `relay_off_after_on` | A command between the on and the off count resets the pin that was never set; the driven coil stays energised. |
| `fifo_race` | The provisioning timer pushes inside a push of the app task, both write one slot, and the event is lost. |
| `heartbeat_tries` | After an answer that came later than a check period, the second and third check of the next series count without pinging: the gateway is given up after fewer than three pings. |

`CHECK_DEADLOCK FALSE` is given where the system may stop: an unprovisioned
device sleeps with nobody at its keys (Power), has run out of bounded inputs
(Pairing), runs the new image, or waits in a session that an answer of an earlier
one has confused with no loss left to end it (Dfu).

## Fairness

`FairSpec` of a module gives weak fairness to what the scheduler owes: the
timer task fires every active timer, the app task (lowest priority, but the
others only do short work) handles its queue, the idle hook enters DLPS, a
pressed key wakes the chip by its interrupt, and a provisioned device is woken
by its scan timer. Keys, commands, provisioners, power cuts and the gateway owe
nothing; in Heartbeat the main loop runs, time passes and every ping is answered or
lost; in Dfu the handlers of the client, the server's next write, a connection while
the server has the older image, and the end of a reboot the server asked for. In
AppQueue the stacks and senders may go on for ever. `BufferDrains` assumes that the
new packets stop, `SleepsAgain` that the device is left alone, `GoneIsNoticed` and
`BackIsFound` that the gateway stays where it is, `UpdateArrives` that no answer
outlives its session (an advertiser is heard again after each loss, and losses and
faults are bounded). `SleepsAgain`, `PressSeen` and `CommandHandled` assume that the
app task, however far it falls behind, empties its queue again and again
(`CatchesUp`), which it does as long as its passes are on average shorter than the
period of the timers that ask for them.

## What is proved

The theorems hold for all values of the constants (any number of switches, any
depth, window, tick width, queue sizes, senders, attributes, retries, intervals,
power cuts and presses). Each proof shows that an inductive invariant holds
initially and is kept by every action, and derives the property from it:

- **RelayProofs**: types; `PulseHasTimer`; `CoilIsWanted` (a coil is left set only
  after an overlap, and otherwise the coil of the status is driven),
  `ContactIsStatus`. The invariant adds what the counter says about timer and coil,
  since the properties alone do not say why a released relay may be started again.
- **EventFifoProofs**: types; assuming no preemption (`~Preemption`), `RingIsQueue`,
  the refinement of EventQueue, where the invariant is the address the app task
  holds; `ProvisionedTriggered`, from the content of the ring, which holds the event
  for as long as it is owed. `TickDiffExact` says where the tick difference is
  exact. The duplicate filter never looks at the indexes, so its theorems hold with
  preemption, and across wraps of the tick: `RepeatsAreApart`, from `Spacing` (what
  the filter remembers was accepted last and is at least as old as the tick
  difference says; what it has forgotten is a window old), and `FilterForgets`, from
  `Dated` (its tick is the one at which the event was accepted, until a whole turn of
  the tick hides that).
- **AppQueueProofs**: types; `TokensMatchMessages` (no token is refused, every
  message has one) from a count of the tokens of each user.
- **ReportingProofs**: `BufTypeOK` and `PacedSends` of TxBuffer, the latter from
  `Counts`, which says what the tries and the age of a slot tell of the history of
  its packet, and from the choice of the slot to send; `TypeOK` of
  Reporting; `ReportingUsesBuffer`, that Reporting implements the specification of
  TxBuffer, every step of a pass being one operation of the buffer or none, so that
  what is proved of the buffer holds in the loop (`LoopPacesSends`). For a device
  no other packet of which spells an attribute, `OneReportPerAttr` and `Informed`.
  `Informed` follows from `Tracked`: the device is offline, or a report of the switch
  is due (by its flag, the delayed report or the one after provisioning), or its last
  one was missed, or every report of it in the buffer names the latest value, which
  the gateway knows if there is none. Each phase of a pass moves a value from one of
  these places to the next; that the buffer holds no older report besides the latest
  needs `OneReportPerAttr`.
- **PowerProofs**: `TypeOK` with the bound of the queue; `SleepIsQuiet`, from links
  between timers, pulses, commands and their hold bits (`Linked`) that no handler
  breaks but by the overlap `unheld` names; `AwakeRuns`, because a device whose timers
  are stopped has neither a bit nor a sleep check left (`StoppedIsIdle`), unless one
  was queued behind the one that stopped them. Both hold for a queue of any size and
  an app task that is as far behind as it likes.
  `MessageIsPress` and `ShortXorLong` of the key scanner, from an invariant
  that relates each state of the scanner to the run of scans that saw the same keys.
  The run may be one scan older than the press, since the scan after a release does
  not look at the keys.
- **PairingProofs**: types, `ConfigIsSaved`, `LongPressPairs`. `TypeOK` bounds the
  queue at two messages, which is inductive only with `FewMessages`: messages in
  the queue, timers that run and joins that may still start one are at most two.
- **HeartbeatProofs**: types; `AnswersKeepOnline`, from `Answered`, which bounds the
  silence by the next check that must ping, the oldest ping under way, or the answer
  that waits; `PromptIsAskedAgain`, from `InSeries`, which keeps the ages of silence
  and ping within a check period of each other, so that every check of a series
  pings, and leaves time for the pings still due. The assumption on the intervals is
  what the argument needs: an answer, and a series of late checks, fit into
  `GatewayMs`. With the code's 60 s and 90 s they do if checks are at most 9 s apart
  and an answer takes at most 10 s.
- **DfuProofs**: `DfuTypeOK`, `PrefixWritten`, `ReadyIsWhole`, `OnlyBankErased`, for
  images, banks, sectors, buffers, packets, credits, faults and losses without bound.
  What the server has written and what the client sends next are related only
  through the dialogue, so the invariant is about both and the link between them.
  `Wire` orders what is under way: packets, then at most one request and its answer.
  `Load` counts the packets of a buffer at both ends; the server copies without
  looking at the room that is left, and only the client's count bounds its buffer.
  `InStep` gives, for every request or answer that may be outstanding, what each side
  knows of the other's offset, buffer and checksum (`Session`), in sessions that
  found no answer of an earlier one: with such an answer in its hands the client is a
  step ahead of the server and none of this is true. `PrefixWritten` is inductive
  with it, since a buffer whose checksum agrees is the image's next piece, and a
  failed write goes back to an offset in front of which all was written by a write
  that did not fail. `MarkStands` says that the first cell of a ready bank
  is programmed: START_DFU then succeeds only after an erase that takes the mark
  away, so that no session writes behind a header that reads ready, which gives
  `ReadyIsWhole`. `OnlyBankErased` is arithmetic on sectors from these.

Assumptions are named in the modules that declare the constants, and TLC
evaluates them on every run. Every safety property and the refinement that a passing
run checks is also proved, under the conditions given above. Only model-checked is
liveness, which is out of the prover's reach (it needs fairness and ENABLED): that
pulses and modes end, queues and buffers drain, the device sleeps again, a gateway
that goes or returns is noticed and an update arrives. `heartbeat_tries`,
`relay_off_after_on` and `fifo_race` are counterexamples, which TLC finds.

## Limits

- The build has one switch (`SKY_ONEWAYSWITCH_TYPE`); Relay and TxBuffer are checked
  with two all the same. Of the reports only those of this build are modelled: a command
  for the third switch of a three-way build is answered with BLEMESH_REPORT_FLAG_SWT3
  where the attribute id belongs (server:1612).
- Creating the timer of a relay is one step, the test for NULL, the creation and
  the start (skyswitch.c:446-449). The boot creates it before there is another task;
  only if that fails may the end of the blink, in the timer task, fall between.
- A device whose MAC spells an attribute id may mix its MAC answer with a report
  in the transmit buffer: `OneReportPerAttr` is not claimed for it.
- A late answer that names the latest value frees a report that was never heard;
  `missed` counts this as missed.
- Only the last accepted event is remembered: a duplicate after another event is
  executed again. An event accepted at tick 0 is remembered until another one comes
  (one millisecond in the 49 days of a turn); across a wrap the difference is 1 ms short.
- A pairing timeout handled in the 1.65 s between a long press and its reset ends
  the mode just asked for; `LongPressPairs` takes that for the end of the mode.
- A relay may be pulsed without its hold bit when the callback clears the bit between
  the two steps of a command, and the chip may then sleep on a driven coil. Relay and
  Power reach this; `SleepIsQuiet` sets it aside by name (`unheld`).
- With two sleep checks queued the first stops all timers and the second may set a hold
  bit: the device is then awake for ever and scans no keys. Power reaches this when
  the app task is a period behind; `AwakeRuns` and the liveness properties set it
  aside by name (`late`, `Stranded`).
- A queue that is full when the hold of an unprovisioned device ends refuses the
  message that would end it, and the device never sleeps; `SleepsAgain` sets this
  aside (`hold = "refused"`).
- A full transmit buffer drops a report whose flag is already cleared, even if the
  network loses nothing; `missed` counts it.
- The timer of the changed scan lets go of the hold on sleep one second after
  provisioning (server:1287), not when the device has reported, as the comment at
  server:1285 has it; Power only says that a hold in force is respected.
- A firmware session that finds the resend offset of an earlier one may erase beyond
  the bank; one that finds an answer of an earlier one takes it for its own, and may
  never end or leave a ready header before an image that is no longer whole. An image
  that fills its bank erases the sector behind it with its last write. The properties
  of Dfu exclude these cases by name (`stale`, `ImageLength < BankSize`).
- Of the update, RECEIVE_FW_IMAGE_INFO, the connection parameter and IC type requests,
  which this client never sends, and the advertising and scan timers are left out.
  So are `dfu_reset(signature)` of the ROM, which a refused start and refused data call
  (dfu_server.c:509, 786), and in the client a failed allocation of a packet's buffer
  (dfu_client.c:649-652), a write of the control point that the stack refuses
  (dfu_client.c:254-261) and a failed discovery, which leaves the link idle
  (dfu_client.c:830-835): `UpdateArrives` assumes that none of these happens. A
  restart falls between two operations of the flash, not inside one.
- Lost updates of the hold bits (they are changed by a read, a modification and a
  write, taken as atomic here), failed allocations other than that of a relay timer,
  and failing writes of the two flash records without a power cut are not modelled.
- A power cut inside a save may leave a record that verifies as nothing, and the next
  boot clears the node; a power cut before the reset that a long press asks for loses
  the request. Pairing reaches both, and only `PairingEnds` and `HoldEnds` are
  stated over them.

### Not modelled

LED patterns, which only drive pins; the soft watchdog (compiled out); UART commands
(their port is never opened); MD5, of which Pairing asks only whether a record
verifies; the static set-up of the mesh node; the two- and three-way branches that
only repeat the first switch. Of the vendor SDK, which is nearly all of `src/`, the
mesh stack is a binary library, the flash library is modelled by what a save may
leave behind, and the mesh models, BLE profiles, register headers, peripheral drivers
and samples are other products' code or register access: the switch's own logic
does not run through them.

## Plan

What is left, in this order:

1. The FIFO in place of arbitrary events in Reporting, with both producers, and
   Heartbeat in place of its choices, so that the path from message to report is one
   specification; the two- and three-way builds of the reports.
2. The blink and the provisioned event shared by Pairing, Reporting and Power,
   with the durations that decide which comes first.
3. Hold bits as the words they are, with the read and the write of a change apart.
4. Proofs: abstract specifications beside EventQueue that the components implement,
   an actuator with a last command for Relay and a store that is written whole or not
   at all for DfuServer, with the refinement proved; the safety properties that the
   compositions of items 1 and 2 add.
5. Other servers of the mesh library (`cmd`, `model`), for a product that uses them.
