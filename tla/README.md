# ZyboZ7: TLA+ specifications, model checking and proofs

The repository holds the software and the FPGA designs of two projects on a Zybo Z7 board (a Zynq:
two ARM cores and programmable logic): an embedded Linux that measures distances with a sonar and
publishes them over MQTT, with kernel modules for the sonar's ADC and for motor control; and a guitar
pedal, an I2S core with its effects in VHDL and the bare metal program that configures it. This
directory specifies the parts in which order, timing and failure decide about correctness.

Contents: [1 inventory](#1-inventory), [2 modules](#2-modules), [3 runs](#3-runs-bounds-and-fairness),
[4 proofs](#4-proofs), [5 what was found](#5-what-was-found), [6 not modelled](#6-what-is-not-modelled),
[7 plan](#7-plan).

To use it, from this directory: `tlc -config MqttHandle_faulty.cfg MCMqttHandle.tla` for a run,
`tlapm AdcSonar_proofs.tla` for a proof module. `PROJECT.json` lists the runs, the lines of source each
definition stands for, the hazards with the properties that cover them, and the theorems.

## 1 Inventory

### The sonar: from the ADC to the MQTT broker

| component | state it keeps | operations | what makes it correct |
|---|---|---|---|
| **Kernel module adcsonar** (`KernelModules/adcsonar`) | polling state, last conversion as a pair distance/version under a spinlock, acquired resources | init (9 steps, most may fail), thread (polls the XADC every 100 ms), interrupt handler, `read` of `/dev/adcsonar`, exit | pairs are never torn, every end of a sequence leads to exactly one new start, exit undoes init and returns, whoever has the device open |
| **Device access** (`AdcSonarHandle`, `XadcHandle`) | the last version read | unbind, modprobe, read, modprobe -r | failures are retried, a version is taken once |
| **MQTT sender** (`mqttSender.c`, `mqttbroker.service`) | scheduler state, write flag, reading in hand, end flag | main loop: AppScheduler, MqttHandle_App, sleep; SIGINT handler; restart by systemd | readings are published in order, each once, and eventually |
| **MQTT client** (`MqttHandle`) | protocol state, transfer counters, packet buffer, packet identifier | one case per call: CONNECT, CONNACK, PINGREQ, PINGRESP, PUBLISH, PUBACK, WRITE, READ | strict request/response over a link that fragments; identifiers in order |

The kernel thread publishes at its own pace and on its own CPU; the application reads the device in its
scheduler and hands the reading to the client through a flag, a data state and a payload buffer; the
client talks over TLS to a broker that may answer late, wrongly or never. Hard are: the interleaving of
thread, interrupt handler, readers and an unload that waits for none of the readers; the two state machines that share three variables through
alternating calls; transfers cut anywhere; signals and restarts at any point while the kernel module,
with its counter, lives on; initialisation that fails half way.

### Motor control

| component | state it keeps | operations | what makes it correct |
|---|---|---|---|
| **PWM core** (`HardwareLibraries/PwmCntAlign`) | registers, counter, shadow compare registers, interrupt level | every clock: count, load at the end of the period, compare, raise or clear the interrupt | compare values change only together, an interrupt is held until it is cleared |
| **Kernel module center-aligned** | phase, mapping, handler | init, interrupt handler (three duty cycles, then clear), exit, again | handler and core stay in step: one triple per period, alternately; nothing is driven after an unload |
| **Kernel module motorcontrol** | PWM, thread, duty cycle and direction | init, thread (a ramp, one step every 100 ms), exit | the duty cycle never passes the period or zero and keeps sweeping; the thread does not outlive the PWM |
| **Input capture timer** (`TimerInputCapture`) | counter, captured value, edge detector | every clock; registers | a captured value is one pulse |
| **Kernel module firstmodule** | LED register | a thread that blinks | (template) |

Hard: the handler writes three registers one by one while the core may end its period between any two
of them, and may be late by whole periods, since nothing bounds a Linux handler; two edge detectors, of the interrupt and of its clearing, each deaf in the other's state; a
clear that is posted, so that the handler can be called again before it arrives; a
handler installed before its mapping and removed before the core is stopped; a core that lives on between two loads.

### The guitar pedal

| component | state it keeps | operations | what makes it correct |
|---|---|---|---|
| **Sample path** (`I2sRx.vhd`, `I2sTx.vhd`) | clock dividers, receiver, effect state machine, buffer of two pairs, transmitter | every mclk cycle | each frame is played once, in order, left with right; starts and stops cleanly |
| **Effects arithmetic** (`I2sTypes.vhd`) | filter memories | FIR, high, low and all pass, gain with clipping, soft clip, one sample after the other | what must not wrap does not; a steady input comes to rest |
| **Register file and oscillator** (`GuitarPresets*.vhd`, `I2sTypes.vhd`) | 8 registers, synchronisers to mclk, the phaser's index | AXI writes, every mclk cycle, every sample | fields reach the effects whole and in the right place; the index stays in its tables |
| **Bare metal program** (`main.c`, `I2c.c`, `I2s.c`) | configuration, register words, codec | I2C and codec set-up, start of the core, then the 100 ms loop | a failure stops the start; nothing sounds before the codec is ready |

Hard: two processes at one clock that hand pairs over through two indices and several flags; halves of
frames that must be met exactly (24 bits, 7 of padding, 32 slots); the enable bit that arrives at any
cycle; registers of 32 bits sampled in another clock domain; arithmetic at fixed widths fed back into itself.

Pin constraints, hardware exports, recipes, licences and build files have no behaviour to specify.

## 2 Modules

```
ReadingFeed  <--implements--  MqttBroker  --extends-->  MqttHandle
                               |       .                    ^ MqttHandle_proofs
        MqttBroker_proofs -----+       . Convert stands for
                               |       v
                 TlsSession <--+   SonarDevice  <--implements--  AdcSonar  <-- AdcSonar_proofs

CenterAligned_proofs --> CenterAligned --extends--> ThreePhasePwm
MotorControl_proofs  --> MotorControl
PedalBoard_proofs    --> PedalBoard --extends--> GuitarPresets
Effects_proofs       --> Effects
I2sPipeline_proofs   --> I2sPipeline
```

**MqttHandle** is the client, open in its caller. A call of `MqttHandle_App` is `App(isWrite)`, one
disjunct per case of its switch; `WriteChunk(k)` and `ReadChunk(k)` are `SSL_MqttWriteHandler` and
`SSL_MqttReadHandler` when `SSL_write` or `SSL_read` moved `k` bytes, `TransferRetry` when it moved
none, for whatever reason: the code treats all of them alike, as long as the process survives the call (below). A request is a record, since the broker
parses it; an answer is its bytes, since the client compares them one by one in the first four bytes of
the shared buffer (`front`). The broker answers properly or, with `BrokerErrs`, with any packet. A proper broker may also close the link on a PUBLISH with the identifier 0 (`ZeroIdPending`), which
MQTT 3.1.1 forbids and the code uses first and after each wrap. `Open` is a new
process that got through `MqttHandle_Init`; `Close` is the end of one.

**TlsSession** is `MqttHandle_Init` and `MqttHandle_DeInit`, resource by resource: one action per call that can fail, and the
code's way of going on after a failure. A context that has been freed but whose pointer is kept is "dangling", and so is a socket.

**MqttBroker** composes the client and the session with the application: `pc` runs through main (`Start`, `MainInit`,
`OpenSession`, `AppScheduler`, `CallApp`, `Sleep`), AppScheduler has one action per case, each with its failures, and
`HandleSigint`/`Killed` may strike between any two steps. `Killed` is also SIGPIPE (`PipeBroken`): a write to a link the peer has closed raises it once the link has been reset, and nothing handles it. `Start` is systemd, which
gives the unit up (`GivenUp`) after `StartLimit` starts within its interval; `StartsForgotten` is the end of the interval, or somebody who resets the unit. `loaded` and `version` are the kernel module as
the application sees it, `Convert` its thread (SonarDevice, below). A reading is named by its version; scaling and formatting are
left out. **ReadingFeed** is what it promises: take a newer reading, deliver it once,
only then take the next.

**AdcSonar** is the kernel module with the granularity of its memory accesses: the thread's loop is split at every
register access and lock operation, the two fields of the pair are written and copied separately, the interrupt handler is called in one step and reads in the next, every
step of `adcsonar_init` may fail if `Faults` allows it, and `adcsonar_exit` is followed step by step. A process opens, reads and closes the device at any moment at which its node is there; the file operations have no owner,
so neither an open file nor a read under way keeps the module from being unloaded, and a process the module has gone under is "lost". The state
"failed" is an init that returned an error; "oops" is a place where the code certainly goes wrong
(`kthread_stop` of an error pointer, register access without mapping, by the exit or by a handler that `iounmap` caught). The XADC is external: in single pass mode it converts once per
start and sets the end bits in STATUS, cleared by reading, and INTR_STATUS, cleared by writing.
**SonarDevice** is what the driver promises to those who read it, without thread, interrupt and lock: one reading, replaced as a whole by each conversion, of
which a call returns what was there at one moment. `Device` in AdcSonar maps the driver to it (a read takes effect where the version is copied, a conversion where the version is incremented);
`loaded` and `version` of MqttBroker are such a device too, so that the two models meet in it.

**ThreePhasePwm** is the core, register-exact: `Tick(w)` is one rising edge of the clock at which the bus
writes `w` or nothing, a conjunction of the Verilog's processes, each reading the values before the edge.
**CenterAligned** is the kernel module on top of it, through any number of loads and unloads. A register write of the driver is a `Tick` that carries it;
any number of `Clock` cycles pass in between, so the handler may be late by any number of periods, and it may be called again as long as the line is up, although it has written the clear. `disturbed` is a history variable: whether such
a thing has fallen into the running period. "failed" and "oops" are as in AdcSonar.

**MotorControl** is the module motorcontrol: init and exit call by call, with their failures, and the thread's loop in three steps, between
which an unload may come. The PWM framework of the kernel is external: `pwm_config` refuses a duty cycle longer than the period, `pwm_enable` a PWM that was never configured, and both may fail for reasons of the driver's; the code looks at neither result.

**I2sPipeline** is the sample path, one `Tick` per mclk edge as the conjunction of the VHDL processes.
The word of frame n is named n modulo `Frames`, 0 is silence, and effects leave the name alone. `WriteEnable` is the host.

**GuitarPresets** is the register file: a register is the set of its bits that are 1, a field a slice of it (`Slice`) compared with
the two's complement of a number (`BitsOf`). A register crosses to mclk through two flip-flops; where it changes just before an edge, the first of them
takes any mix of old and new bits (`Mixes`; for the registers in `Torn`). The oscillator that moves the phaser's index lives here, as it depends on register 3 alone.
**PedalBoard** is the program that writes them: `Fields` lays out the bit fields of `I2s.c` as the compiler does (a field that would
cross a word starts the next), the setters clamp as in the code, and `Configure` is a debugger: nothing in the repository changes the configuration that
is nevertheless written again every 100 ms.

**Effects** is the arithmetic, one sample per step: the chain of filters and the distortion with the widths and the wrap-around of
`ieee.numeric_std` (`Wrap` for an addition or a shift to the left in a fixed width, `Resize`, which keeps the sign bit, for the function of that name). The width of a sample is a constant.

A module `X_proofs` holds the theorems about X, a module `MCX` the values of its constants for a run.

Definitions named in `PROJECT.json` as mutants (`...Late`, `...KeepsPhase`, preceded by "Seeded fault") are
faulty versions of the definition that follows them. Nothing uses them; each shows that a property would notice such a bug.

## 3 Runs, bounds and fairness

| run | configuration | what it shows |
|---|---|---|
| client_faulty | MCMqttHandle, `MqttHandle_faulty.cfg` | the client alone, any caller, a broker that answers anything, a link that may close: `TypeOK`, `TransferInBounds`, `PacketIdsInOrder` |
| broker_faulty | MCMqttBroker, `MqttBroker_faulty.cfg` | the application with every failure of the opening too, signals and restarts, an erring broker and a closing link: `HandOff`, `SessionWhole`, `PayloadStable`, and `ImplementsFeed` (refinement of ReadingFeed) |
| broker_proper | `MqttBroker_proper.cfg` | with a broker that answers properly, over a link that may close, a device whose reads may fail and a service with a start limit: `RequestResponse`, `FinishedIsAcked`, and the liveness properties `FreshReadingReachesBroker` and `ClosedLinkIsForever` |
| broker_finished_unacked | `MqttBroker_ack.cfg` | finding 1, a violation of `FinishedIsAcked` |
| adcsonar | MCAdcSonar, `AdcSonar_faulty.cfg` | the kernel module with two readers, in or out of a read when it is unloaded, and every fault: `AdcTypeOK`, `ReadIsOneConversion`, `OneTrigger`, `ExitUndoesInit`, `ImplementsDevice` (refinement of SonarDevice), `KeepsPublishing`, `UnloadCompletes` |
| adcsonar_thread_without_init | `AdcSonar_init.cfg` | finding 2, a violation of `ThreadOnlyIfInitialised` |
| center_aligned | MCCenterAligned, `CenterAligned.cfg` | core and driver from power-up over any number of loads, the handler late or early as may be: `PwmTypeOK`, `HandlerMapped`, `WholeTriples`, `Alternates`, `IrqAnswered`, `OffAfterExit` |
| motor_control | MCMotorControl, `MotorControl.cfg` | the ramp with the code's numbers, every call of init and thread free to fail, unloads at any moment: `DutyInRange`, `SweepsForever` |
| pedal_pipeline | MCI2sPipeline, `I2sPipeline.cfg` | the sample path with the code's sizes: `PipelineTypeOK`, `EdgesSeen`, `PairsAligned`, `Gapless`, `Plays`, `Stops` |
| pedal_board | MCPedalBoard, `PedalBoard.cfg` | program and registers from power-up: `PedalTypeOK`, `CodecFirst`, `PhaseInTable`, `ConfigurationArrives`, `PhaseSweepsSmoothly`, `PhaserSweeps` |
| pedal_threshold | `PedalBoard_threshold.cfg` | finding 3, a violation of `HighThresholdArrives` |
| effects | MCEffects, `Effects.cfg` | one channel, any order of the loudest samples, registers changed at any time: `FiltersSettle`, `NoLimitCycles` |

Some properties state what the code does, not what one would wish, so that a change of that behaviour is noticed:

* `ClosedLinkIsForever`: after the peer has closed, a client that does not die by SIGPIPE in WRITE stays in READ; it neither reconnects nor ends the process.
* `FreshReadingReachesBroker` names what ends the promise for good: a link the peer closes (of its own accord, or over the identifier 0), and a unit systemd has given up.
* `WholeTriples` and `Alternates` say exactly when the legs show duty cycles that do not belong together, or the same ones twice: the period ended between the handler's writes; it began with a handler due, was disturbed by a second call, or its own handler
  is late. So the harm of one late handler ends with the periods it falls into; but nothing in the code prevents the handler from being late.
* `ExitUndoesInit` and `UnloadCompletes` list what keeps an exit from its end ("oops"): an error left by `kthread_run`, a mapping that never was, and a handler still reading when `iounmap` comes, which precedes `free_irq`.
* `SweepsForever` speaks of the duty cycle the thread sets; the pin follows only if `pwm_enable` succeeded, which nobody looks at.

### Bounds

* `ConnectLen`, `PublishLen` (1 to 3 bytes): every way to cut a transfer into one, two or three parts occurs, and
  answers keep their real 2 and 4 bytes. The proofs are for any length.
* `PacketIdCount` 2 or 3 instead of 65536: identifiers wrap within the run. `MaxDelivered` 4 bounds the history of one
  connection, one more than needed to wrap.
* `MaxRx` bounds bytes on their way from the broker: a guard of `BrokerAnswers`, only effective with an erring broker. 6 is an answer of four
  bytes behind two that an earlier answer of the wrong length left unread, so that the client meets every misalignment. A compliant broker never has more than one answer on its way.
* `Readings` 1..3: one in hand, one newer, and one skipped, over restarts too. In broker_proper, whose liveness properties cost most, 1..2: one in hand and one newer.
* `StartLimit` 1 or 2 instead of systemd's 5: a unit that is given up after it had worked, and at once. In the run with an erring broker processes die by signals, so 1 with `StartsForgotten` is every pattern of restarts.
* `MaxConv` 3 conversions per load and two readers (751,000 states): each of the thread's three publishing places is used and
  followed by another. Three conversions also pass through a reload.
* `Frames` 4 (3 names and silence) tell a frame from both neighbours. `SlotBits`, `WordBits`, `PadBits` are the code's.
  `HostGap` 256: the enable bit changes at most once a frame, at any cycle of it. The code leaves at least 100 ms (4800 frames);
  below half a frame `Gapless` fails: a pulse of the bit that falls between two looks of the data process resets one
  index and not the other, and one frame of silence is played before the indices agree again.
* `PWM_PERIOD` 50 and the duty cycles are the code's divided by 1000; `WordSize` 256. The handler's writes fall on
  any cycle, of its own period or a later one. The proofs are for every period of at least 8 cycles and any duty cycles (`DutiesAssumption`).
* `Settled` (CenterAligned): between an unload and the load after it the three cycles pass that an interrupt takes through the core's flip-flops, two system calls against 30 nanoseconds. Nothing else is assumed about time:
  the handler may be late, the line may call it again before the posted clear has reached it.
* MotorControl has the code's numbers (368,000 states), but words of 30 bits: TLC's integers have 32. Either is far from any duty cycle; the proof is for any.
* PedalBoard: `Configs` are three configurations that differ from the default and from each other in some bits of every register, with values beyond the setters' limits.
  `Torn` {3}: only the oscillator's register is sampled torn, as the oscillator is the only one whose state survives a torn sample; `ConfigurationArrives` does not depend on what passes before.
  `MixesLegal`: no mix of two of the words written to register 3 is an index outside the oscillator's tables. The program does not check this (see 5). `Settled`:
  `msleep(100)` is longer than three cycles of mclk.
* Effects: samples of 4 bits instead of 24, the three middle taps of the FIR filter, the phaser's two smallest shifts (a larger one leaves nothing but the sign of so short a sample), the two loudest inputs
  and three settings, one for each distortion, in all of which the loops over truncated values behave differently. `qubic_shift` to 15, of the register's 7 bits.
  `NoLimitCycles` is a statement about this width only; `FiltersSettle` is proved for up to 24 bits.
* Deadlock checking is off in `adcsonar`, where an init that failed leaves nothing to do and an oops ends everything, and in `motor_control`, where unloading a module whose thread could not be created stops the kernel.

### Fairness

* MqttBroker: main's loop turns, an opening session goes on, and systemd restarts the process until it has given the unit up (weak fairness of `Start`, of the opening, `AppScheduler`, `CallApp`, `Sleep`; `Start` is not enabled once `GivenUp`,
  and that the interval ends is not assumed); steps that may
  fail on their own succeed if tried infinitely often (strong fairness of each call that opens the session while none has failed, of unbind, modprobe and the read of the device, and of the progress of a transfer or, over a closed link, of SIGPIPE):
  they fail for reasons outside the program, such as a network that is not there yet. The broker answers
  what it has received, or closes the link where the identifier is 0. Conversions, signals and any other closing of the link have no fairness: none of them must happen.
* AdcSonar: the kernel schedules the thread, a handler that was called and processes in a system call; the waiter for a spinlock gets it in the end
  (strong fairness of `LockData`; the ticket locks of the kernel are fair); a sequence that was started ends. Nobody has to open, read, load or unload.
* CenterAligned: the clock runs, the CPU goes on with an init, handler or exit it has begun and takes a pending interrupt. Nobody has to load or unload.
* MotorControl: the kernel schedules the thread. Nobody has to load or unload.
* I2sPipeline: the clock runs. PedalBoard: the clock runs, the program's loop turns, and while the core is enabled samples come (which is `Plays` of I2sPipeline). Effects: samples come.

## 4 Proofs

TLC's runs are for the small instances above. The following holds for every value of the constants that
satisfies the named assumptions of the modules (any packet lengths, up to 65536 identifiers, any readings; any set of readers, any set of faults, any number of conversions).

**MqttHandle_proofs.** None of the properties is inductive. `Shape` adds to the type invariant and to `TransferInBounds` that
the request under way determines the state its answer will be interpreted in (`RequestAgrees`): that is what is known at the moment an answer
is complete, many calls after the request was made.

* `ClientTransfers`: `Spec => [](TypeOK /\ TransferInBounds)`, and `ClientTypes` its first half.
* `IdentifiersInOrder`: `Spec => []PacketIdsInOrder`. `Identifiers` relates the current identifier to the
  last delivered packet and to the packet being written, in each state: the identifier runs ahead of the packets exactly between the PUBACK case and the next delivery.
* `ProperExchange`: `Spec => []RequestResponse`. `Exchange` says where the one outstanding
  request is, at the broker or answered on the link, and that what has been read of the answer is in the
  buffer and the rest on the link.

**MqttBroker_proofs.** The client's `Shape` is an invariant of the application too, as every step of the application is a step of the client or leaves it alone.

* `SessionIsWhole`: `BrokerSpec => []SessionWhole`. `SessionInv` says, for each place `MqttHandle_Init` can be at without a failure, exactly what has been acquired.
* `HandOffAgrees`, `PayloadIsStable`: `BrokerSpec => []HandOff` and `PayloadStable`. `HandInv` strengthens `HandOff` by `Aligned`: which of scheduler and client
  states can meet at each place of main's loop, and where the reading in hand stands in the list of what was delivered.
* `BrokerImplementsFeed`: `BrokerSpec => ImplementsFeed`, the refinement, with one lemma per action: `Start` begins a new feed, READ_DATA takes a reading, a
  WRITE that completes a PUBLISH delivers it, FINISH_SEND is done with it, the end of a process drops it, all else is a stutter.
* `FinishedWasAcked`: `~BrokerErrs => (BrokerSpec => []FinishedIsAcked)`; with a broker that errs it is false (finding 1). `AckInv` says that while the data state is SENDING the request is the reading in hand, and that when a send is
  over the reading is acknowledged. The step that ends a send accepts a PUBACK because `Exchange` puts the right one in the buffer, so both invariants of `MqttHandle_proofs` are carried over to the application, which also gives
  `BrokerExchange`: `BrokerSpec => []RequestResponse`.
* `ModuleSeenAsDevice`: `BrokerSpec => Sonar!DeviceSpec`. What the application assumes of the kernel module (`loaded`, `version`, `Convert`, loads and unloads) is a SonarDevice, which is what the driver is proved to be.
* `SendIsBounded`: `~BrokerErrs => (BrokerSpec => []SendIsNear /\ [][SendGoesOn]_brokerVars)`. From SEND_TO_SERVER to the answer, `StepsToAck` counts the steps that are left if every write and read moves one byte:
  at most 15 and the bytes of a CONNECT and a PUBLISH. Over an open link each step of client or broker lowers it, all others leave it, and the send ends with the acknowledgement only.
* `ClosedLinkRunsDry`: `BrokerSpec => [][RunsDry]_brokerVars`, with any broker. After the peer has closed each call uses up bytes that were on their way, or brings the client nearer to reading (`StepsToRead`), or moves nothing, in
  WRITE or READ; nothing more is delivered.

**AdcSonar_proofs.** One invariant, `AdcInv`: who holds the lock where (`Locks`), where the module
can be while thread, readers or XADC are active (`Phases`), what the flags say of the thread (`Triggers`), how far the published version
is behind the conversions (`Counts`), what a reader has copied so far (`Copies`), what is held when (`Holdings`), and when a handler under way has its mapping and what can have stopped an exit (`Accesses`).

* `WholeReadings`: `Spec => []ReadIsOneConversion`.
* `TriggerNeverLost`: `Spec => []OneTrigger`.
* `ExitIsClean`: `Spec => []ExitUndoesInit`. It does not say that every exit is clean, but that one is not in three cases only, which it names.
* `DriverImplementsDevice`: `Spec => ImplementsDevice`, one lemma per action that is not a stutter. That a call returns the reading of one moment needs `Copies`, that a conversion counts by one needs `Counts`,
  that no call survives the node of its module `Phases`.
* `ReadingsDoNotGoBack`: `Spec => VersionsGrow`, for a single reader the part of it that matters most.
* `UnloadIsBounded`: `Spec => []OnlyReadersInTheWay /\ LockIsNear /\ StopIsNear`, with readers that enter `adcSonar_read` at any moment. The thread waits for the lock only while a reader has it; each step of that reader lowers `HoldLeft`,
  at most 3, and then the lock is nobody's; and once `kthread_stop` waits each step of the thread lowers `StepsLeft`, at most 9. What is left to fairness is that a free lock goes to the thread in the end.
* `DriverTypes`: `Spec => []AdcTypeOK`.

**CenterAligned_proofs.** The invariant `PwmInv` has five parts besides the types. `Places`: what the driver's place says of handler, mapping and CTRL. `Flags`: an interrupt leaves the counter when a period ends. `Registers`: which of
the three duty registers hold which triple at each place of the handler; that alone decides what the end of a period loads, whenever it comes. `Handshake`: in a live module and a period that began undisturbed, core, line and handler are
together at one of six places of a round (raised, seen as an edge, pending, being answered, cleared, at rest), each with the triple that is shown. A period that ends with a handler due, or a handler called once too often, leaves the round;
the end of the next period that finds no handler due is back in it, whatever happened before. That is why a late handler has no lasting effect. `Silence`: a load that goes on found no interrupt.
The two edge detectors enter in `Handshake`: in an undisturbed period an interrupt and its clearing are each seen exactly once because they do not overlap.

* `PwmTypes`, `HandlerIsMapped`: `PwmSpec => []PwmTypeOK`, `[]HandlerMapped`.
* `TriplesAreWhole`, `TriplesAlternate`: `PwmSpec => WholeTriples`, `Alternates`, for every word size, every period from 8 cycles on and every two triples, with handlers as late as may be; `Settled` is the only assumption on time.
* `StoppedCoreIsSilent`: `PwmSpec => StaysOff`, the safety half of `OffAfterExit`: an output once low stays low until the module is live again.
* `PulsesAreCentred`: `SR0` and `SR1` of any duty cycle in any period are as far from its middle on either side, as long as the duty cycle, and nested.

**MotorControl_proofs.** `RampStaysInRange`: `MotorSpec => []DutyInRange` for every period, step and limits of the code's form with room for a step. The calls of the PWM framework may all fail. `MotorInv` adds where the thread can be at each place of init and exit; that the ramp stays within the period from anywhere in it, in either direction, is the lemma on one turn.
`RampReachesBothEnds` is the safety half of `SweepsForever`, for a step that divides the period (`Whole(PWM_PERIOD)`, as in the code): the duty cycle, always a multiple of the step, turns exactly at the period
and at 0, and every turn of the loop moves it by one step without wrapping.

**PedalBoard_proofs.** For every set of configurations that satisfies `MixesLegal`, whatever registers are sampled torn:

* `PedalTypes`: `PedalSpec => []PedalTypeOK`.
* `CodecIsFirst`: `PedalSpec => []CodecFirst`. Before the codec is done, bit 0 of register 0 is zero in the register and in each flip-flop on the way.
* `PhaseStaysInTable`, `PhaseIsSmooth`: `PedalSpec => []PhaseInTable`, `PhaseSweepsSmoothly`. What the oscillator sees is always a mix of two words that were written, in each stage of the synchroniser.
* `SettledCoreObeys`: `PedalSpec => []RoundArrives` for configurations that fit their bit fields (`Fits`: what no setter clamps is within its type's range), the bound behind `ConfigurationArrives`: once the sleep after a round of writes is longer than
  the synchronisers need, every field but the high threshold is at the place the effects read it from. `Round` follows the words through program, register and both flip-flops; `EncodedIsObeyed` is the arithmetic of bit fields and slices.
* `HighThresholdIsLost`: `PedalSpec => []HighThresholdLost`, finding 3 for every set of configurations.

**Effects_proofs.** `FiltersDoNotRing`: `EffectsSpec => FiltersSettle` for samples of 2 to 24 bits, every shift and all legal settings. While its input stays, a filter goes one way: the high pass decays towards 0 and the all pass
approaches its input, each without crossing it, and the low pass stays between its input and its last output. For each, the sum of a shifted sample and of what the shift leaves of the other lies between known bounds, so the resize is
the identity on it; `WiderHalf` and the table of powers of two give those bounds in each width. The proof goes from sample to sample only for values in their width, which is where the FIR filter comes in: its sum is a recursive function of the taps,
`Climb` the induction over them, drawn from the library's well-founded order on finite sets, `FirSums` says each partial sum is an integer, `FirDelivers` that the result is a sample.

**I2sPipeline_proofs.** For all sizes in which a word and its padding fit in half a frame (with at least two padding bits), and any `HostGap`, 0 included. The argument is one of position: `cycle`
counts the mclk cycles of a half frame, and each part of `PipelineInv` says for one process in which cycles it can be in which state. `Clocks`: the edge registers show an edge of lrclk in cycle 1, of the bit clock
in the last cycle of each bit. `Received`: the receiver counts with the clock generator, and its words are this frame's from cycle `W` on. `Flags`: a pair is complete in cycle `W` of the right half and gone three
cycles later, taken or thrown away. `InTime`: the effects run in the six cycles after that, and the wait for the data process's index is over before the next pair is there. `Sender`: the data process's bit is the clock's.

* `PipelineTypes`: `Spec => []PipelineTypeOK`.
* `NoEdgeIsMissed`: `Spec => []EdgesSeen`.
* `LeftGoesWithRight`: `Spec => []PairsAligned`.
* `EveryPairInTurn`: `LongGap => (Spec => Gapless)`, where `LongGap` is a frame between two changes of the enable bit; below half a frame it is false (see 3). `GapInv` adds three parts. `EnableBit`: the synchroniser holds what
  was written, each stage a cycle later. `StartStop`: a stop reaches the effects in the fourth cycle after its write or after the pair they are at, and the data process is then busy for `BusyFor` cycles at
  most, fewer than are left before the next write, so a start finds both indices at zero. `Turns`: in a running core the effects write a pair in cycle `W + 6` of the right half,
  the data process takes it at the start of the left half and moves its index at the start of the right half; where the indices are equal and which frames are in the buffer and on the wire follows from the cycle.
* `StopsWithinAFrame`: `LongGap => (Spec => []RestsInAFrame)`. A frame after the bit was cleared both processes are idle and both indices 0: the bound behind `Stops`. It is `StartStop` with the cycles counted.
* `PlaysWithinAFrame`: `LongGap => (Spec => []PlaysInAFrame)`. A frame and nine cycles after the bit was set, what the data process sends is frames and not silence: the bound behind `Plays`. Three more parts follow the wait:
  how long ago the last pair was complete (`SincePair`), how long a core that is not yet running can have been waiting for it (`FirstPair`), and that a running one holds no silence (`Sounds`). It says something when the host leaves more than that between two writes; the code leaves 100 ms.

Only model-checked: liveness under fairness, for which the prover has no rules (nor for ENABLED). What each liveness property but `IrqAnswered` rests on apart from fairness is proved: `SendIsBounded` for `FreshReadingReachesBroker`, `ClosedLinkRunsDry` for
`ClosedLinkIsForever`, `TriggerNeverLost` for `KeepsPublishing`, `UnloadIsBounded` for `UnloadCompletes`, `StoppedCoreIsSilent` for `OffAfterExit`, `RampReachesBothEnds` for `SweepsForever`,
`PlaysWithinAFrame` and `StopsWithinAFrame` for `Plays` and `Stops`, `SettledCoreObeys` for `ConfigurationArrives`, `PhaseIsSmooth` for `PhaserSweeps`, and `FiltersDoNotRing`, filter by filter, for `NoLimitCycles`, which as a statement about the
chain of all filters is checked for one width only.

## 5 What was found

1. *A reading counts as sent without an acknowledgement* (run broker_finished_unacked). When the PUBACK does not match, the client
   goes back to CONNECT with the data state still SENDING; the CONNACK that follows sets it to IDLE, and the scheduler, in FINISH_SEND, takes
   that for the end of the publication ("Data is sent to adafruit io").
2. *The thread is started although the initialisation failed* (run adcsonar_thread_without_init). `adcsonar_init` tests the mapping only; when the
   interrupt cannot be found or requested, the mapping exists, the XADC has not been configured, and the thread polls it without end.

3. *The high threshold never reaches the core* (run pedal_threshold). The fields of `Pedalboard_cfg1_Bits` have 33 bits together, so `threshold_high` starts a second word of the structure,
   and only the first is written. The core's high threshold is then made of the zeros above the gain and the gain's sixth bit, so every positive sample is cut to zero by the clipping, in the modes that clip.
   `HighThresholdIsLost` proves it for every set of configurations.

Seen while modelling, beside or within what the runs show (each is among the hazards):

* `ssl_init` frees the TLS context and keeps the pointer when the BIO cannot be set up, `tcp_connect` the number of a closed socket; `MqttHandle_DeInit` releases them again, although
  main calls that "exit the process safely" (mqttSender.c:130). `SessionWhole` says that it takes a failed call to get there.
* Over a link the peer has closed the client behaves in two ways, neither of them written down: in READ it waits for ever, in WRITE SIGPIPE ends the process and systemd starts another.
* The first packet identifier is 0, and 0 comes again after each wrap (MqttHandle.c:109). MQTT 3.1.1 does not allow it; a broker that insists closes the link, and with it ends the publishing for good (`ClosedLinkIsForever`).
* A refused CONNECT counts as accepted: `SSL_Mqtt_Connack` does not look at the return code.
* adcsonar. The file operations have no owner, so the module can go while a process has the device open or is in a read. And `Xadc_DeInit` unmaps the registers before it frees the interrupt: a handler on the other CPU, which the level interrupt that
  nobody acknowledges makes likely, can read through a mapping that is gone.
* A PUBACK of the wrong length leaves bytes on the link. Each later CONNACK is then read misaligned, and the client refuses it until the lengths happen to fit again.
* center-aligned. An interrupt raised between `free_irq` and the write that stops the core stays
  pending; at the next load it calls the handler before the registers are mapped ("oops"). And a stopped core still counts and reloads its compare registers, edge-aligned because CTRL is 0: after the
  start it shows these for the rest of the period, and torn ones if the period ends between the writes of `Pwm_Init` (`WholeTriples` is about what a started core loads). A handler that is late by a period, which its `pr_info` (line 104, every other time) makes easier, can tear a triple.
* motorcontrol looks at no result but `pwm_get`'s. After a failure of `kthread_run`, unloading hands an error value to `kthread_stop` ("oops"); after one of `pwm_enable` the thread sweeps a duty cycle nobody sees.
* PWM core, low side: its compare registers surround the end of the duty cycle instead of the centred pulse, so both
  sides of a leg can be high together. The driver never enables it.
* The phaser's index jumps to the lower end when its maximum is lowered below it while it falls: the code tells a wrap-around of the 4-bit index from it by a comparison with the maximum only (I2sTypes.vhd:324).
  Maximum index 7 and times 5 to 7 fit in their fields and lie outside the tables; the program does not refuse them.
* `PedalBoard_SetLowPass` clamps to -8..7, so the default low pass 9 becomes 7, the other form of the filter. The core uses the low four bits of the gain only.
* `apply_gain_clip` shifts within 24 bits before it compares with the thresholds, though its comment speaks of 29 (I2sTypes.vhd:232): a loud sample wraps round. The resizes of FIR, high pass and all pass can wrap too.
* I2sRx takes a word in the cycle that stores its last bit, so that bit is the previous half's.

## 6 What is not modelled

* The payload's text, topic and keys; the wrap of the 32-bit version (four years); `XadcBindDriver`, never called; a signal in the middle of an OpenSSL call (it comes between two).
* AdcSonar: what becomes of a process whose file or call the unload took away ("lost"), loads after one that returned an error, the processor time the repeated level interrupt takes,
  memory reordering (spinlocks and I/O accessors order what is shared).
* MotorControl: a failing `pwm_disable` (it returns nothing).
* ThreePhasePwm: the AXI handshake and read channel, reset during operation. CenterAligned: `center_aligned_thread`, never started.
* I2sPipeline: a reset during operation, noise on the bit clock (`dataIdx_cnt` is never resynchronised), the single bits of a word.
* Effects: the widest intermediate results of the soft clip (40 to 120 bits) are taken as exact; with the bounded shifts they are.
* PedalBoard: I2C on the wire (a call succeeds or fails), `I2c_CodecRead` and `I2c_ChangeMute`, never called.
* Not modelled at all: firstmodule, a template with no property beyond its assignments; the input capture timer, which no code in the repository drives, so how its registers are
  meant to be read could only be guessed; pin constraints, hardware exports and build files.

## 7 Plan

Done, in this order: MqttHandle, ReadingFeed and MqttBroker (the application is where protocol, signals and restarts meet), MqttHandle_proofs, AdcSonar, AdcSonar_proofs, I2sPipeline, ThreePhasePwm and CenterAligned;
then PedalBoard with GuitarPresets, TlsSession, Effects, MotorControl, CenterAligned over several loads, and the proofs about each of these and about MqttBroker;
then SonarDevice, the refinements to it, and the bounds behind the liveness properties;
then AdcSonar with a handler of two steps and unloads during a `read`, CenterAligned with late handlers, and failing PWM calls, SIGPIPE and systemd's start limit.

Next:

1. The receiver bit by bit, for the last bit of each word; both sides of the PWM core's legs, with a dead time.
2. The input capture timer, once there is software that reads it.
