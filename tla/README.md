# A verification project for the FR30xx SDK

The repository is the HAL and middleware of the Freqchip FR30xx Bluetooth/audio MCU:
C drivers (`components/drivers`), modules on top of FreeRTOS (`components/modules`) and
the code applications share (`examples/common`). Vendored code (FreeRTOS, FatFs, FlashDB/FAL,
rpmsg-lite), the codecs and resamplers, and the generated controller and DSP images are not
the subject. The repository has no tests of its own; comments, headers and assertions are the
only statements of intent, and the finding quotes them.

## 1. The system

| Part | State it keeps | Operations | Interacts with | What is hard |
|---|---|---|---|---|
| **audio scene manager** (`audio_scene.c`) | `audio_scene`, `audio_tone_scene`, `evt_list`, a binary semaphore | create, destroy, tone_play, tone_stop, recv_encoded_data; the audio task; two interrupt callbacks | every scene (`op->init/destroy/event_handler`), decoder module, heap | threads, task and interrupt share globals; the semaphore is taken in one thread and given in another; memory is freed by the task while callers hold pointers |
| **audio decoder** (`audio_decoder.c`) | per module: ring of mixed PCM with one write pointer and one read pointer per output; lists of started, stopped and output nodes; per decoder: write offset, pending raw data, decode state | init, destroy, add, remove, start, stop, output_add/remove, decode, get_pcm | scenes, hardware interrupt (get_pcm), codec | several writers at different offsets and several readers of one ring; the interrupt both reads it and starts or stops mixing |
| **audio encoder** (`audio_encoder.c`) | list of encoders, PCM ring | add, remove, start, stop, save_pcm, encode | sco, voice, recorder | interrupt fills while a task encodes |
| **scenes** (`audio_a2dp_sink.c`, `audio_a2dp_source.c`, `audio_sco.c`, `loopback.c`, `local_playback.c`, `recorder.c`, `voice_recognize.c`) | an environment each | init, destroy, event_handler, hardware callbacks | scene manager, decoder, encoder, hardware | start threshold counted in the task and in the interrupt; wrap of the loopback ring |
| **audio hardware** (`audio_hw.c`) | two tables of running instances | create, destroy, DMA interrupts | scenes, I2S/PDM/codec drivers | tables searched past their end, the error path, resources shared between input and output |
| **heap** (`heap.c`) | sorted list of free blocks, linked both ways, inside one region | init, alloc, free, usage | everything (port of `pvPortMalloc`) | splitting, coalescing, exhaustion |
| **linked lists** (`co_list.c`) | singly linked lists with a pointer to the last element | push, pop, insert, extract, merge, find, size | audio | one or two elements, the last one leaving, empty lists; every caller has to lock |
| **DSP link** (`dsp.c`, `dsp_mem.c`, `driver_ipc.c`) | mailbox channels | load, run, sleep, wake up, remote calls | second core (rpmsg-lite) | a handshake through memory without a time-out |
| **OTA** (`ota.c`, `service_ota.c`) | two information pages and two images in flash | ask for version and address, erase, write, read, reboot | flash, watchdog, boot loader, BLE | power may fail inside any flash operation; the reset comes later than the command |
| **flash program / FlashDB port** (`ext_flash_program.c`, `fal_flash_port.c`, `fdb_app.c`) | none of their own | erase, write, read | flash driver | sector rounding |
| **disk I/O** (`fatfs/source/diskio.c`) | none of its own | read, write, ioctl | RAM, SD and SPI flash drivers | nothing beyond its drivers |
| **sleep** (`freertos_sleep.c`) | tick compensation | enter, wake up | FreeRTOS, PMU | carrying ticks over a sleep in unsigned arithmetic |
| **drivers with state machines** (UART, I2C, SPI master/slave, CAN, SD card and MMC, DMA, flash, GPIO, PMU) | a handle per instance | blocking, interrupt and DMA transfers | interrupts, applications | time-outs racing completion, FIFO limits |
| **USB device classes** (`usb_core.c`, `usb_dev.c`, `usb_mass_storage.c`, `usb_cdc.c`, `usb_hid.c`, `usb_audio.c`, `usb_winusb.c`, `usb_wireless.c`) | device address and state, endpoint 0 stage, bulk-only transport stage | setup, data, status, reset, suspend | USB interrupt | a reset between two stages of a transfer |
| **USB host** (`usb_host.c`, `usbh_mass_storage.c`) | enumeration state, pipes | enumerate, bulk-only commands | FatFs | unplugging, NAK, retries |
| **Bluetooth glue** (`controller.c`, `host.c`, `SWD.c`, profiles) | GATT tables | controller download, call-outs of the stack, GATT reads and writes | controller image, BLE stack library | the stack itself is a binary library |
| **system** (`system_fr30xx.c`, `trim_fr30xx.c`, `exception_dump.c`) | clock registers | clock switching, trimming | hardware | register sequences |

How the audio parts interact: an application thread calls the scene manager, which queues an
event; the audio task pops it and calls `init`, `destroy` or `event_handler` of a scene; the
scene creates decoders, outputs and hardware. The interrupt of the hardware reads PCM through
`audio_decoder_get_pcm`; what it finds missing it reports through the decoder's callback, which
queues an event for the audio task again. Everything is allocated from the heap.

What makes each part correct:

- *scene manager*: one life-cycle operation at a time; no lost semaphore; globals, memory,
  speaker and decoder module agree between operations; nothing leaks, nothing freed is used.
- *decoder*: the pointers of the ring keep their order; what is played is a complete mix and
  never of an earlier lap; a decoder that runs short is asked for data; blocks are freed once.
- *heap*: blocks tile the region, the list is whole and coalesced, callers' blocks are disjoint
  and long enough, the usage counter is exact.
- *scenes*: after any sequence of underruns the stream resumes.
- *encoder*: frames come out whole, in order, none lost.
- *audio hardware*: a failed create leaves nothing behind; an output removed is not called again.
- *update*: at every instant at which power may fail, one complete image is bootable.
- *linked lists*: a list is the sequence of what was put into it, whatever is done to it.
- *mass storage*: every command gets exactly one status, and data go to the command they belong
  to, bus resets included.
- *drivers*: every transfer completes once, or is refused.
- *sleep*: the tick count follows real time.

## 2. The modules

| Module | What it is | From |
|---|---|---|
| `AudioScene` | the scene manager: threads, queue, audio task, interrupts | `audio_scene.c`, create and destroy of `audio_a2dp_sink.c` and `audio_hw.c` |
| `SceneOwner` | abstract: the right to change the scenes has one owner | the semaphore's purpose |
| `MCAudioScene` | symmetry for TLC | |
| `AudioSceneProofs` | theorems about `AudioScene` | |
| `AudioDecoder` | the decoder module: ring, decoders, outputs; task and interrupt | `audio_decoder.c`, the pull of `audio_a2dp_sink.c` |
| `MCAudioDecoder` | symmetry and a VIEW | |
| `A2dpSink` | extends `AudioDecoder` with the scene that uses it | `audio_a2dp_sink.c` |
| `MCA2dpSink` | its instance | |
| `AudioDecoderProofs` | theorems about `AudioDecoder` and `A2dpSink` | |
| `Capture` | a recorded sample from the interrupt to the peer, for five scenes | `audio_hw.c`, `audio_sco.c`, `recorder.c`, `voice_recognize.c`, `loopback.c`, `audio_encoder.c` |
| `MCCapture` | its instance | |
| `CaptureProofs` | theorems about `Capture` | |
| `Heap` | allocation and release in one region | `heap.c` |
| `HeapPromise` | abstract: what callers of `pvPortMalloc` rely on | |
| `MCHeap` | a VIEW that ignores what old headers left in memory | |
| `HeapProofs` | theorems about `Heap` | |
| `CoList` | the pointers of linked lists, beside the sequences they should be | `co_list.c` |
| `CoListProofs` | theorems about `CoList` | |
| `Ota` | the update over the air, with power failures | `ota.c`, `service_ota.c`; the boot loader from the flow chart beside the library |
| `OtaPromise` | abstract: an update is atomic | |
| `MCOta` | its images | |
| `OtaProofs` | theorems about `Ota` | |
| `MassStorage` | a USB disk, its controller and its host | `usb_mass_storage.c`, the interrupt handler of `usb_dev.c` |
| `MCMassStorage` | its instance | |
| `MassStorageProofs` | theorems about `MassStorage` | |
| `SerialPort` | what the serial drivers share: handle, thread, handler, FIFOs, line, peer | registers as the drivers use them |
| `Uart`, `Spi`, `I2c` | one driver each, on `SerialPort` | `driver_uart.c`; `driver_spi_master.c`, `driver_spi_slave.c`; `driver_i2c.c` |
| `SerialDrivers` | all of them, with fairness and properties | |
| `SerialDriversProofs` | theorems about `SerialDrivers` | |

`PROJECT.json` ("map") names the lines of every definition. Definitions called *Mutant* are
plausible bugs, used to see that a property can fail; no specification uses them.

### AudioScene

State: `main` and `tone` are `audio_scene` and `audio_tone_scene`; `sema` is the binary
semaphore; `evts` is `evt_list`; `tpc` and `cur` are the program counter of the audio task and
the event it serves; `pc`, `arg` and `handle` are the program counters, arguments and results of
the calling threads; `life` and `kind` are the memory; `hw`, `mixer` and `dec` are what `init`
and `destroy` of a scene do to speaker and decoder module.

A call is cut where another thread or an interrupt can see a difference: at the semaphore, at
each write of a global, at each queued event. So `audio_scene_create` is `CallCreate`, `Take`,
`CreateRetire` (queue DESTROY for the old scene), `Take`, `CreateAlloc` (overwrite
`audio_scene`), `CreatePost`, `CreateReturn`. `audio_scene_tone_play` shares the tail of it
when there is no main scene (`PlayAlone`), as the code does by calling `audio_scene_create`.
The audio task is `Pop`, then `HandleCreate`, the three steps of a DESTROY, or `Deliver`, then
`Give`. Main scenes are of two kinds: a *host* decodes and supports a tone, a *solo* scene only
uses the hardware. A memory access the build does not survive sets `fault`, which stops the
program: NULL, freed or uninitialised memory, an assertion, or no memory left.
`audio_scene_destroy(NULL)` is a call like any other: while a global is NULL it takes the semaphore, and the task does nothing. The callback an application may
register for the end of a tone (`tone_destroyed_cb`, called by the task with the semaphore held; nothing in
the repository sets one) is taken not to call the scene manager.

`TaskPreempts` says whether the audio task has a higher priority than every caller: then a
caller only runs while the task waits for an event. Applications choose the priorities, so both
are checked. `TonesEnd` says whether a tone's input may end, which lets the interrupt destroy
the tone (`PcmConsumed`). `AllocMayFail` chooses the heap: `heap.c` never returns NULL; other ports
do. `MaxEvts` bounds the queue only for the events that are posted without the semaphore.

### AudioDecoder and A2dpSink

State: `wr`, `rd` and `ring` are `audio_decoder_env`'s write pointer, read pointer and PCM;
`list` is `decoder_list` and `at` tells which list a decoder is in; `dwr`, `pending` and `state`
belong to a decoder; `ord` and `missed` to an output; `pc`, `cur` and the locals to the audio
task; `irq` tells how far the interrupt has come. Of the sound, `ring[i]` keeps *whose* samples
have been mixed into slot `i` since it was read last; `STALE` marks a sample of an earlier lap.
Adding to a slot is a union, copying over it an assignment, zeroing it the empty set, reading it
makes it stale.

What the code does with interrupts masked is one step. `mix_decoded_data` is cut at every other
place where the interrupt may come: `MixBegin` (the write pointer is read), `MixSearch` (the fastest
writer, interrupts masked), `MixPick`, `MixSave` (samples
into the ring), `MixAdvance` (offset, list), `MixEnd`; `update_wr_ptr` is `UpdateMin` and
`UpdateCommit`, as its lock ends between. A read by the interrupt is `IsrPull`, one `IsrCheck`
per started decoder (which asks for data, or mixes for a decoder whose input is over),
`IsrConsumed`, and `IsrMissed`, the handler of `audio_a2dp_sink.c` that stops its decoder on an
underrun (`Host`). The task does not run while the interrupt does. `audio_decoder_output_remove`
of the last output happens only inside `audio_decoder_destroy`, as in every scene. A decoder is started
while it is in `wait_start_list`, as the assertion at line 651 asks.

The sum of two samples, volume, channel count and resampling are left out: a frame decodes to
any number of samples in `Frames`, and a block is a frame or what a full ring has left of one, so
the length of the block in front is chosen (`Blocks`) when it is picked. Writing the samples
of one block and advancing the offset are one step each, so a race on single samples (the
read-modify-write of `+=`) is not in the model.

`A2dpSink` extends it: each of its steps is a step of the decoder module that says in addition
what the scene does. `thd` and `nb` are `start_thd` and `raw_frame_nb_in_list`, `reqs` the requests
queued to the audio task, `step` where the task is in the scene: `SceneInit`, `SceneAddDecoder`
and `SceneAddOutput` are `init`; frames (`FrameDropped`, `FrameKept`) and requests (`ReqFrame`,
then one `PickFrame` per frame of the list) are the two events; `SinkMissed` is the interrupt's underrun, which stops the decoder and may
set the threshold again.

### Capture

A sample is the number of the instant it was recorded at, so losing, doubling and reordering are
visible. `ring`, `wr`, `rd` are the receive ring of the `audio_hw_t` and its two pointers; `buf`,
`bufWr`, `bufRd` the canceller's `adc_input` of a call or the buffer of loopback; `enc` the encoder
with a frame half filled and the frames finished; `owner` the scene's static pointer (`sco_scene`
and its like). Interrupts are `Receive` and `Transmit` steps, the events of the audio task are read
in as many steps as there are reads, and the application creates and destroys scenes of all
five kinds one after the other. `late` records that the task was once later than the buffers can
hold: nothing is promised then except that the reader finds its place again (`ReaderInStep`).
`MaxEarly` bounds the interrupts that come before the output has been added. Loopback is modelled with
one hardware for both directions (`inout_mode`), which gives one chunk size and one clock.

### Heap

A word is an address; `kind` is the corruption token: `node` (free, in the list), `held`,
`releasing` (token changed, not linked yet) or nothing; `size`, `next`, `prev` are the header
fields. `HeapMemAlloc` is one step, as interrupts are masked throughout; `heap_mem_free` is
`Release` and `Link`, because the token is checked before they are masked, so that other
allocations and releases come between. `AllocWhole`/`AllocTail` and
`JoinBoth`/`JoinBefore`/`JoinAfter`/`Insert` are the branches of the code. `asked` is a history
variable, for the promise only. The three regions (SRAM, DRAM, BTDM) run the same code on
separate variables; one is modelled.

### CoList

`first` and `last` are the list headers, `next` the element headers; `held` is a history variable, the
sequence each list should be, which every function changes as its header describes it. A function
without a loop is one step; those that search (`find`, `size`, `extract`, `insert_before`,
`insert_after`) walk one element per step with their locals in `walk`, and end in `Answer`,
`ExtractFound` or `InsertFound`. Headers are not initialised, and an element keeps the pointer it
had when it leaves.

`Call` keeps to what the functions need: an element is pushed into one list only, and what is cut
out is there. Two calls that the header allows are left out because the list does not survive them,
and have theorems of their own: removing the second of *two* elements with `co_list_pop_subfront`
(`last` stays on the removed one), and merging an *empty* list into another (`last` becomes what the
empty one last held). In both the next push is lost. Nothing in `src/` makes either call.
Two smaller facts: the "ring" type of `co_list_pool_init` gives the same list as the other, and
`insert_before` with a reference that is not in the list appends without moving `last`, so `Search`
asks for the reference to be there.

### Ota

Flash is the code area (`pages`), the information page of the image that runs (`aInfo`) and that of
the image a client sends (`bInfo`), the latter in the three parts `app_otas_recv_data` writes it in.
Of a page the model keeps which page of which image it holds, or that it was programmed twice or
torn. RAM is `pc` (where the handler of REBOOT is), `hdr` (its local header), `armed` (the watchdog
runs) and `link`. Each command that changes the flash is an action; `OTA_CMD_WRITE_MEM` (`ota.c:442-448`, a
`memcpy` of what the client sends to an address it names) is left out. REBOOT is one action per flash
operation (`HeaderErase`, `HeaderTail`, `HeaderBody`, `HeaderValid`), then `ChipReset`. A power failure
may tear the flash operation it falls into. The boot loader is external: the flow chart
`FR30xx OTA机制.pdf` beside `ota.c` gives its order: accept zone B's header, copy page by page noting each
page, compare zone A with the image's CRC, write zone A's information, erase zone B's. `LateCommands`
lets a client send commands between `chip_reset` and the reset, which the code serves.

### MassStorage

The device is `disk` and the static variables of `usb_mass_storage.c`; the handler is cut wherever it
waits for a register, and the host and the controller (one packet deep each way, interrupts latched
until read) run beside it. A packet of data is the tag of the command that wrote it. The host
keeps to the protocol: it sends a command when it has the status of the last one, of at least one
block inside the disk; a stray packet, which overwrites `USB_CBWBuffer` before its signature is looked at,
may come between two commands. `ResetsInside` lets the
bus be reset after the device has seen a command; otherwise resets come before.

### SerialPort, Uart, Spi, I2c

One controller of any kind with its driver, chosen in `Init`. `tx` and `rx` are the handle's fields
(busy, count, size); `txf`, `rxf`, `shift` and `ndf` the FIFOs, the command on the line and what an SPI
master still reads by itself; `en` the enabled interrupts; `isr` and `pc` where the handler and the
thread are. The thread does not run while the handler does. Data are left out: a command
writes, polls or reads a frame, and what counts is how many are owed and due (history variables
`owed` and `due`). Blocking calls loop frame by frame; calls by interrupt set the handle first and enable
the interrupt last; the UART's callbacks may start the next transfer. An I2C device may refuse any
frame (`Refused`), after which the controller drops what is queued until the abort is cleared.

`i2c_master_transmit_IT` enables its two interrupts in two unmasked read-modify-writes, which are steps of
their own (`FullIT`, `ReadMask`, `WriteMask`). Callers start a transfer when the last one is over (`MayCall`):
of the SPI master's functions only `spi_master_transmit_X1_IT` looks whether it is.

Five constants say what the code leaves to its caller, to the chip or to the scheduler; the run takes the
value under which the drivers are right, and section 5 says what the other one breaks.

## 3. The runs

| Run | Question | States | Holds |
|---|---|---|---|
| `scene_preempt` | one caller below the task in priority; tones are only stopped by it | 2 695 | `NoFault`, `NoOrphanScene`, `CoherentWhenSettled` |
| `scene_callers` | two callers that race the task; malloc may fail | 628 690 | `OneOperationAtATime`, `SingleOwner` (refinement) |
| `scene_tones` | tones end by themselves | 372 800 | `TokenNeverLost`, `CallsReturn` |
| `decoder_mixing` | two decoders and two outputs come and go | 1 182 000 | `TypeOK`, `WindowOrdered`, `AllMixed` |
| `decoder_ending` | the input of a decoder may end; two outputs at their own pace | 95 921 | `NeedyIsAsked` |
| `decoder_freed` | is a freed block touched? (`heap.c:395`) | | `BlocksIntact` is **violated** |
| `heap_lists` | every sequence of allocations and releases | 17 229 | `TypeOK`, `Tiled`, `Linked`, `Coalesced`, `UsageExact`, `Implements` (refinement) |
| `sink` | underruns at any point of a mix, frames in any rhythm | 359 031 | `SinkTypeOK`, `NothingStaleIsPlayed`, `StreamResumes`, `StartsWithReserve` |
| `ota` | two updates of whole images, any flash commands, three power failures anywhere | 152 610 | `TypeOK`, `RunsIntact`, `VersionGrows`, `ImplementsPromise` (refinement), `CommittedIsInstalled` |
| `mass_storage` | five commands, the host at any point of the handler | 229 079 | `TypeOK`, `InStep`, `DiskHoldsWhatWasWritten`, `CommandsComplete` |
| `capture` | five kinds of scene one after the other, interrupts going on | 131 830 | `TypeOK`, `NoFault`, `NothingLost`, `ReaderInStep`, `NothingWaits`, `KeepsReporting` |
| `serial` | five controllers, devices that refuse, transfers stopped and restarted | 89 822 | `TypeOK`, `NothingLost`, `TrueMeansDone`, `TransfersEnd` |

`decoder_freed` is the finding: `check_request_raw_data` mixes from the interrupt for a decoder whose
input is over while the audio task may be mixing for the same decoder, and frees the block the task
goes on reading and frees again; `PROJECT.json` has the lines.

`CoList` has no run beside its proofs, which hold for any number of lists and elements; an
instance of two lists and three elements has 3 284 states up to symmetry.

**Bounds.** *Scenes:* three addresses are enough for a main scene, a guest tone and a scene being
created, and for each to be reused; with two callers two addresses suffice, since malloc may
fail. One caller is enough for `CallsReturn`: it can be blocked only by the semaphore, which the
task and the interrupt also use. `MaxEvts` is 2 with the checks of use after free, so that a
RECV event can outlive its scene behind another one; the callers run has 0, since those events do
not touch the semaphore. *Decoder:* `N` = 6 with `Rsv` = 2, `ReqThd` = 3, `FullThd` = 1 keeps the
order the thresholds have in the code; a block may have any length, so every offset reaches
every slot and a block wraps at each of its samples. `MaxPending` = 2 allows a second block behind the
one being mixed; 4 in `decoder_freed` lets a block be split by a full ring. `MaxMissed` stops an
output that wants zeros from counting what it missed without end; a pull is refused above it, and no
run with such an output checks liveness. The VIEW of `decoder_mixing` leaves out `req`, on which no
step depends. *Sink:* thresholds 2 and 3 let the list fill below, at and above both. *Heap:* 14
words with headers of 1 and 2 and requests of 1, 2 and 4 give every branch: a rest that equals a
free header, one that is smaller, a node used up whole in the middle and at the end of the list,
all four ways of joining, and exhaustion. *Ota:* images of 1, 2 and 1 pages in 4, so that zone B moves
when an image is installed and an update may grow and shrink; three failures allow one in the header,
one in the copy and one more in the copy that resumes. *Mass storage:* two blocks of two packets give
reads and writes of one block, of both and with an offset; counters wrap at `Cycle` = 16 instead of
2^32. *Capture:* a ring of three chunks of two samples and canceller frames of three, so that the two
sizes have no common border and every buffer wraps at each of its cells; numbers wrap at 24, more
than all buffers hold together. *Serial:* FIFOs of two frames and transfers of up to three are
less, equal and more than a FIFO.

**Deadlock** is checked except in `decoder_ending` and `heap_lists`, where the program really
stops (a freed block has been used; the heap is out of memory and loops for ever), and in
`mass_storage`, whose host has no more commands when the tags are used up.

**Fairness.** `AudioScene!FairSpec`: weak fairness of the audio task and strong fairness of each
caller at the semaphore and inside its call, since FreeRTOS serves the waiters of a
semaphore and gives every ready task time; nothing makes a thread start a call, and nothing is
assumed of the interrupt. `CallsReturn` is checked with `TaskPreempts` = FALSE: with a task of
higher priority, an interrupt that posts for ever can keep callers out, in the code as in the
model. `AudioDecoder!Fairness`: a handler runs to its end, and the hardware keeps pulling while it
is on; nothing is assumed of the callers, and `NeedyIsAsked` asks only that the outputs have
been added for good. `A2dpSink!SinkFairness` adds that the audio task goes on (strong, as the interrupt
comes between) and that frames keep arriving; `StreamResumes` needs no more of the peer. `Ota`: the
handler, the watchdog and the boot loader go on; nothing of the client, and power fails only so
often. `MassStorage`: the handler and the host's side of the bus go on. `Capture`: both interrupts and the
task go on; nothing of the application. `SerialDrivers`: the line runs and peers send, interrupts
and threads are served; strong fairness of the end of a transfer says that callbacks do not start
another one for ever, and of `Done` that a device asked again and again acknowledges some time.

## 4. The proofs

For every value of the constants that satisfies the assumptions of the module (`SceneAssumption`,
`HeapAssumption`, `OtaAssumption` and so on; for `CoList`, NULL is the address of no element). Where a
theorem has a hypothesis beyond them, it is one of the choices that section 5 lists as limits of the
code, and TLC finds a counterexample without it.

- `AudioSceneProofs`: **TypeCorrect**; **SemaphoreNeverLost**, for tones that end by themselves
  too; **OneOperation** and **ImplementsSingleOwner** under `TonesEnd = FALSE`. Every step is first
  classified by what it does to the right to change the scenes (`TokenStep`: leaves it, takes it,
  returns it, hands it over with an event, pops, finishes, or steals it from the interrupt); the
  invariants and the refinement are then proved on the classes only, once each. `Exclusive`
  adds to `OneOperationAtATime` that no decoder is draining (`NoDrain`), which is what rules out
  the stealing step: without it the property is false, and a tone that ends at the wrong time is
  the reason. The refinement maps the state to `owner`; `OwnerForm` replaces its CHOOSE by what
  the exclusion makes of it. **NeverFaults**, **NoSceneIsLeaked** and **SettledIsCoherent** hold when
  nobody disturbs (`Undisturbed`): one caller, below the task in priority, tones that do not end by
  themselves, a heap that does not return NULL, and room for two scenes. Their invariant (`SceneInv`)
  is a case distinction over where the one operation under way stands, `SceneCases`: between
  operations globals, memory, speaker and decoder module agree (`Coherent`), and at each cut of a
  create or a destroy one named part of that is missing (`FreshMain`, `FreshTone`, `Emptied`).
  With two callers the event of one and the scene of the other use up the memory.
- `HeapProofs`: **TypeCorrect**, **AlwaysTiled**, **AlwaysLinked**, **AlwaysCoalesced**,
  **UsageIsExact** and **KeepsPromise** (the heap implements `HeapPromise`). The inductive invariant is `TypeOK`,
  `Tiled`, `Linked` and `Coalesced` together: that the walk of the list finds the neighbours of a
  block needs both the tiling (no block starts inside another) and the order of the links, and the
  tiling survives an allocation only because the first node, whose `prev` is nil, is never used up
  (`Fits`). There is one lemma per branch of the code, and under it one step per conjunct.
  The usage counter is recomputed by a loop over the list and counted down by releases: `SumOf` proves of
  that sum, by induction on the size of the set it runs over, that any element may be added last and
  that only the sizes of its elements matter, and each branch then moves as much as it counts.
- `OtaProofs`, for images of any length but 0 (`NoEmptyImage`; the code accepts 0, section 5) and any
  number of failures: **AlwaysIntact** for any client that erases, writes and reboots, late commands
  included; **TypeCorrect**, **VersionsGrow** and **UpdateIsAtomic** (`Ota` implements `OtaPromise`) without late
  commands. The invariant comes in two layers. `Types`, `InfoSound`,
  `HeaderSound` and `BootSound` hold whatever the client does: the information pages tell where the
  images are, and while the boot loader copies, what it has copied and what it still has to read
  are whole, because the CRC was checked before and zone B does not overlap zone A. `Order`
  (`PartsInOrder`, `CommitSound`, `InstallSound`) needs that nobody erases the header once it is
  valid: the parts are written in order, and a valid header belongs to an image that stays whole
  until it is installed. The refinement has one lemma per action.
- `CoListProofs`: **ListsStayWhole** (`Represents` and `Apart`), **SearchesAnswerRight**,
  **TypeCorrect**, and for the two calls that break a list **PopSubfrontOfTwo** and **MergeOfEmpty**. The
  inductive invariant joins the lists (`Whole`) and the search that runs (`WalkSound`): what a search
  has passed is a prefix of the list without its target. `OneList` is the argument behind every
  function: if only list `l`'s elements and free ones change, the new pointers hold the new sequence
  and its elements are `l`'s or free, then every other list is as it was. The rest is
  sequences: concatenations, parts, and parts around a gap stay linked and without repetition.

- `MassStorageProofs`: **TypeCorrect**, **AlwaysInStep** and **DiskIsWritten**, for disks and commands
  of any size, as long as no reset comes inside a transfer (`~ResetsInside`). Beside the latched
  interrupts (`Latches`) and the limits of the host's commands (`Fits`), the invariant says for every
  kind of command where device and host are: nothing under way (`IdleSound`), the command still in the
  FIFO (`UnseenSound`), and for a short answer, a read and a write how pointer and count of the device
  relate to the packet the host is at (`AnswerSound`, `ReadSound`, `WriteSound`). In a write the disk
  lacks what is in the FIFO and nothing else, which is what `DiskHoldsWhatWasWritten` needs.
- `CaptureProofs`: **NeverFaults**, **ReaderStaysInStep**, **TypeCorrect**, **NothingIsHeldBack** and
  **NoSampleIsLost**, for buffers, frames and chunks of any size, when the task preempts its callers
  (`TaskPreempts`).
  `Control` joins the order of queued events (`InOrder`) with what each stage of a scene's life
  has set up (`Stages`), which gives memory safety. `InStep` counts in whole chunks how far the writer
  is ahead of the reader, around the ring; `DataType` and `Prompt` follow the samples through the
  canceller's buffer and the encoder, where frames are larger than chunks and have no common border.
  For **NoSampleIsLost** (`NothingLost`) `Kept` is added to all of these. As long as the task has not been late,
  encoder, buffer and ring hold consecutive numbers, each part starting where the one before it ends,
  from `sent` to `now` (`Content`); `Room` bounds them by less than a full turn of the numbers, so that
  none is mistaken for another. That a step keeps this needs two more things. `Filling` says how far behind the
  task may be: for loopback the buffer, the ring and the interrupts that are ahead make up exactly
  half a buffer, so the reader always writes in front of what is played, and a scene whose output is not
  added yet has written nothing. `Frames` says which parts of the encoder a scene uses, so that the frames
  joined together are what was put in. The lemmas under it are about sequences (`SaveAllOut`,
  `EncodedBody`, `ReportedBody`: cutting into frames, packing and reporting only move samples) and about
  numbers that wrap (`HoldsStored`, `HoldsDrop`, `HoldsFrom`). `Roomy` is a hypothesis for loopback only: the interrupts
  before the output is added must leave half a buffer something to play. In the code the half is 32 chunks.
- `AudioDecoderProofs`, about the decoder module: **TypeCorrect**, **PointersStayOrdered**,
  **EverythingIsMixed**, **NothingOldIsPlayed** and **BlocksStayIntact**, for rings, frames and
  thresholds of any size, any decoders and outputs that come and go, and the interrupt between any two
  steps, under `Quiet`: no input ends, and the interrupt stops a decoder on an underrun only if it is
  the only one. (Without either TLC finds the ring broken; section 5.) Everything is said in
  distances from the read pointer (`From`), which turns the order around the ring into an order of
  numbers; reading shifts them all by the same amount. `Ordered` and `Behind` place write pointer,
  decoders and outputs; `Mixture` says what the slots up to each of them hold. Two clauses are about the
  task in the middle of something: `MixSound`, that the fastest writer it once looked up is still the
  furthest or its own offset has come past it, and `CommitSound`, that the distance `update_wr_ptr` found
  before its lock ended is still short of every decoder. About the sink, whose decoder is the only
  one (`Alone`): **SinkTypeCorrect**, **SinkPlaysNothingOld** and **StartsOnReserve**. Every step
  of the scene is a step of the decoder module, so its invariant carries over; `Counters` adds that
  frames in the list and frames still to be counted make up the reserve while the count is running.
- `SerialDriversProofs`: **TypeCorrect**, **NothingIsLost** and **SuccessIsReal**, for FIFOs of any
  depth, any thresholds and transfers of any size, under `Waits`, `Flow` and `EarlyHandler` = FALSE. `Balance` is
  the conservation law: what is owed is what is on its way to be sent, and what is due is what has
  arrived, what the master reads by itself and what is still asked for. `Control` has a part per driver
  (`UartInv`, `SpiInv`, `I2cInv`) that ties handle, enabled interrupts, and the places of handler and
  thread to the counts, and one for results (`ResultInv`): out, owed and left make up the transfer
  unless the device has refused a frame. Cardinalities of the commands on the line are
  followed with one lemma for each way the line can move (`MarksPut`, `MarksLoad`, `MarksDone`).

**Only model-checked:** liveness (`CallsReturn`, `NeedyIsAsked`, `StreamResumes`,
`CommittedIsInstalled`, `CommandsComplete`, `KeepsReporting`, `TransfersEnd`), which is beyond the
prover. Every invariant, action property and refinement that the passing runs check is a theorem.

## 5. What is not modelled

Every part is in `PROJECT.json` ("components") with its reason. In short: vendored code
(FreeRTOS, FatFs, FlashDB, rpmsg-lite), which is most of the lines under `src/`, binary libraries and
generated images are not this program; register sequences and pure look-up code have no control of
their own to check. Of the modelled parts, this is left out:

- A2DP source and local playback, which use the decoder module and the encoder as the modelled
  scenes do; the speaker's decoder of a call; the resamplers.
- I2C as a slave, whose handler only calls back; the DMA variants, which set registers and leave the
  rest to a controller the code does not show; QSPI and FRSPIM; I2S and PDM, whose handlers are
  callbacks.
- Endpoint 0 of USB: when the controller latches and clears its stages is in no file of the repository,
  and a model of it would be a guess.
- `OTA_CMD_WRITE_MEM`, which can change any RAM; the model's RAM is what `ota.c` keeps.
- Loopback between two hardware instances (`loopback.c:112-115`), each with its chunk size and clock.
- The call of `audio_scene_recv_encoded_data` with NULL, which the task would follow while a global is NULL,
  and a `tone_destroyed_cb` that calls the scene manager, which would wait for the semaphore its own task holds.
- The sum of two samples, see `AudioDecoder`.

**Limits of the code that the models show,** each under a constant or outside a run, because
nothing in the repository states the opposite:

- *Scenes.* A lone tone is played as the main scene and destroyed as a tone (the comment at
  `audio_scene.c:20`, and line 322). With a heap port that returns NULL, `audio_scene_create` queues an
  event without a scene. With two callers memory safety is lost: `audio_scene` is written before the
  semaphore is had again, so a tone may be attached to a scene that has not been initialised.
  With `TonesEnd` = TRUE the interrupt takes the semaphore unconditionally, and neither exclusion nor
  memory safety survives it.
- *Decoder.* With `InputEnds` = TRUE and two decoders the interrupt mixes over samples the task has
  written and not yet counted; with an interrupt that stops a decoder between the two halves of
  `update_wr_ptr` and two decoders, the distance is applied to a list that has changed. A decoder leaves
  the list before `wr_ptr` has been moved (line 463), and may be drained before the task says so
  (line 937). The last frame of a stream lies beyond `wr_ptr` and is never played.
- *Capture.* With `TaskPreempts` = FALSE an event can outlive its scene and reach the next one at the
  same address. Without `Roomy` (more than 31 interrupts between the start of the hardware and the output
  of loopback) what loopback plays first has not been recorded yet. The error path of `audio_hw_create` (line 489) is left out.
- *Update.* With `LateCommands` = TRUE a client that erases zone B after REBOOT leaves a committed
  image that is never installed; the image that runs stays whole. REBOOT does not look at `firmware_length`
  (`ota.c:461-464`, `539-561`): with 0 and a CRC of 0 it commits an empty image, after which zone B begins
  where the running code lies, and TLC violates `RunsIntact`, `ImplementsPromise` and `CommittedIsInstalled`
  (`Length` = 0 for an image).
- *Mass storage.* With `ResetsInside` = TRUE the transport's stage survives the reset and the next
  command is taken for data.
- *Serial.* A transfer restarted by a callback while a thread stops it hangs (`LateRestarts`); a call
  that does not wait for the line loses frames of a transfer that is "complete" (`Waits`); an SPI
  master without clock stretching loses frames when its thread is preempted (`Flow`); some I2C calls wait
  for ever for a device that does not answer, and `i2c_memory_write` does not look whether its last
  byte was acknowledged (`Unanswered`). If the I2C handler comes before `i2c_master_transmit_IT` has enabled
  both interrupts (`driver_i2c.c:553`), as when its thread is held up there, it may have queued the last
  frame and disabled both before `INT_TX_ABRT` is enabled again. It then clears the abort of a later
  blocking write, which returns true, or of a read, which waits for ever; and with what was read of
  the mask before the handler ran, a frame beyond the buffer is sent. With `EarlyHandler` = TRUE TLC violates
  all four properties. A start of the UART while it is busy is checked, then set, and
  not protected against a second thread. An SPI slave's short transfer by interrupt completes without
  a callback, and frames below the receive threshold are not delivered until more come.
- *Sleep* (not modelled). `freertos_sleep.c` has the WFI of its light sleep commented out; the
  microseconds of a deep sleep go negative if `user_entry_before_sleep` takes longer than the margin.

## 6. Plan

In this order:

1. **Tickless sleep**: the arithmetic that carries ticks over a deep sleep, in 32 bits.
2. **DSP link** and mailbox: the sleep handshake and remote calls, against a second core that keeps to
   the flags.
3. **CAN** and **SD card**: message RAM, command and data phases; then **USB host** with unplugging.
4. Endpoint 0, once the controller is documented.
