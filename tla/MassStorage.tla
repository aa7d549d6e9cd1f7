---------------------------- MODULE MassStorage ----------------------------
(***************************************************************************)
(* The USB mass storage device (drivers/peripheral/Src/usb_mass_storage.c  *)
(* and the interrupt handler of usb_dev.c): SCSI commands in the bulk-only *)
(* transport on endpoint 1, served from the interrupt alone.  The host and *)
(* the controller, one packet deep each way, run beside the handler; it    *)
(* waits for the controller by reading a register in a loop.               *)
(*                                                                         *)
(* A packet of data is the tag of the command that wrote it.               *)
(***************************************************************************)
EXTENDS Naturals, FiniteSets

CONSTANTS
  Blocks,       \* DISK_BLOCKS
  PerBlock,     \* packets of a block: DISK_PAGE_SIZE / 64
  Cycle,        \* bound: counters wrap here, 2^32 in the code
  MaxTag,       \* bound: commands of the host
  ResetsInside  \* the bus is reset after the device has seen the command too

ASSUME MassStorageAssumption ==
  /\ {Blocks, PerBlock} \subseteq Nat \ {0} /\ MaxTag \in Nat
  /\ Cycle \in Nat /\ Cycle > 2 * Blocks * PerBlock
  /\ ResetsInside \in BOOLEAN

Packet == 0 .. Blocks * PerBlock - 1
Tags == 0 .. MaxTag    \* 0: what the disk holds at first
None == [kind |-> "none", tag |-> 0]
Kinds == {"none", "cbw", "data", "csw", "info", "other"}

VARIABLES
  disk,                   \* Disk
  writing, wptr, wcnt,    \* lu32_WriteStatus, lu32_WriteDiskPoint, lu32_WriteCnt
  reading, rptr, rcnt,    \* lu32_ReadStatus, lu32_ReadDiskPoint, lu32_ReadCnt
  cbw,                    \* dCBWTag of the command in USB_CBWBuffer
  isr, stat,              \* where the handler is, and the flags it has read
  rx, tx,                 \* the packet in each FIFO of endpoint 1
  irq,                    \* IntrRx, IntrTx and IntrUSB, latched until read
  txInt,                  \* the interrupt of IN packets is enabled
  cmd,                    \* the host's command
  stage, left,            \* its stage, and the packets left in it
  want                    \* what the host has written

device == <<disk, writing, wptr, wcnt, reading, rptr, rcnt, cbw>>
handler == <<isr, stat>>
host == <<cmd, stage, left, want>>
vars == <<device, handler, rx, tx, irq, txInt, host>>

Ops == {"read", "write", "inquiry", "ready"}
NoCmd == [op |-> "ready", lba |-> 0, len |-> 1, tag |-> 0]
NoIrq == [rx |-> FALSE, tx |-> FALSE, usb |-> FALSE]

Init ==
  /\ disk = [p \in Packet |-> 0]
  /\ writing = FALSE /\ wptr = 0 /\ wcnt = 0
  /\ reading = FALSE /\ rptr = 0 /\ rcnt = 0
  /\ cbw = 0 /\ isr = "idle" /\ stat = NoIrq
  /\ rx = None /\ tx = None /\ irq = NoIrq /\ txInt = FALSE
  /\ cmd = NoCmd /\ stage = "idle" /\ left = 0
  /\ want = disk

First(c) == c.lba * PerBlock
Count(c) == c.len * PerBlock
Minus1(n) == (n + Cycle - 1) % Cycle

-----------------------------------------------------------------------------
(***************************************************************************)
(* The host and the controller                                             *)
(***************************************************************************)
\* A command of at least one block inside the disk.  After a bus reset the host
\* enumerates the device first, in the same interrupt.
Command(op, lba, len) ==
  LET c == [op |-> op, lba |-> lba, len |-> len, tag |-> cmd.tag + 1] IN
  /\ stage = "idle" /\ rx = None /\ ~irq.usb /\ cmd.tag < MaxTag
  /\ lba + len <= Blocks /\ (op \in {"inquiry", "ready"} => lba = 0 /\ len = 1)
  /\ cmd' = c
  /\ stage' = CASE op = "write" -> "out" [] op = "ready" -> "status" [] OTHER -> "in"
  /\ left' = IF op = "inquiry" THEN 1 ELSE Count(c)
  /\ rx' = [kind |-> "cbw", tag |-> c.tag]
  /\ irq' = [irq EXCEPT !.rx = TRUE]
  /\ UNCHANGED <<device, handler, tx, txInt, want>>

\* A packet without the signature of a command; where a command has its tag it
\* may have any that has been used.
Stray ==
  /\ stage = "idle" /\ rx = None /\ ~irq.usb /\ cmd.tag < MaxTag
  /\ \E t \in 0 .. cmd.tag : rx' = [kind |-> "other", tag |-> t]
  /\ irq' = [irq EXCEPT !.rx = TRUE]
  /\ UNCHANGED <<device, handler, tx, txInt, host>>

SendData ==
  LET p == First(cmd) + Count(cmd) - left IN
  /\ stage = "out" /\ rx = None
  /\ rx' = [kind |-> "data", tag |-> cmd.tag]
  /\ irq' = [irq EXCEPT !.rx = TRUE]
  /\ left' = left - 1
  /\ stage' = IF left = 1 THEN "status" ELSE "out"
  /\ want' = [want EXCEPT ![p] = cmd.tag]
  /\ UNCHANGED <<device, handler, tx, txInt, cmd>>

\* The host has read the IN packet.
Sent == tx # None /\ tx' = None /\ irq' = [irq EXCEPT !.tx = TRUE]

ReadData ==
  /\ stage = "in" /\ Sent
  /\ left' = left - 1
  /\ stage' = IF left = 1 THEN "status" ELSE "in"
  /\ UNCHANGED <<device, handler, rx, txInt, cmd, want>>

ReadStatus ==
  /\ stage = "status" /\ Sent
  /\ stage' = "idle"
  /\ UNCHANGED <<device, handler, rx, txInt, cmd, left, want>>

\* A bus reset empties the FIFOs and clears the registers; the handler may be
\* anywhere.
BusReset ==
  /\ ResetsInside \/ stage = "idle" \/ cbw # cmd.tag
  /\ ~irq.usb /\ cmd.tag < MaxTag
  /\ rx' = None /\ tx' = None /\ txInt' = FALSE
  /\ irq' = [NoIrq EXCEPT !.usb = TRUE]
  /\ stage' = "idle"
  /\ UNCHANGED <<device, handler, cmd, left, want>>

-----------------------------------------------------------------------------
(***************************************************************************)
(* The handler                                                             *)
(***************************************************************************)
\* usb_Endpoints_SET_TxPktRdy after writing the FIFO.
Loads(kind, tag) == tx' = [kind |-> kind, tag |-> tag]

\* usb_MassStorage_SendCSW: nothing is sent if the FIFO is not empty.
SendCSW(tag) == IF tx = None THEN Loads("csw", tag) ELSE UNCHANGED tx

\* Endpoints_IRQHandler reads, and clears, IntrTx before IntrRx.
ReadTxFlags ==
  /\ isr = "idle" /\ (irq.rx \/ irq.usb \/ (irq.tx /\ txInt))
  /\ isr' = "rxflags"
  /\ stat' = [stat EXCEPT !.tx = irq.tx]
  /\ irq' = [irq EXCEPT !.tx = FALSE]
  /\ UNCHANGED <<device, rx, tx, txInt, host>>

ReadRxFlags ==
  /\ isr = "rxflags" /\ isr' = "rx"
  /\ stat' = [stat EXCEPT !.rx = irq.rx]
  /\ irq' = [irq EXCEPT !.rx = FALSE]
  /\ UNCHANGED <<device, rx, tx, txInt, host>>

NoRx ==
  /\ isr = "rx" /\ ~stat.rx
  /\ isr' = "tx"
  /\ UNCHANGED <<device, stat, rx, tx, irq, txInt, host>>

\* The packet left by a bus reset is gone: its length is zero.
EmptyRx ==
  /\ isr = "rx" /\ stat.rx /\ ~writing /\ rx = None
  /\ isr' = "usb"
  /\ UNCHANGED <<device, stat, rx, tx, irq, txInt, host>>

Flush == rx' = None /\ UNCHANGED <<stat, irq, host>>

\* A packet of a WRITE(10): beyond the disk it lands in other memory.
RecvData ==
  /\ isr = "rx" /\ stat.rx /\ writing
  /\ isr' = "tx"
  /\ disk' = IF wptr \in Packet THEN [disk EXCEPT ![wptr] = rx.tag] ELSE disk
  /\ wptr' = wptr + 1
  /\ wcnt' = Minus1(wcnt)
  /\ IF wcnt = 1 THEN SendCSW(cbw) /\ writing' = FALSE ELSE UNCHANGED <<tx, writing>>
  /\ Flush /\ UNCHANGED <<reading, rptr, rcnt, cbw, txInt>>

\* A packet that is no command is dropped without an answer, but is in
\* USB_CBWBuffer by then.
RecvOther ==
  /\ isr = "rx" /\ stat.rx /\ ~writing /\ rx # None /\ rx.kind # "cbw"
  /\ isr' = "tx"
  /\ cbw' = rx.tag
  /\ Flush /\ UNCHANGED <<disk, writing, wptr, wcnt, reading, rptr, rcnt, tx, txInt>>

RecvCommand(op) ==
  /\ isr = "rx" /\ stat.rx /\ ~writing /\ rx.kind = "cbw" /\ cmd.op = op
  /\ cbw' = rx.tag
  /\ Flush

\* Inquiry, the capacities, mode sense: the answer, and the status behind it.
RecvInquiry ==
  /\ RecvCommand("inquiry")
  /\ IF tx = None THEN Loads("info", rx.tag) ELSE UNCHANGED tx
  /\ isr' = "answer"
  /\ UNCHANGED <<disk, writing, wptr, wcnt, reading, rptr, rcnt, txInt>>

Answered ==
  /\ isr = "answer" /\ tx = None /\ isr' = "tx"
  /\ SendCSW(cbw)
  /\ UNCHANGED <<device, stat, rx, irq, txInt, host>>

\* Test unit ready, prevent removal, and every command that is not known.
RecvReady ==
  /\ RecvCommand("ready")
  /\ SendCSW(rx.tag)
  /\ isr' = "tx"
  /\ UNCHANGED <<disk, writing, wptr, wcnt, reading, rptr, rcnt, txInt>>

\* Mutant: the pointer goes on from the write before.
RecvWriteGoesOn ==
  /\ RecvCommand("write")
  /\ writing' = TRUE /\ wptr' = wptr + First(cmd) /\ wcnt' = Count(cmd)
  /\ isr' = "tx"
  /\ UNCHANGED <<disk, reading, rptr, rcnt, tx, txInt>>

RecvWrite ==
  /\ RecvCommand("write")
  /\ writing' = TRUE /\ wptr' = First(cmd) /\ wcnt' = Count(cmd)
  /\ isr' = "tx"
  /\ UNCHANGED <<disk, reading, rptr, rcnt, tx, txInt>>

\* READ(10) adds to the count that the read before has left.
RecvRead ==
  /\ RecvCommand("read")
  /\ reading' = TRUE /\ rptr' = First(cmd) /\ rcnt' = (rcnt + Count(cmd)) % Cycle
  /\ isr' = "first"
  /\ UNCHANGED <<disk, writing, wptr, wcnt, tx, txInt>>

LoadsFromDisk ==
  /\ Loads("data", IF rptr \in Packet THEN disk[rptr] ELSE 0)
  /\ rptr' = rptr + 1
  /\ rcnt' = Minus1(rcnt)
  /\ UNCHANGED <<disk, writing, wptr, wcnt, reading, cbw>>

\* Mutant: the interrupt of IN packets stays off.
FirstPacketSilent ==
  /\ isr = "first" /\ tx = None /\ isr' = "tx"
  /\ LoadsFromDisk
  /\ UNCHANGED <<stat, rx, irq, txInt, host>>

FirstPacket ==
  /\ isr = "first" /\ tx = None /\ isr' = "tx"
  /\ LoadsFromDisk
  /\ txInt' = TRUE
  /\ UNCHANGED <<stat, rx, irq, host>>

\* The end of the handler's IN part: nothing to send, or the FIFO is not empty.
NothingToSend ==
  /\ isr = "tx" /\ (~stat.tx \/ ~reading \/ tx # None)
  /\ isr' = "usb"
  /\ UNCHANGED <<device, stat, rx, tx, irq, txInt, host>>

\* Mutant: whether the FIFO is empty is not asked.
NextPacketAtOnce ==
  /\ isr = "tx" /\ stat.tx /\ reading /\ rcnt > 0
  /\ isr' = "usb"
  /\ LoadsFromDisk
  /\ UNCHANGED <<stat, rx, irq, txInt, host>>

\* Mutant: the count may be zero.
NextPacketAtZero ==
  /\ isr = "tx" /\ stat.tx /\ reading /\ tx = None /\ rcnt >= 0
  /\ isr' = "usb"
  /\ LoadsFromDisk
  /\ UNCHANGED <<stat, rx, irq, txInt, host>>

NextPacket ==
  /\ isr = "tx" /\ stat.tx /\ reading /\ tx = None /\ rcnt > 0
  /\ isr' = "usb"
  /\ LoadsFromDisk
  /\ UNCHANGED <<stat, rx, irq, txInt, host>>

ReadEnds ==
  /\ isr = "tx" /\ stat.tx /\ reading /\ tx = None /\ rcnt = 0
  /\ isr' = "usb"
  /\ SendCSW(cbw)
  /\ reading' = FALSE /\ txInt' = FALSE
  /\ UNCHANGED <<disk, writing, wptr, wcnt, rptr, rcnt, cbw, stat, rx, irq, host>>

\* USB_Status_IRQHandler: a bus reset configures the endpoint again; the
\* variables of the transport keep their values.
UsbStatus ==
  /\ isr = "usb" /\ isr' = "idle"
  /\ irq' = [irq EXCEPT !.usb = FALSE]
  /\ txInt' = (txInt /\ ~irq.usb)
  /\ stat' = NoIrq
  /\ UNCHANGED <<device, rx, tx, host>>

-----------------------------------------------------------------------------
Host ==
  \/ \E op \in Ops, lba \in 0 .. Blocks - 1, len \in 1 .. Blocks : Command(op, lba, len)
  \/ Stray \/ BusReset
Bus == SendData \/ ReadData \/ ReadStatus
Recv == NoRx \/ EmptyRx \/ RecvData \/ RecvOther \/ RecvInquiry \/ RecvReady \/ RecvWrite \/ RecvRead
Send == FirstPacket \/ Answered \/ NothingToSend \/ NextPacket \/ ReadEnds
Handler == ReadTxFlags \/ ReadRxFlags \/ Recv \/ Send \/ UsbStatus

Next == Host \/ Bus \/ Handler

\* The handler runs when its interrupt is raised, and a host that has begun a
\* command goes on with it.
Fairness == WF_vars(Handler) /\ WF_vars(Bus)

Spec == Init /\ [][Next]_vars /\ Fairness

-----------------------------------------------------------------------------
(***************************************************************************)
(* Properties, unless the bus is reset inside a transfer (ResetsInside)     *)
(***************************************************************************)
\* Every variable stays within what the program and the controller can hold; in
\* particular neither counter falls below zero.
TypeOK ==
  /\ disk \in [Packet -> Tags] /\ want \in [Packet -> Tags]
  /\ writing \in BOOLEAN /\ reading \in BOOLEAN /\ txInt \in BOOLEAN
  /\ {wptr, rptr} \subseteq 0 .. Blocks * PerBlock
  /\ {wcnt, rcnt, left} \subseteq 0 .. Blocks * PerBlock
  /\ cbw \in Tags
  /\ isr \in {"idle", "rxflags", "rx", "answer", "first", "tx", "usb"}
  /\ stat \in [rx : BOOLEAN, tx : BOOLEAN, usb : BOOLEAN]
  /\ irq \in [rx : BOOLEAN, tx : BOOLEAN, usb : BOOLEAN]
  /\ {rx, tx} \subseteq [kind : Kinds, tag : Tags]
  /\ cmd \in [op : Ops, lba : 0 .. Blocks, len : 1 .. Blocks, tag : Tags]
  /\ stage \in {"idle", "out", "in", "status"}

\* What the device sends is what the host is waiting for: the packet of the disk
\* it reads next, with the data written last, or the status of its command.
\* Neither the pointer nor the count of a read ever runs ahead of the host,
\* whatever interrupts of earlier packets are still latched.
InStep ==
  tx # None =>
    \/ /\ stage = "in" /\ cmd.op = "inquiry" /\ tx.kind = "info"
    \/ /\ stage = "in" /\ cmd.op = "read" /\ tx.kind = "data"
       /\ tx.tag = want[First(cmd) + Count(cmd) - left]
    \/ /\ stage = "status" /\ tx = [kind |-> "csw", tag |-> cmd.tag]

\* The disk is what the host has written, but for the packet under way, and the
\* status of a write is sent when none is.
DiskHoldsWhatWasWritten ==
  /\ \A p \in Packet : disk[p] # want[p] => rx.kind = "data" /\ p = wptr
  /\ tx.kind = "csw" => disk = want

\* Every command of the host is answered with its status: no interrupt is lost
\* between the last look at the FIFO and the return of the handler.
CommandsComplete == stage # "idle" ~> stage = "idle"

=============================================================================
