----------------------------- MODULE SerialPort -----------------------------
(***************************************************************************)
(* What the drivers of UART, SPI and I2C have in common: the handle of a   *)
(* transfer, the thread that calls the driver, its interrupt handler, and  *)
(* the controller with its FIFOs and its line, of which the code shows the *)
(* registers only.  Data are left out: a FIFO holds commands to write or   *)
(* to read a frame, and what counts is how many.                           *)
(***************************************************************************)
EXTENDS Naturals, Sequences, FiniteSets

CONSTANTS
  Ports,         \* the kinds of controller: "uart", "uart1", "spi", "slave", "i2c"
  Depth,         \* of either FIFO
  TxThd, RxThd,  \* SPI, I2C: frames at which a FIFO interrupts
  MaxSize,       \* bound: frames of a transfer
  Waits,         \* SPI, I2C: callers wait for the line before they start a transfer
  Flow,          \* an SPI master stops its clock when the receive FIFO is full
  LateRestarts,  \* a callback starts a transfer while a thread is stopping one
  Unanswered,    \* an I2C device may fail to answer where the driver relies on it
  EarlyHandler   \* I2C: the handler may come while i2c_master_transmit_IT has enabled
                 \* one of its two interrupts: as when the thread is held up there

ASSUME SerialAssumption ==
  /\ Ports \subseteq {"uart", "uart1", "spi", "slave", "i2c"}
  /\ Depth \in Nat /\ Depth > 1 /\ MaxSize \in Nat
  /\ TxThd \in 0 .. Depth - 1 /\ RxThd \in 1 .. Depth
  /\ {Waits, Flow, LateRestarts, Unanswered, EarlyHandler} \subseteq BOOLEAN

VARIABLES
  dev,         \* which controller this is
  tx, rx,      \* of the handle: b_TxBusy, u32_TxCount, u32_TxSize, and for Rx
  txf, rxf,    \* commands in the transmit FIFO, frames in the receive FIFO
  shift,       \* the command on the line
  ndf,         \* frames an SPI master still reads by itself (CTRL1.NDF)
  bus,         \* I2C: between START and STOP, and what went over it
  abrt,        \* I2C: INT_TX_ABRT, latched
  en,          \* interrupts that are enabled
  isr,         \* where the handler is
  pc, cl,      \* where the thread is, and its call
  ret,         \* the result of its last call
  out,         \* I2C: frames of the last call that the device has taken
  owed, due    \* frames queued and not yet sent; asked for and not yet taken

handle == <<tx, rx>>
line   == <<txf, rxf, shift, ndf, bus, abrt, out, owed, due>>
thread == <<pc, cl, ret>>
vars   == <<dev, handle, line, en, isr, thread>>

Sizes == 1 .. MaxSize
Idle == [busy |-> FALSE, count |-> 0, size |-> 0]
Started(n) == [busy |-> TRUE, count |-> 0, size |-> n]

\* A command writes data, polls the device or reads, and may end with STOP.
Cmd(op, stop) == [op |-> op, stop |-> stop]
NoCmd == Cmd("none", FALSE)
Cmds == [op : {"w", "p", "r"}, stop : BOOLEAN]
\* A call still has frames to queue, and to get; a write keeps their number.
Call(kind, left, got) == [kind |-> kind, left |-> left, got |-> got]
NoCall == Call("none", 0, 0)

Room == IF dev = "uart1" THEN 1 ELSE Depth    \* uart1: its FIFOs are off
Full == Len(txf) = Room

Init ==
  /\ dev \in Ports
  /\ tx = Idle /\ rx = Idle
  /\ txf = <<>> /\ rxf = 0 /\ shift = NoCmd /\ ndf = 0 /\ bus = "free" /\ abrt = FALSE
  /\ en = {} /\ isr = "idle"
  /\ pc = "idle" /\ cl = NoCall /\ ret = FALSE
  /\ out = 0 /\ owed = 0 /\ due = 0

-----------------------------------------------------------------------------
(***************************************************************************)
(* Registers                                                               *)
(***************************************************************************)
\* DATA, DR, DATA_CMD: an I2C controller drops what comes after an abort until
\* the abort has been cleared.
Put(op, stop) ==
  /\ txf' = IF abrt THEN txf ELSE Append(txf, Cmd(op, stop))
  /\ owed' = IF op # "r" /\ ~abrt THEN owed + 1 ELSE owed
  /\ due' = IF op = "r" /\ ~abrt THEN due + 1 ELSE due

\* n frames leave the receive FIFO.
Taken(n) == rxf' = rxf - n /\ due' = IF due >= n THEN due - n ELSE 0

\* Disabling an SPI or I2C controller empties its FIFOs, and what they held stays
\* owed.  Enabled again, it is given commands and the number of frames to read.
Reenable(cmds, n) ==
  /\ txf' = cmds /\ rxf' = 0 /\ shift' = NoCmd /\ ndf' = n /\ bus' = "free"
Reset == Reenable(<<>>, 0)

LineIdle == txf = <<>> /\ shift = NoCmd /\ ndf = 0 /\ bus = "free"

MayRun == isr = "idle"
ThreadAt(where) == MayRun /\ pc = where

\* Callers start a transfer when the last one is over.  The SPI master itself looks
\* at b_TxBusy in transmit_X1_IT only (driver_spi_master.c:298).
MayCall == ThreadAt("idle") /\ ~tx.busy /\ ~rx.busy /\ (Waits => LineIdle)

-----------------------------------------------------------------------------
(***************************************************************************)
(* The line                                                                *)
(***************************************************************************)
Load ==
  /\ shift = NoCmd /\ txf # <<>> /\ ~abrt
  /\ shift' = Head(txf) /\ txf' = Tail(txf)
  /\ bus' = IF dev = "i2c" /\ bus = "free" THEN "started" ELSE bus
  /\ UNCHANGED <<dev, handle, rxf, ndf, abrt, out, owed, due, en, isr, thread>>

\* A frame that finds the receive FIFO full is lost, unless the clock stops.
Received == rxf' = IF rxf < Depth THEN rxf + 1 ELSE rxf
Stretches == rxf = Depth /\ (dev = "i2c" \/ Flow)

Done ==
  /\ shift # NoCmd
  /\ \/ /\ shift.op = "r" /\ ~Stretches /\ Received
        /\ UNCHANGED <<out, owed>>
     \/ /\ shift.op # "r"
        /\ owed' = IF owed > 0 THEN owed - 1 ELSE 0
        /\ out' = IF dev = "i2c" /\ shift.op = "w" THEN out + 1 ELSE out
        /\ UNCHANGED rxf
  /\ shift' = NoCmd
  /\ bus' = IF dev # "i2c" \/ shift.stop THEN "free"
            ELSE IF shift.op = "r" THEN "reading" ELSE "writing"
  /\ UNCHANGED <<dev, handle, txf, ndf, abrt, due, en, isr, thread>>

\* The SPI master reads NDF frames behind the command it has sent.
ReadsByItself ==
  /\ ndf > 0 /\ txf = <<>> /\ shift = NoCmd /\ ~Stretches
  /\ ndf' = ndf - 1 /\ Received
  /\ UNCHANGED <<dev, handle, txf, shift, bus, abrt, out, owed, due, en, isr, thread>>

\* The peer of a UART sends when it likes, but stops when the FIFO is full
\* (AUTO_FLOW); the master of an SPI slave sends what has been agreed and is
\* slow enough for it.
PeerSends ==
  /\ \/ dev \in {"uart", "uart1"} /\ rxf < Room
     \/ dev = "slave" /\ rxf < due /\ rxf < Depth
  /\ rxf' = rxf + 1
  /\ UNCHANGED <<dev, handle, txf, shift, ndf, bus, abrt, out, owed, due, en, isr, thread>>

\* No answer is expected to fail here: a memory that has acknowledged its address
\* is polled and read, and what i2c_master_receive_IT addresses is there.
Relied ==
  \/ bus = "writing" /\ (shift.op = "p" \/ cl.kind = "mem_read")
  \/ shift.op = "r" /\ cl.kind = "it"

\* An I2C device does not acknowledge its address or a frame that it is sent:
\* the FIFO is emptied, the abort latched.
Refused ==
  /\ dev = "i2c" /\ shift # NoCmd /\ bus # "reading" /\ (Relied => Unanswered)
  /\ abrt' = TRUE
  /\ txf' = <<>> /\ shift' = NoCmd /\ bus' = "free"
  /\ owed' = 0 /\ due' = rxf
  /\ UNCHANGED <<dev, handle, rxf, ndf, out, en, isr, thread>>
=============================================================================
