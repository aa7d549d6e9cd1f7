--------------------------- MODULE SerialDrivers ----------------------------
(***************************************************************************)
(* The serial drivers: one controller, of any kind, with its driver, its   *)
(* line and its peer.                                                      *)
(***************************************************************************)
EXTENDS Uart, Spi, I2c

Calls == UartCalls \/ SpiCalls \/ I2cCalls
Thread == UartThread \/ SpiThread \/ I2cThread
Isr == UartIsr \/ SpiIsr \/ I2cIsr

Next == Calls \/ Thread \/ Isr \/ Load \/ Done \/ ReadsByItself \/ PeerSends \/ Refused

\* The line runs, peers send, interrupts and threads are served; a device that
\* is asked again and again acknowledges some time, and the callbacks do not
\* start another transfer for ever.
Fairness ==
  /\ WF_vars(Load) /\ SF_vars(Done) /\ WF_vars(ReadsByItself) /\ WF_vars(PeerSends)
  /\ WF_vars(Isr) /\ SF_vars(UartEnterTx) /\ SF_vars(Thread)
  /\ SF_vars(Isr /\ tx.busy /\ ~tx'.busy) /\ SF_vars(Isr /\ rx.busy /\ ~rx'.busy)

Spec == Init /\ [][Next]_vars /\ Fairness

-----------------------------------------------------------------------------
(***************************************************************************)
(* Properties, as far as the constants choose what callers and the chip    *)
(* have to see to: with EarlyHandler = TRUE none of them holds, because an *)
(* I2C transfer may leave INT_TX_ABRT enabled (driver_i2c.c:553).          *)
(***************************************************************************)
Handles == [busy : BOOLEAN, count : 0 .. MaxSize, size : 0 .. MaxSize]

Queued == {i \in DOMAIN txf : txf[i].op # "r"} \cup (IF shift.op \in {"w", "p"} THEN {0} ELSE {})
Asked == {i \in DOMAIN txf : txf[i].op = "r"} \cup (IF shift.op = "r" THEN {0} ELSE {})

\* The handles keep to their buffers: a transfer that is not over has frames
\* left, and none ever takes or sends more than its size (driver_uart.c:60,
\* driver_spi_master.c:20, driver_i2c.c:97).
TypeOK ==
  /\ dev \in Ports /\ tx \in Handles /\ rx \in Handles
  /\ txf \in Seq(Cmds) /\ Len(txf) <= Room /\ rxf \in 0 .. Depth
  /\ shift \in Cmds \cup {NoCmd} /\ ndf \in 0 .. MaxSize
  /\ bus \in {"free", "started", "writing", "reading"}
  /\ {abrt, ret} \subseteq BOOLEAN /\ en \subseteq {"tx", "rx", "abrt"}
  /\ rx.count <= rx.size /\ (dev # "i2c" => tx.count <= tx.size)
  /\ rx.busy => rx.count < rx.size

\* No command or frame is lost between the FIFOs, the line and the caller: what
\* has been queued and not been sent is still there when a driver disables the
\* controller, and what has been asked for is in the FIFO or still to come
\* (driver_spi_master.c:1062, driver_i2c.c:497).
NothingLost ==
  /\ owed = Cardinality(Queued)
  /\ dev \in {"spi", "i2c"} => due = rxf + ndf + Cardinality(Asked)
  /\ dev = "slave" => rxf <= due

\* A blocking I2C call that has returned true has had every frame acknowledged
\* (i2c_master_transmit and i2c_sensor_write, driver_i2c.c:361 and 831).
TrueMeansDone ==
  (pc = "idle" /\ ret /\ cl.kind \in {"transmit", "sensor_write"}) => out = cl.got

\* Every transfer by interrupt ends, and every call returns: no interrupt is
\* missed, no frame waited for that nobody asked for.
TransfersEnd ==
  /\ tx.busy ~> ~tx.busy
  /\ rx.busy ~> ~rx.busy
  /\ pc # "idle" ~> pc = "idle"
=============================================================================
