-------------------------------- MODULE Spi ---------------------------------
(***************************************************************************)
(* The SPI drivers, master (driver_spi_master.c) and slave                 *)
(* (driver_spi_slave.c): transfers over one, two, four or eight wires,     *)
(* blocking and by interrupt.  Every transfer starts by disabling the      *)
(* controller, which empties its FIFOs.  Callbacks start nothing.          *)
(***************************************************************************)
EXTENDS SerialPort

IsSpi == dev \in {"spi", "slave"}

-----------------------------------------------------------------------------
(***************************************************************************)
(* Calls of the master                                                     *)
(***************************************************************************)
SpiTransmitX1(n) ==
  /\ dev = "spi" /\ MayCall
  /\ Reset
  /\ cl' = Call("block", n, 0) /\ pc' = "spi_send"
  /\ UNCHANGED <<dev, handle, abrt, out, owed, due, en, isr, ret>>

SpiTransmitX1IT(n) ==
  /\ dev = "spi" /\ MayCall
  /\ Reset
  /\ tx' = Started(n) /\ en' = en \cup {"tx"}
  /\ UNCHANGED <<dev, rx, abrt, out, owed, due, isr, thread>>

\* spi_master_MultWireConfig sends instruction and address over one wire first.
SpiTransmitX2X4X8(kind, n) ==
  /\ dev = "spi" /\ MayCall
  /\ Reenable(<<Cmd("w", FALSE)>>, 0) /\ owed' = owed + 1
  /\ cl' = Call(kind, n, 0) /\ pc' = "spi_prefix"
  /\ UNCHANGED <<dev, handle, abrt, out, due, en, isr, ret>>

\* Mutant: the controller is disabled without waiting for it.
SpiPrefixNotWaited ==
  /\ ThreadAt("spi_prefix")
  /\ Reset
  /\ IF cl.kind = "block"
     THEN pc' = "spi_send" /\ UNCHANGED <<tx, en>>
     ELSE pc' = "idle" /\ tx' = Started(cl.left) /\ en' = en \cup {"tx"}
  /\ UNCHANGED <<dev, rx, abrt, out, owed, due, isr, cl, ret>>

\* They have been sent when the controller is disabled for the other mode.
SpiPrefix ==
  /\ ThreadAt("spi_prefix") /\ LineIdle
  /\ Reset
  /\ IF cl.kind = "block"
     THEN pc' = "spi_send" /\ UNCHANGED <<tx, en>>
     ELSE pc' = "idle" /\ tx' = Started(cl.left) /\ en' = en \cup {"tx"}
  /\ UNCHANGED <<dev, rx, abrt, out, owed, due, isr, cl, ret>>

\* What a master receives over one wire it asks for by sending.
SpiReceiveX1(n) ==
  /\ dev = "spi" /\ MayCall
  /\ Reset
  /\ cl' = Call("block", n, n) /\ pc' = "spi_ask"
  /\ UNCHANGED <<dev, handle, abrt, out, owed, due, en, isr, ret>>

\* readflash_X1 and receive_X2X4X8: one command, and the controller reads on.
SpiReadFlash(n) ==
  /\ dev = "spi" /\ MayCall
  /\ Reenable(<<Cmd("w", FALSE)>>, n) /\ owed' = owed + 1 /\ due' = due + n
  /\ cl' = Call("block", 0, n) /\ pc' = "spi_command"
  /\ UNCHANGED <<dev, handle, abrt, out, en, isr, ret>>

SpiReadFlashIT(n) ==
  /\ dev = "spi" /\ MayCall
  /\ Reenable(<<Cmd("w", FALSE)>>, n) /\ owed' = owed + 1 /\ due' = due + n
  /\ rx' = Started(n) /\ en' = en \cup {"rx"}
  /\ UNCHANGED <<dev, tx, abrt, out, isr, thread>>

-----------------------------------------------------------------------------
(***************************************************************************)
(* Calls of the slave                                                      *)
(***************************************************************************)
SlaveTransmit(n) ==
  /\ dev = "slave" /\ MayCall
  /\ Reset
  /\ cl' = Call("block", n, 0) /\ pc' = "spi_send"
  /\ UNCHANGED <<dev, handle, abrt, out, owed, due, en, isr, ret>>

SlaveReceive(n) ==
  /\ dev = "slave" /\ MayCall
  /\ Reset /\ due' = due + n
  /\ cl' = Call("block", 0, n) /\ pc' = "spi_take"
  /\ UNCHANGED <<dev, handle, abrt, out, owed, en, isr, ret>>

SlaveTransmitIT(n) ==
  /\ dev = "slave" /\ MayCall
  /\ Reset
  /\ tx' = Started(n) /\ pc' = "slave_fill"
  /\ UNCHANGED <<dev, rx, abrt, out, owed, due, en, isr, cl, ret>>

\* The thread fills the FIFO; what fits into it completes without a callback.
SlaveFills ==
  /\ ThreadAt("slave_fill")
  /\ IF Full
     THEN /\ en' = en \cup {"tx"} /\ pc' = "idle"
          /\ UNCHANGED <<tx, txf, owed, due>>
     ELSE /\ Put("w", FALSE)
          /\ tx' = [tx EXCEPT !.count = @ + 1, !.busy = tx.count + 1 < tx.size]
          /\ pc' = IF tx.count + 1 < tx.size THEN pc ELSE "idle"
          /\ UNCHANGED en
  /\ UNCHANGED <<dev, rx, rxf, shift, ndf, bus, abrt, out, isr, cl, ret>>

SlaveReceiveIT(n) ==
  /\ dev = "slave" /\ MayCall
  /\ Reset /\ due' = due + n
  /\ rx' = Started(n) /\ en' = en \cup {"rx"}
  /\ UNCHANGED <<dev, tx, abrt, out, owed, isr, thread>>

-----------------------------------------------------------------------------
(***************************************************************************)
(* Blocking transfers                                                      *)
(***************************************************************************)
SpiSends ==
  /\ ThreadAt("spi_send") /\ cl.left > 0 /\ ~Full
  /\ Put("w", FALSE)
  /\ cl' = [cl EXCEPT !.left = @ - 1]
  /\ UNCHANGED <<dev, handle, rxf, shift, ndf, bus, abrt, out, en, isr, pc, ret>>

\* A slave is busy only while its master clocks it.
SpiSent ==
  /\ ThreadAt("spi_send") /\ cl.left = 0
  /\ IF dev = "spi" THEN LineIdle ELSE shift = NoCmd
  /\ pc' = "idle"
  /\ UNCHANGED <<dev, handle, line, en, isr, cl, ret>>

\* One frame is asked for, if there is room, and all that have come are taken.
SpiAsks ==
  /\ ThreadAt("spi_ask")
  /\ IF cl.left > 0 /\ ~Full
     THEN Put("r", FALSE) /\ cl' = [cl EXCEPT !.left = @ - 1]
     ELSE UNCHANGED <<txf, owed, due, cl>>
  /\ pc' = "spi_take"
  /\ UNCHANGED <<dev, handle, rxf, shift, ndf, bus, abrt, out, en, isr, ret>>

\* The NDF reads go on until the line is idle and the FIFO is empty.
SpiCommanded ==
  /\ ThreadAt("spi_command") /\ txf = <<>>
  /\ pc' = "spi_read"
  /\ UNCHANGED <<dev, handle, line, en, isr, cl, ret>>

SpiTakes ==
  /\ ThreadAt("spi_take") \/ ThreadAt("spi_read")
  /\ rxf > 0
  /\ Taken(1) /\ cl' = [cl EXCEPT !.got = @ - 1]
  /\ UNCHANGED <<dev, handle, txf, shift, ndf, bus, abrt, out, owed, en, isr, pc, ret>>

SpiTakesNone ==
  /\ rxf = 0
  /\ \/ /\ ThreadAt("spi_take") /\ (cl.got > 0 => dev = "spi")
        /\ pc' = IF cl.got = 0 THEN "spi_send" ELSE "spi_ask"
     \/ ThreadAt("spi_read") /\ LineIdle /\ pc' = "idle"
  /\ UNCHANGED <<dev, handle, line, en, isr, cl, ret>>

-----------------------------------------------------------------------------
(***************************************************************************)
(* The handlers, which are the same                                        *)
(***************************************************************************)
SpiEnter ==
  /\ IsSpi /\ isr = "idle"
  /\ \/ "tx" \in en /\ Len(txf) <= TxThd /\ isr' = "spi_tx"
     \/ /\ "rx" \in en /\ rxf >= RxThd /\ ~("tx" \in en /\ Len(txf) <= TxThd)
        /\ isr' = "spi_rx"
  /\ UNCHANGED <<dev, handle, line, en, thread>>

\* Until the FIFO is full or holds the last frame, which ends the transfer
\* though the FIFO still has to be sent.
SpiTx ==
  /\ isr = "spi_tx"
  /\ IF Full
     THEN isr' = "idle" /\ UNCHANGED <<tx, txf, owed, due, en>>
     ELSE /\ Put("w", FALSE)
          /\ tx' = [tx EXCEPT !.count = @ + 1, !.busy = tx.count + 1 < tx.size]
          /\ IF tx.count + 1 < tx.size
             THEN UNCHANGED <<isr, en>>
             ELSE isr' = "idle" /\ en' = en \ {"tx"}
  /\ UNCHANGED <<dev, rx, rxf, shift, ndf, bus, abrt, out, thread>>

SpiRx ==
  /\ isr = "spi_rx"
  /\ IF rxf = 0
     THEN isr' = "idle" /\ UNCHANGED <<rx, rxf, due, en>>
     ELSE /\ Taken(1)
          /\ rx' = [rx EXCEPT !.count = @ + 1, !.busy = rx.count + 1 < rx.size]
          /\ IF rx.count + 1 < rx.size
             THEN UNCHANGED <<isr, en>>
             ELSE isr' = "idle" /\ en' = en \ {"rx"}
  /\ UNCHANGED <<dev, tx, txf, shift, ndf, bus, abrt, out, owed, thread>>

-----------------------------------------------------------------------------
SpiCalls ==
  \E n \in Sizes :
    \/ SpiTransmitX1(n) \/ SpiTransmitX1IT(n) \/ SpiReceiveX1(n)
    \/ SpiTransmitX2X4X8("block", n) \/ SpiTransmitX2X4X8("it", n)
    \/ SpiReadFlash(n) \/ SpiReadFlashIT(n)
    \/ SlaveTransmit(n) \/ SlaveReceive(n) \/ SlaveTransmitIT(n) \/ SlaveReceiveIT(n)
SpiThread ==
  SpiPrefix \/ SlaveFills \/ SpiSends \/ SpiSent \/ SpiAsks \/ SpiCommanded \/ SpiTakes \/ SpiTakesNone
SpiIsr == SpiEnter \/ SpiTx \/ SpiRx
=============================================================================
