-------------------------------- MODULE Uart --------------------------------
(***************************************************************************)
(* The UART driver (drivers/peripheral/Src/driver_uart.c), with its FIFOs  *)
(* on or off: transfers by interrupt, which a thread may stop, and         *)
(* blocking ones.  The callbacks may start the next transfer.              *)
(***************************************************************************)
EXTENDS SerialPort

IsUart == dev \in {"uart", "uart1"}

-----------------------------------------------------------------------------
(***************************************************************************)
(* Calls                                                                   *)
(***************************************************************************)
\* The fields are set first, the interrupt is enabled last.
UartTransmitIT(n) ==
  /\ IsUart /\ ThreadAt("idle") /\ ~tx.busy
  /\ tx' = Started(n) /\ pc' = "tx_on"
  /\ UNCHANGED <<dev, rx, line, en, isr, cl, ret>>

UartReceiveIT(n) ==
  /\ IsUart /\ ThreadAt("idle") /\ ~rx.busy
  /\ rx' = Started(n) /\ pc' = "rx_on"
  /\ UNCHANGED <<dev, tx, line, en, isr, cl, ret>>

\* The callbacks of transfers that are over see b_TxBusy cleared first.
UartTransmitITStop ==
  /\ IsUart /\ ThreadAt("idle")
  /\ tx' = [tx EXCEPT !.busy = FALSE] /\ pc' = "tx_off"
  /\ UNCHANGED <<dev, rx, line, en, isr, cl, ret>>

UartReceiveITStop ==
  /\ IsUart /\ ThreadAt("idle")
  /\ rx' = [rx EXCEPT !.busy = FALSE] /\ pc' = "rx_off"
  /\ UNCHANGED <<dev, tx, line, en, isr, cl, ret>>

UartInterrupts ==
  /\ IsUart /\ MayRun /\ pc \in {"tx_on", "rx_on", "tx_off", "rx_off"}
  /\ en' = CASE pc = "tx_on" -> en \cup {"tx"} [] pc = "rx_on" -> en \cup {"rx"}
             [] pc = "tx_off" -> en \ {"tx"} [] pc = "rx_off" -> en \ {"rx"}
  /\ pc' = "idle"
  /\ UNCHANGED <<dev, handle, line, isr, cl, ret>>

\* uart_transmit and uart_receive wait for the FIFO, frame by frame.
UartTransmit(n) ==
  /\ IsUart /\ ThreadAt("idle") /\ ~tx.busy /\ "tx" \notin en
  /\ pc' = "uart_send" /\ cl' = [NoCall EXCEPT !.left = n]
  /\ UNCHANGED <<dev, handle, line, en, isr, ret>>

UartReceive(n) ==
  /\ IsUart /\ ThreadAt("idle") /\ ~rx.busy /\ "rx" \notin en
  /\ pc' = "uart_read" /\ cl' = [NoCall EXCEPT !.left = n]
  /\ UNCHANGED <<dev, handle, line, en, isr, ret>>

UartSends ==
  /\ ThreadAt("uart_send") /\ ~Full
  /\ Put("w", FALSE)
  /\ cl' = [cl EXCEPT !.left = @ - 1]
  /\ pc' = IF cl.left = 1 THEN "idle" ELSE pc
  /\ UNCHANGED <<dev, handle, rxf, shift, ndf, bus, abrt, out, en, isr, ret>>

UartReads ==
  /\ ThreadAt("uart_read") /\ rxf > 0
  /\ Taken(1)
  /\ cl' = [cl EXCEPT !.left = @ - 1]
  /\ pc' = IF cl.left = 1 THEN "idle" ELSE pc
  /\ UNCHANGED <<dev, handle, txf, shift, ndf, bus, abrt, out, owed, en, isr, ret>>

-----------------------------------------------------------------------------
(***************************************************************************)
(* The handler                                                             *)
(***************************************************************************)
\* INT_INDEX_RX comes before INT_INDEX_TXE, which is raised by an empty FIFO.
RxPending == "rx" \in en /\ rxf > 0

UartEnterRx ==
  /\ IsUart /\ isr = "idle" /\ RxPending
  /\ isr' = "uart_rx"
  /\ UNCHANGED <<dev, handle, line, en, thread>>

UartEnterTx ==
  /\ IsUart /\ isr = "idle" /\ ~RxPending /\ "tx" \in en /\ txf = <<>>
  /\ isr' = "uart_tx"
  /\ UNCHANGED <<dev, handle, line, en, thread>>

\* A callback does nothing or starts the next transfer.
MayRestart == LateRestarts \/ pc \notin {"tx_off", "rx_off"}

TxCompletes ==
  \/ tx' = [tx EXCEPT !.busy = FALSE] /\ en' = en \ {"tx"}
  \/ /\ MayRestart /\ \E n \in Sizes : tx' = Started(n)
     /\ en' = en

RxCompletes ==
  \/ rx' = [rx EXCEPT !.busy = FALSE, !.count = @ + 1] /\ en' = en \ {"rx"}
  \/ /\ MayRestart /\ \E n \in Sizes : rx' = Started(n)
     /\ en' = en

\* All frames are in the FIFO: the transfer is over when it is empty.
UartTxEnds ==
  /\ isr = "uart_tx" /\ tx.count >= tx.size /\ isr' = "idle"
  /\ IF txf = <<>> THEN TxCompletes ELSE UNCHANGED <<tx, en>>
  /\ UNCHANGED <<dev, rx, line, thread>>

\* Until the FIFO is full, or one frame if it is off.
UartTxFills ==
  /\ isr = "uart_tx" /\ tx.count < tx.size
  /\ \/ /\ dev = "uart1" \/ ~Full
        /\ Put("w", FALSE)
        /\ tx' = [tx EXCEPT !.count = @ + 1]
        /\ isr' = IF dev = "uart1" THEN "idle"
                  ELSE IF tx.count + 1 >= tx.size THEN "uart_last" ELSE isr
     \/ /\ dev = "uart" /\ Full
        /\ isr' = "idle"
        /\ UNCHANGED <<txf, owed, due, tx>>
  /\ UNCHANGED <<dev, rx, rxf, shift, ndf, bus, abrt, out, en, thread>>

\* Mutant: the interrupt is disabled though the FIFO is not empty.
UartTxLastForAll ==
  /\ isr = "uart_last" /\ isr' = "idle"
  /\ IF txf = <<>> THEN TxCompletes ELSE en' = en \ {"tx"} /\ UNCHANGED tx
  /\ UNCHANGED <<dev, rx, line, thread>>

\* The line may have been fast enough to empty the FIFO already.
UartTxLast ==
  /\ isr = "uart_last" /\ isr' = "idle"
  /\ IF txf = <<>> THEN TxCompletes ELSE UNCHANGED <<tx, en>>
  /\ UNCHANGED <<dev, rx, line, thread>>

\* Mutant: the loop goes on behind the last frame.
UartRxGoesOn ==
  /\ isr = "uart_rx"
  /\ \/ rxf = 0 /\ isr' = "idle" /\ UNCHANGED <<rx, en, rxf, due>>
     \/ /\ rxf > 0 /\ Taken(1) /\ UNCHANGED isr
        /\ IF rx.count + 1 >= rx.size
           THEN rx' = [rx EXCEPT !.busy = FALSE, !.count = @ + 1] /\ en' = en \ {"rx"}
           ELSE rx' = [rx EXCEPT !.count = @ + 1] /\ UNCHANGED en
  /\ UNCHANGED <<dev, tx, txf, shift, ndf, bus, abrt, out, owed, thread>>

\* Until the FIFO is empty or the transfer is over.
UartRx ==
  /\ isr = "uart_rx"
  /\ \/ rxf = 0 /\ isr' = "idle" /\ UNCHANGED <<rx, en, rxf, due>>
     \/ /\ rxf > 0 /\ Taken(1)
        /\ IF rx.count + 1 >= rx.size
           THEN RxCompletes /\ isr' = "idle"
           ELSE rx' = [rx EXCEPT !.count = @ + 1] /\ UNCHANGED <<en, isr>>
  /\ UNCHANGED <<dev, tx, txf, shift, ndf, bus, abrt, out, owed, thread>>

-----------------------------------------------------------------------------
UartCalls ==
  \/ UartTransmitITStop \/ UartReceiveITStop
  \/ \E n \in Sizes : UartTransmitIT(n) \/ UartReceiveIT(n) \/ UartTransmit(n) \/ UartReceive(n)
UartThread == UartInterrupts \/ UartSends \/ UartReads
UartIsr == UartEnterRx \/ UartEnterTx \/ UartTxEnds \/ UartTxFills \/ UartTxLast \/ UartRx
=============================================================================
