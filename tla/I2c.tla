-------------------------------- MODULE I2c ---------------------------------
(***************************************************************************)
(* The I2C driver as a master (drivers/peripheral/Src/driver_i2c.c):       *)
(* blocking transfers with a device, a memory or a sensor, which return    *)
(* whether they have succeeded, and transfers by interrupt.                *)
(***************************************************************************)
EXTENDS SerialPort

Reads == {"receive", "mem_read", "sensor_read"}
Writes == {"transmit", "mem_write", "sensor_write"}

\* Frames of an address inside of the device.
Address(kind) == IF kind \in {"transmit", "receive"} THEN 0 ELSE 2

\* Where a call looks for an abort, apart from the loop over its frames.
ChecksAddress == {"mem_read", "mem_write"}
ChecksWhileDraining == {"receive", "sensor_read"}
ChecksAtEnd == {"transmit", "sensor_write"}
Polls == {"mem_write", "sensor_write"}

-----------------------------------------------------------------------------
(***************************************************************************)
(* Blocking calls                                                          *)
(***************************************************************************)
I2cCall(kind, n) ==
  /\ dev = "i2c" /\ MayCall
  /\ Reenable(IF abrt THEN <<>> ELSE [i \in 1 .. Address(kind) |-> Cmd("w", FALSE)], 0)
  /\ owed' = IF abrt THEN owed ELSE owed + Address(kind)
  /\ cl' = Call(kind, n, IF kind \in Reads THEN n ELSE n + Address(kind))
  /\ pc' = "address" /\ ret' = FALSE /\ out' = 0
  /\ UNCHANGED <<dev, handle, abrt, due, en, isr>>

Abandoned == Reset /\ abrt' = FALSE /\ owed' = 0 /\ due' = 0

\* INT_TX_ABRT is cleared, the controller disabled, the result false.
Fail ==
  /\ Abandoned
  /\ ret' = FALSE /\ pc' = "idle"
  /\ UNCHANGED <<dev, handle, out, en, isr, cl>>

Body == IF cl.left > 1 THEN "body" ELSE "last"

\* The last byte of the address may still be on the line.
AddressSent ==
  /\ ThreadAt("address") /\ txf = <<>>
  /\ IF cl.kind \in ChecksAddress /\ abrt
     THEN Fail
     ELSE /\ IF cl.kind \in {"mem_read", "sensor_read"} /\ cl.left > 1
             THEN Put("r", FALSE) /\ cl' = [cl EXCEPT !.left = @ - 1]
             ELSE UNCHANGED <<txf, owed, due, cl>>
          /\ pc' = IF cl'.left > 1 THEN "body" ELSE "last"
          /\ UNCHANGED <<dev, handle, rxf, shift, ndf, bus, abrt, out, en, isr, ret>>

\* A frame is queued if there is room; all but the last one are.
QueueOne(op) ==
  IF Full THEN UNCHANGED <<txf, owed, due, cl>>
          ELSE Put(op, FALSE) /\ cl' = [cl EXCEPT !.left = @ - 1]

WriteOne ==
  /\ ThreadAt("body") /\ cl.kind \in Writes
  /\ IF abrt
     THEN Fail
     ELSE /\ QueueOne("w")
          /\ pc' = IF cl'.left > 1 THEN "body" ELSE "last"
          /\ UNCHANGED <<dev, handle, rxf, shift, ndf, bus, abrt, out, en, isr, ret>>

ReadOne ==
  /\ ThreadAt("body") /\ cl.kind \in Reads
  /\ QueueOne("r")
  /\ pc' = "take"
  /\ UNCHANGED <<dev, handle, rxf, shift, ndf, bus, abrt, out, en, isr, ret>>

TakeAll ==
  /\ ThreadAt("take")
  /\ IF rxf > 0
     THEN /\ Taken(1) /\ cl' = [cl EXCEPT !.got = @ - 1]
          /\ UNCHANGED <<dev, handle, txf, shift, ndf, bus, abrt, out, owed, en, isr, pc, ret>>
     ELSE IF abrt
     THEN Fail
     ELSE pc' = Body /\ UNCHANGED <<dev, handle, line, en, isr, cl, ret>>

LastOne ==
  /\ ThreadAt("last") /\ ~Full
  /\ Put(IF cl.kind \in Reads THEN "r" ELSE "w", TRUE)
  /\ cl' = [cl EXCEPT !.left = 0]
  /\ pc' = IF cl.kind \in Reads THEN "drain" ELSE "wait"
  /\ UNCHANGED <<dev, handle, rxf, shift, ndf, bus, abrt, out, en, isr, ret>>

Drain ==
  /\ ThreadAt("drain")
  /\ \/ /\ rxf > 0
        /\ Taken(1) /\ cl' = [cl EXCEPT !.got = @ - 1]
        /\ pc' = IF cl.got = 1 THEN "wait" ELSE pc
        /\ UNCHANGED <<dev, handle, txf, shift, ndf, bus, abrt, out, owed, en, isr, ret>>
     \/ rxf = 0 /\ abrt /\ cl.kind \in ChecksWhileDraining /\ Fail

\* Mutant: what comes before the last byte has been checked, the last has not.
WaitUnchecked ==
  /\ ThreadAt("wait") /\ LineIdle
  /\ pc' = IF cl.kind \in Polls THEN "poll" ELSE "idle"
  /\ ret' = (cl.kind \notin Polls)
  /\ UNCHANGED <<dev, handle, line, en, isr, cl>>

Wait ==
  /\ ThreadAt("wait") /\ LineIdle
  /\ IF cl.kind \in ChecksAtEnd /\ abrt
     THEN Fail
     ELSE /\ pc' = IF cl.kind \in Polls THEN "poll" ELSE "idle"
          /\ ret' = (cl.kind \notin Polls)
          /\ UNCHANGED <<dev, handle, line, en, isr, cl>>

\* i2c_memory_is_busy: two bytes, which a busy device does not acknowledge.
Poll ==
  /\ ThreadAt("poll")
  /\ Reenable(IF abrt THEN <<>> ELSE <<Cmd("p", FALSE), Cmd("p", TRUE)>>, 0)
  /\ owed' = IF abrt THEN owed ELSE owed + 2
  /\ pc' = "polled"
  /\ UNCHANGED <<dev, handle, abrt, out, due, en, isr, cl, ret>>

Polled ==
  /\ ThreadAt("polled") /\ txf = <<>>
  /\ IF abrt THEN Abandoned /\ pc' = "poll" /\ UNCHANGED <<ret, out>>
             ELSE pc' = "idle" /\ ret' = TRUE /\ UNCHANGED line
  /\ UNCHANGED <<dev, handle, en, isr, cl>>

-----------------------------------------------------------------------------
(***************************************************************************)
(* Transfers by interrupt                                                  *)
(***************************************************************************)
\* It waits for the line; u32_TxSize is what comes before the last frame.
I2cTransmitIT(n) ==
  /\ dev = "i2c" /\ ThreadAt("idle") /\ ~tx.busy /\ ~rx.busy /\ LineIdle
  /\ Reset /\ abrt' = FALSE /\ out' = 0
  /\ tx' = Started(n - 1) /\ pc' = "it_fill" /\ cl' = Call("it", 0, 0)
  /\ UNCHANGED <<dev, rx, owed, due, en, isr, ret>>

I2cReceiveIT(n) ==
  /\ dev = "i2c" /\ MayCall
  /\ Reset /\ abrt' = FALSE /\ out' = 0
  /\ rx' = Started(n) /\ tx' = [tx EXCEPT !.busy = TRUE, !.count = 0]
  /\ pc' = "it_ask" /\ cl' = Call("it", 0, 0)
  /\ UNCHANGED <<dev, owed, due, en, isr, ret>>

FailIT ==
  /\ Abandoned
  /\ tx' = [tx EXCEPT !.busy = FALSE] /\ rx' = [rx EXCEPT !.busy = FALSE]
  /\ ret' = FALSE /\ pc' = "idle"
  /\ UNCHANGED <<dev, out, en, isr, cl>>

\* As much as fits; the rest is the handler's.
FillIT ==
  /\ ThreadAt("it_fill")
  /\ IF Full
     THEN pc' = "it_full" /\ UNCHANGED <<dev, handle, line, en, isr, cl, ret>>
     ELSE IF tx.count < tx.size /\ abrt
     THEN FailIT
     ELSE /\ Put("w", tx.count >= tx.size)
          /\ tx' = [tx EXCEPT !.count = @ + 1, !.busy = tx.count < tx.size]
          /\ IF tx.count < tx.size THEN UNCHANGED <<pc, ret>> ELSE pc' = "idle" /\ ret' = TRUE
          /\ UNCHANGED <<dev, rx, rxf, shift, ndf, bus, abrt, out, en, isr, cl>>

FullIT ==
  /\ ThreadAt("it_full") /\ ~Full
  /\ IF abrt THEN FailIT
     ELSE /\ en' = en \cup {"tx"} /\ pc' = "it_tx"
          /\ UNCHANGED <<dev, handle, line, isr, cl, ret>>

\* The second i2c_int_enable reads INT_MASK, and writes it back with INT_TX_ABRT:
\* interrupts are not masked, so the handler may come before it and between the
\* two, and may already have queued the last frame and disabled both.
ReadMask ==
  /\ ThreadAt("it_tx")
  /\ pc' = IF "tx" \in en THEN "it_both" ELSE "it_abrt"
  /\ UNCHANGED <<dev, handle, line, en, isr, cl, ret>>

WriteMask ==
  /\ MayRun /\ pc \in {"it_both", "it_abrt"}
  /\ en' = IF pc = "it_both" THEN {"tx", "abrt"} ELSE {"abrt"}
  /\ pc' = "idle" /\ ret' = TRUE
  /\ UNCHANGED <<dev, handle, line, isr, cl>>

\* READ commands are counted in u32_TxCount, and all are queued when b_TxBusy
\* is false.
AskOne ==
  /\ Put("r", tx.count >= rx.size - 1)
  /\ tx' = IF tx.count < rx.size - 1 THEN [tx EXCEPT !.count = @ + 1]
                                     ELSE [tx EXCEPT !.busy = FALSE]

AskIT ==
  /\ ThreadAt("it_ask")
  /\ IF Full \/ ~tx.busy
     THEN /\ en' = en \cup {"rx"} /\ ret' = TRUE /\ pc' = "idle"
          /\ UNCHANGED <<dev, handle, line, isr, cl>>
     ELSE IF tx.count < rx.size - 1 /\ abrt
     THEN FailIT
     ELSE AskOne /\ UNCHANGED <<dev, rx, rxf, shift, ndf, bus, abrt, out, en, isr, pc, cl, ret>>

-----------------------------------------------------------------------------
(***************************************************************************)
(* The handler                                                             *)
(***************************************************************************)
Pending ==
  \/ "abrt" \in en /\ abrt
  \/ "tx" \in en /\ Len(txf) <= TxThd
  \/ "rx" \in en /\ rxf > 0

\* The FIFO was full when i2c_master_transmit_IT waited: TX_EMPTY comes before it has
\* enabled TX_ABRT if the thread is held up until TX_TL frames (16) are left, or if
\* the FIFO is hardly deeper than that.
I2cEnter ==
  /\ dev = "i2c" /\ isr = "idle" /\ Pending
  /\ pc \in {"it_tx", "it_both", "it_abrt"} => EarlyHandler
  /\ isr' = "i2c_abort"
  /\ UNCHANGED <<dev, handle, line, en, thread>>

I2cAbort ==
  /\ isr = "i2c_abort" /\ isr' = "i2c_tx"
  /\ IF "abrt" \in en /\ abrt
     THEN /\ Abandoned /\ en' = {}
          /\ tx' = [tx EXCEPT !.busy = FALSE] /\ rx' = [rx EXCEPT !.busy = FALSE]
          /\ UNCHANGED <<dev, out, thread>>
     ELSE UNCHANGED <<dev, handle, line, en, thread>>

I2cTx ==
  /\ isr = "i2c_tx"
  /\ isr' = IF "tx" \in en /\ Len(txf) <= TxThd THEN "i2c_fill" ELSE "i2c_rx"
  /\ UNCHANGED <<dev, handle, line, en, thread>>

\* Until the FIFO is full, the last frame is queued, or the device refuses one.
I2cFill ==
  /\ isr = "i2c_fill"
  /\ IF Full
     THEN isr' = "i2c_rx" /\ UNCHANGED <<dev, handle, line, en, thread>>
     ELSE IF tx.count < tx.size /\ abrt
     THEN /\ Abandoned /\ isr' = "i2c_rx" /\ en' = en \ {"tx", "abrt"}
          /\ tx' = [tx EXCEPT !.count = @ + 1, !.busy = FALSE]
          /\ UNCHANGED <<dev, rx, out, thread>>
     ELSE /\ Put("w", tx.count >= tx.size)
          /\ tx' = [tx EXCEPT !.count = @ + 1, !.busy = tx.count < tx.size]
          /\ IF tx.count < tx.size THEN UNCHANGED <<isr, en>>
             ELSE isr' = "i2c_rx" /\ en' = en \ {"tx", "abrt"}
          /\ UNCHANGED <<dev, rx, rxf, shift, ndf, bus, abrt, out, thread>>

I2cRx ==
  /\ isr = "i2c_rx"
  /\ isr' = IF "rx" \in en /\ rxf > 0 THEN "i2c_take" ELSE "idle"
  /\ UNCHANGED <<dev, handle, line, en, thread>>

I2cTake ==
  /\ isr = "i2c_take"
  /\ IF rxf = 0
     THEN isr' = "i2c_ask" /\ UNCHANGED <<rx, rxf, due, en>>
     ELSE /\ Taken(1) /\ UNCHANGED isr
          /\ rx' = [rx EXCEPT !.count = @ + 1, !.busy = rx.busy /\ rx.count + 1 < rx.size]
          /\ en' = IF rx.count + 1 < rx.size THEN en ELSE en \ {"rx"}
  /\ UNCHANGED <<dev, tx, txf, shift, ndf, bus, abrt, out, owed, thread>>

I2cAsk ==
  /\ isr = "i2c_ask"
  /\ IF Full \/ ~tx.busy
     THEN isr' = "idle" /\ UNCHANGED <<tx, txf, owed, due>>
     ELSE AskOne /\ UNCHANGED isr
  /\ UNCHANGED <<dev, rx, rxf, shift, ndf, bus, abrt, out, en, thread>>

-----------------------------------------------------------------------------
I2cCalls ==
  \E n \in Sizes :
    \/ \E kind \in Reads \cup Writes : I2cCall(kind, n)
    \/ I2cTransmitIT(n) \/ I2cReceiveIT(n)
I2cThread ==
  \/ AddressSent \/ WriteOne \/ ReadOne \/ TakeAll \/ LastOne \/ Drain \/ Wait
  \/ Poll \/ Polled \/ FillIT \/ FullIT \/ ReadMask \/ WriteMask \/ AskIT
I2cIsr == I2cEnter \/ I2cAbort \/ I2cTx \/ I2cFill \/ I2cRx \/ I2cTake \/ I2cAsk
=============================================================================
