------------------------ MODULE SerialDriversProofs -------------------------
(* Theorems about SerialDrivers for FIFOs of any depth, any thresholds and   *)
(* transfers of any size: the handles, the commands and the frames, and what *)
(* the result of a blocking I2C call means.                                  *)
EXTENDS SerialDrivers, TLAPS, FiniteSetTheorems

-----------------------------------------------------------------------------
(* The line: what the FIFOs and the shift register hold. *)

LineType ==
  /\ dev \in Ports
  /\ txf \in Seq(Cmds) /\ Len(txf) <= Room /\ rxf \in 0 .. Depth
  /\ shift \in Cmds \cup {NoCmd} /\ ndf \in 0 .. MaxSize
  /\ bus \in {"free", "started", "writing", "reading"}
  /\ abrt \in BOOLEAN
  /\ out \in Nat /\ owed \in Nat /\ due \in Nat
  /\ dev # "i2c" => ~abrt /\ bus = "free"
  /\ dev # "spi" => ndf = 0

\* How many commands are on their way to be sent, and how many to read.
Written == Cardinality(Queued)
Wanted == Cardinality(Asked)

\* The controllers, their FIFOs and the bounds.
LEMMA Limits ==
  /\ Ports \subseteq {"uart", "uart1", "spi", "slave", "i2c"}
  /\ Depth \in Nat /\ Depth > 1 /\ MaxSize \in Nat
  /\ Room \in Nat /\ 1 <= Room /\ Room <= Depth /\ (dev # "uart1" => Room = Depth)
  /\ \A n \in Sizes : n \in Nat /\ n > 0 /\ n <= MaxSize /\ n - 1 \in 0 .. MaxSize
BY SerialAssumption DEF Room, Sizes

LEMMA CmdIs ==
  ASSUME NEW op \in {"w", "p", "r"}, NEW stop \in BOOLEAN
  PROVE  Cmd(op, stop) \in Cmds /\ Cmd(op, stop).op = op /\ Cmd(op, stop) # NoCmd
BY DEF Cmd, Cmds, NoCmd

LEMMA ShiftIs ==
  ASSUME shift \in Cmds \cup {NoCmd}
  PROVE  /\ shift.op \in {"w", "p", "r", "none"}
         /\ shift = NoCmd <=> shift.op = "none"
BY DEF Cmds, NoCmd, Cmd

LEMMA OpIs ==
  ASSUME NEW s \in Seq(Cmds)
  PROVE  \A i \in DOMAIN s : s[i].op \in {"w", "p", "r"}
<1>1. \A i \in DOMAIN s : s[i] \in Cmds
  OBVIOUS
<1> QED BY <1>1 DEF Cmds

\* The commands of some kinds that are on their way.
Marks(S) == {i \in DOMAIN txf : txf[i].op \in S} \cup (IF shift.op \in S THEN {0} ELSE {})

LEMMA MarksAre ==
  /\ txf \in Seq(Cmds) /\ shift \in Cmds \cup {NoCmd} =>
       Queued = Marks({"w", "p"}) /\ Asked = Marks({"r"})
  /\ txf' \in Seq(Cmds) /\ shift' \in Cmds \cup {NoCmd} =>
       Queued' = Marks({"w", "p"})' /\ Asked' = Marks({"r"})'
BY OpIs DEF Queued, Asked, Marks

LEMMA MarksFinite ==
  ASSUME LineType, NEW S
  PROVE  IsFiniteSet(Marks(S)) /\ Cardinality(Marks(S)) \in Nat
<1>1. Len(txf) \in Nat /\ DOMAIN txf = 1 .. Len(txf)
  BY DEF LineType
<1>2. IsFiniteSet(0 .. Len(txf))
  BY <1>1, FS_Interval
<1>3. Marks(S) \subseteq 0 .. Len(txf)
  BY <1>1 DEF Marks
<1>4. IsFiniteSet(Marks(S))
  BY <1>2, <1>3, FS_Subset
<1> QED BY <1>4, FS_CardinalityType

LEMMA MarksPut ==
  ASSUME LineType, NEW S, NEW c \in Cmds, txf' = Append(txf, c), shift' = shift
  PROVE  Cardinality(Marks(S)') = IF c.op \in S THEN Cardinality(Marks(S)) + 1 ELSE Cardinality(Marks(S))
<1>1. /\ txf \in Seq(Cmds) /\ DOMAIN txf' = DOMAIN txf \cup {Len(txf) + 1}
      /\ Len(txf) + 1 \notin DOMAIN txf /\ Len(txf) + 1 # 0
      /\ \A i \in DOMAIN txf : txf'[i] = txf[i]
      /\ txf'[Len(txf) + 1] = c
  BY DEF LineType
<1>2. IsFiniteSet(Marks(S)) /\ Len(txf) + 1 \notin Marks(S)
  BY <1>1, MarksFinite DEF Marks
<1>3. CASE c.op \in S
  <2>1. Marks(S)' = Marks(S) \cup {Len(txf) + 1}
    BY <1>1, <1>3 DEF Marks
  <2> QED BY <1>2, <1>3, <2>1, FS_AddElement
<1>4. CASE c.op \notin S
  <2>1. Marks(S)' = Marks(S)
    BY <1>1, <1>4 DEF Marks
  <2> QED BY <1>4, <2>1
<1> QED BY <1>3, <1>4

LEMMA MarksLoad ==
  ASSUME LineType, NEW S, "none" \notin S,
         shift = NoCmd, txf # <<>>, shift' = Head(txf), txf' = Tail(txf)
  PROVE  Cardinality(Marks(S)') = Cardinality(Marks(S))
<1> DEFINE A == Marks(S)
           f == [i \in A |-> i - 1]
<1>1. /\ txf \in Seq(Cmds) /\ 1 \in DOMAIN txf /\ txf[1] = shift' /\ DOMAIN txf \subseteq Nat
      /\ 0 \notin DOMAIN txf /\ 0 \notin DOMAIN txf'
      /\ \A i \in DOMAIN txf' : i \in Nat /\ i + 1 \in DOMAIN txf /\ i + 1 # 1 /\ txf'[i] = txf[i + 1]
      /\ \A i \in DOMAIN txf \ {1} : i - 1 \in DOMAIN txf' /\ txf'[i - 1] = txf[i]
  BY DEF LineType
<1>2. shift.op \notin S
  BY DEF NoCmd, Cmd
<1>3. ASSUME NEW i \in A PROVE i \in Nat /\ i - 1 \in A'
  <2>1. i \in DOMAIN txf /\ txf[i].op \in S
    BY <1>2, <1>3 DEF Marks
  <2>2. CASE i = 1
    BY <1>1, <2>1, <2>2 DEF Marks
  <2>3. CASE i # 1
    BY <1>1, <2>1, <2>3 DEF Marks
  <2> QED BY <2>2, <2>3
<1>4. ASSUME NEW j \in A' PROVE j \in Nat /\ j + 1 \in A
  <2>1. CASE j = 0
    BY <1>1, <1>4, <2>1 DEF Marks
  <2>2. CASE j # 0
    BY <1>1, <1>4, <2>2 DEF Marks
  <2> QED BY <2>1, <2>2
<1>5. IsFiniteSet(A)
  BY MarksFinite
<1> HIDE DEF A
<1>6. f \in Bijection(A, A')
  <2>1. f \in [A -> A']
    BY <1>3
  <2>2. \A i, j \in A : f[i] = f[j] => i = j
    BY <1>3
  <2>3. ASSUME NEW j \in A' PROVE \E i \in A : f[i] = j
    <3>1. f[j + 1] = j /\ j + 1 \in A
      BY <1>4
    <3> QED BY <3>1
  <2> HIDE DEF f
  <2>4. f \in Injection(A, A')
    BY <2>1, <2>2 DEF Injection, IsInjective
  <2>5. f \in Surjection(A, A')
    BY <2>1, <2>3 DEF Surjection
  <2> QED BY <2>4, <2>5 DEF Bijection
<1>7. Cardinality(A') = Cardinality(A)
  BY <1>5, <1>6, FS_Bijection DEF ExistsBijection
<1> QED BY <1>7 DEF A

LEMMA MarksDone ==
  ASSUME LineType, NEW S, "none" \notin S, shift' = NoCmd, txf' = txf
  PROVE  Cardinality(Marks(S)') = IF shift.op \in S THEN Cardinality(Marks(S)) - 1 ELSE Cardinality(Marks(S))
<1>1. shift'.op \notin S /\ 0 \notin DOMAIN txf
  BY DEF NoCmd, Cmd, LineType
<1>2. Marks(S)' = IF shift.op \in S THEN Marks(S) \ {0} ELSE Marks(S)
  BY <1>1 DEF Marks
<1>3. shift.op \in S => 0 \in Marks(S)
  BY DEF Marks
<1>4. IsFiniteSet(Marks(S))
  BY MarksFinite
<1> QED BY <1>2, <1>3, <1>4, FS_RemoveElement

\* The same for the commands that write and for those that read.
LEMMA Counted ==
  ASSUME LineType
  PROVE  Written \in Nat /\ Wanted \in Nat
BY MarksAre, MarksFinite DEF Written, Wanted, LineType

LEMMA CountPut ==
  ASSUME LineType, NEW c \in Cmds, txf' = Append(txf, c), shift' = shift
  PROVE  /\ txf' \in Seq(Cmds) /\ Len(txf') = Len(txf) + 1
         /\ Written' = IF c.op = "r" THEN Written ELSE Written + 1
         /\ Wanted' = IF c.op = "r" THEN Wanted + 1 ELSE Wanted
<1>1. txf' \in Seq(Cmds) /\ Len(txf') = Len(txf) + 1 /\ shift' \in Cmds \cup {NoCmd}
  BY DEF LineType
<1>2. /\ Queued' = Marks({"w", "p"})' /\ Asked' = Marks({"r"})'
      /\ Queued = Marks({"w", "p"}) /\ Asked = Marks({"r"})
  BY <1>1, MarksAre DEF LineType
<1>3. c.op \in {"w", "p", "r"}
  BY DEF Cmds
<1>4. /\ Cardinality(Marks({"r"})') = IF c.op \in {"r"} THEN Cardinality(Marks({"r"})) + 1 ELSE Cardinality(Marks({"r"}))
      /\ Cardinality(Marks({"w", "p"})') = IF c.op \in {"w", "p"} THEN Cardinality(Marks({"w", "p"})) + 1 ELSE Cardinality(Marks({"w", "p"}))
  BY MarksPut
<1> QED BY <1>1, <1>2, <1>3, <1>4 DEF Written, Wanted

LEMMA CountLoad ==
  ASSUME LineType, shift = NoCmd, txf # <<>>, shift' = Head(txf), txf' = Tail(txf)
  PROVE  /\ txf' \in Seq(Cmds) /\ shift' \in Cmds /\ Len(txf') = Len(txf) - 1
         /\ Written' = Written /\ Wanted' = Wanted
<1>1. txf' \in Seq(Cmds) /\ Len(txf') = Len(txf) - 1 /\ shift' \in Cmds
  BY DEF LineType
<1>2. /\ Queued' = Marks({"w", "p"})' /\ Asked' = Marks({"r"})'
      /\ Queued = Marks({"w", "p"}) /\ Asked = Marks({"r"})
  BY <1>1, MarksAre DEF LineType
<1>3. /\ Cardinality(Marks({"r"})') = Cardinality(Marks({"r"}))
      /\ Cardinality(Marks({"w", "p"})') = Cardinality(Marks({"w", "p"}))
  <2>1. "none" \notin {"r"} /\ "none" \notin {"w", "p"}
    OBVIOUS
  <2> QED BY <2>1, MarksLoad
<1> QED BY <1>1, <1>2, <1>3 DEF Written, Wanted

LEMMA CountDone ==
  ASSUME LineType, shift # NoCmd, shift' = NoCmd, txf' = txf
  PROVE  /\ Written' = IF shift.op = "r" THEN Written ELSE Written - 1
         /\ Wanted' = IF shift.op = "r" THEN Wanted - 1 ELSE Wanted
<1>1. txf' \in Seq(Cmds) /\ shift' \in Cmds \cup {NoCmd}
  BY DEF LineType
<1>2. /\ Queued' = Marks({"w", "p"})' /\ Asked' = Marks({"r"})'
      /\ Queued = Marks({"w", "p"}) /\ Asked = Marks({"r"})
  BY <1>1, MarksAre DEF LineType
<1>3. shift.op \in {"w", "p", "r"}
  BY ShiftIs DEF LineType
<1>4. /\ Cardinality(Marks({"r"})') = IF shift.op \in {"r"} THEN Cardinality(Marks({"r"})) - 1 ELSE Cardinality(Marks({"r"}))
      /\ Cardinality(Marks({"w", "p"})') = IF shift.op \in {"w", "p"} THEN Cardinality(Marks({"w", "p"})) - 1 ELSE Cardinality(Marks({"w", "p"}))
  <2>1. "none" \notin {"r"} /\ "none" \notin {"w", "p"}
    OBVIOUS
  <2> QED BY <2>1, MarksDone
<1> QED BY <1>2, <1>3, <1>4 DEF Written, Wanted

LEMMA UpTo ==
  ASSUME NEW n \in Nat
  PROVE  Cardinality(1 .. n) = n
<1>1. 1 \in Int /\ n \in Int
  OBVIOUS
<1>2. Cardinality(1 .. n) = IF 1 > n THEN 0 ELSE n - 1 + 1
  BY ONLY <1>1, FS_Interval
<1> QED BY <1>2

\* Commands that only write, after the FIFOs have been emptied.
LEMMA CountNew ==
  ASSUME txf' \in Seq(Cmds), \A i \in DOMAIN txf' : txf'[i].op # "r", shift' = NoCmd
  PROVE  Written' = Len(txf') /\ Wanted' = 0
<1>1. shift'.op = "none"
  BY DEF NoCmd, Cmd
<1>2. Queued' = 1 .. Len(txf') /\ Asked' = {}
  BY <1>1 DEF Queued, Asked
<1>3. Len(txf') \in Nat
  OBVIOUS
<1>4. Cardinality(1 .. Len(txf')) = Len(txf')
  BY ONLY <1>3, UpTo
<1> QED BY <1>2, <1>4, FS_EmptySet DEF Written, Wanted

LEMMA CountIdle ==
  ASSUME LineIdle
  PROVE  Written = 0 /\ Wanted = 0
<1>1. Queued = {} /\ Asked = {}
  BY DEF LineIdle, Queued, Asked, NoCmd, Cmd
<1> QED BY <1>1, FS_EmptySet DEF Written, Wanted

LEMMA CountSame ==
  ASSUME UNCHANGED <<txf, shift>>
  PROVE  Written' = Written /\ Wanted' = Wanted
BY DEF Written, Wanted, Queued, Asked

-----------------------------------------------------------------------------
(* The inductive invariant.  What is on the line balances with what the      *)
(* drivers have queued and asked for; and each driver keeps its handles, its *)
(* place and what it still expects consistent.                               *)

HandleType ==
  tx \in Handles /\ rx \in Handles /\ en \subseteq {"tx", "rx", "abrt"}

CallKinds == {"none", "block", "it"} \cup Reads \cup Writes
CallType ==
  /\ cl \in [kind : CallKinds, left : Nat, got : Nat] /\ ret \in BOOLEAN
  /\ dev # "i2c" => cl.kind \in {"none", "block", "it"}

Balance ==
  /\ owed = Written
  /\ dev \in {"spi", "i2c"} => due = rxf + ndf + Wanted
  /\ dev = "slave" => rxf <= due /\ Wanted = 0

\* UART: a receive transfer that may take a frame has room for it.
UartInv == IsUart =>
  /\ pc \in {"idle", "tx_on", "rx_on", "tx_off", "rx_off", "uart_send", "uart_read"}
  /\ isr \in {"idle", "uart_rx", "uart_tx", "uart_last"}
  /\ tx.count <= tx.size /\ rx.count <= rx.size
  /\ rx.busy \/ "rx" \in en => rx.count < rx.size
  /\ "rx" \in en /\ pc # "rx_off" => rx.busy
  /\ isr = "uart_rx" => "rx" \in en
  /\ pc = "rx_on" => rx.busy /\ "rx" \notin en
  /\ dev = "uart1" /\ isr = "uart_tx" => txf = <<>>
  /\ pc \in {"uart_send", "uart_read"} => cl.left > 0

\* SPI: what is due is what the transfer by interrupt, or the call, still
\* expects.
Asking == {"spi_ask", "spi_take", "spi_command", "spi_read"}
SpiExpected ==
  IF rx.busy THEN rx.size - rx.count ELSE IF pc \in Asking THEN cl.got - cl.left ELSE 0

SpiInv == IsSpi =>
  /\ pc \in {"idle", "spi_send", "spi_take", "spi_ask", "spi_prefix", "spi_command", "spi_read", "slave_fill"}
  /\ dev = "slave" => pc \in {"idle", "spi_send", "spi_take", "slave_fill"}
  /\ isr \in {"idle", "spi_tx", "spi_rx"}
  /\ isr = "spi_tx" => "tx" \in en
  /\ isr = "spi_rx" => "rx" \in en
  /\ "rx" \in en <=> rx.busy
  /\ "tx" \in en => tx.busy
  /\ "abrt" \notin en
  /\ tx.busy => tx.count < tx.size
  /\ rx.busy => rx.count < rx.size
  /\ tx.count <= tx.size /\ rx.count <= rx.size
  /\ pc # "idle" => en = {} /\ ~rx.busy
  /\ pc = "slave_fill" => tx.busy
  /\ pc = "spi_prefix" => cl.left \in Sizes
  /\ due = SpiExpected

\* I2C: the same, where an abort may have dropped some of it.
Blocking == {"address", "body", "take", "last", "drain", "wait", "poll", "polled"}
I2cExpected ==
  IF rx.busy THEN (IF tx.busy THEN tx.count ELSE rx.size) - rx.count
  ELSE IF cl.kind \in Reads /\ pc \in Blocking \ {"poll", "polled"} THEN cl.got - cl.left ELSE 0

I2cInv == dev = "i2c" =>
  /\ pc \in {"idle", "it_fill", "it_full", "it_tx", "it_both", "it_ask"} \cup Blocking
  /\ isr \in {"idle", "i2c_abort", "i2c_tx", "i2c_fill", "i2c_rx", "i2c_take", "i2c_ask"}
  /\ isr # "idle" => pc = "idle"
  /\ pc \notin {"idle", "it_tx", "it_both"} => en = {}
  /\ pc \in {"it_tx", "it_both"} => en = {"tx"}
  /\ "abrt" \in en => "tx" \in en
  /\ isr = "i2c_fill" => "tx" \in en
  /\ "tx" \in en \/ pc \in {"it_fill", "it_full"} =>
       tx.busy /\ ~rx.busy /\ tx.count <= tx.size /\ tx.size < MaxSize
  /\ "rx" \in en => rx.busy
  /\ rx.count <= rx.size
  /\ rx.busy => rx.count < rx.size /\ (tx.busy => tx.count < rx.size)
  /\ pc = "it_ask" => rx.busy
  /\ en # {} \/ isr # "idle" \/ pc \in {"it_fill", "it_full", "it_ask"} => cl.kind = "it"
  /\ isr \in {"i2c_take", "i2c_ask"} /\ tx.busy => rx.busy
  /\ due <= I2cExpected
  /\ pc \in Blocking => ~rx.busy /\ ~tx.busy /\ cl.kind \in Reads \cup Writes
  /\ pc = "address" => cl.left > 0
  /\ pc = "body" => cl.left > 1
  /\ pc = "take" => cl.left > 0 /\ cl.kind \in Reads
  /\ pc = "last" => cl.left = 1
  /\ pc \in {"drain", "wait"} => cl.left = 0
  /\ pc = "drain" => cl.kind \in Reads /\ cl.got > 0
  /\ pc = "wait" /\ cl.kind \in Reads => cl.got = 0

\* A call that looks for an abort at its end: every frame is still to be queued,
\* on its way or taken by the device, and then all of them have been taken.
OnLine == {txf[i].op : i \in DOMAIN txf} \cup {shift.op}
Accounted ==
  IF pc \in {"address", "body", "last", "wait"}
  THEN OnLine \subseteq {"w", "none"} /\ (~abrt => out + owed + cl.left = cl.got)
  ELSE pc \in {"poll", "polled"} \/ ret => out = cl.got /\ OnLine \subseteq {"p", "none"}
ResultInv == dev = "i2c" =>
  /\ pc = "poll" => LineIdle
  /\ cl.kind \in ChecksAtEnd => Accounted

Control == UartInv /\ SpiInv /\ I2cInv /\ ResultInv
IInv == dev \in Ports /\ LineType /\ HandleType /\ CallType /\ Balance /\ Control

-----------------------------------------------------------------------------
(* What the registers do to the line. *)

\* A command fits into the FIFO.
LEMMA PutStep ==
  ASSUME LineType, Balance, NEW op \in {"w", "p", "r"}, NEW stop \in BOOLEAN,
         Len(txf) < Room, dev = "slave" => op # "r", Put(op, stop), UNCHANGED <<dev, rxf, shift, ndf, bus, abrt>>,
         out' = out
  PROVE  /\ LineType' /\ Balance'
         /\ due' = IF op = "r" /\ ~abrt THEN due + 1 ELSE due
         /\ owed' = IF op # "r" /\ ~abrt THEN owed + 1 ELSE owed
         /\ OnLine' \subseteq OnLine \cup {op}
<1>1. Cmd(op, stop) \in Cmds /\ Cmd(op, stop).op = op
  BY CmdIs
<1>2. Room' = Room /\ Room \in Nat /\ Len(txf) \in Nat
  BY Limits DEF Room, LineType
<1>3. /\ owed' = (IF op # "r" /\ ~abrt THEN owed + 1 ELSE owed)
      /\ due' = (IF op = "r" /\ ~abrt THEN due + 1 ELSE due)
  BY DEF Put
<1>4. CASE abrt
  <2>1. txf' = txf
    BY <1>4 DEF Put
  <2>2. Written' = Written /\ Wanted' = Wanted
    BY <2>1, CountSame
  <2>3. LineType'
    BY <1>2, <1>3, <1>4, <2>1 DEF LineType
  <2>4. OnLine' = OnLine
    BY <2>1 DEF OnLine
  <2> QED BY <1>3, <1>4, <2>2, <2>3, <2>4 DEF Balance
<1>5. CASE ~abrt
  <2>1. txf' = Append(txf, Cmd(op, stop))
    BY <1>5 DEF Put
  <2>2. /\ txf' \in Seq(Cmds) /\ Len(txf') = Len(txf) + 1
        /\ Written' = IF Cmd(op, stop).op = "r" THEN Written ELSE Written + 1
        /\ Wanted' = IF Cmd(op, stop).op = "r" THEN Wanted + 1 ELSE Wanted
    BY <1>1, <2>1, CountPut
  <2>3. LineType'
    BY <1>2, <1>3, <2>2 DEF LineType
  <2>4. Written \in Nat /\ Wanted \in Nat
    BY Counted
  <2>5. Balance'
    BY <1>1, <1>3, <1>5, <2>2, <2>4 DEF Balance, LineType
  <2>6. OnLine' \subseteq OnLine \cup {op}
    <3>1. ASSUME NEW i \in DOMAIN txf' PROVE txf'[i].op \in OnLine \cup {op}
      <4>1. CASE i = Len(txf) + 1
        BY <1>1, <2>1, <4>1 DEF LineType
      <4>2. CASE i # Len(txf) + 1
        <5>1. i \in DOMAIN txf /\ txf'[i] = txf[i]
          BY <2>1, <3>1, <4>2 DEF LineType
        <5> QED BY <5>1 DEF OnLine
      <4> QED BY <4>1, <4>2
    <3> QED BY <3>1 DEF OnLine
  <2> QED BY <1>3, <2>3, <2>5, <2>6
<1> QED BY <1>4, <1>5

\* A frame is taken from the receive FIFO.
LEMMA TakeStep ==
  ASSUME LineType, Balance, rxf > 0, Taken(1), UNCHANGED <<dev, txf, shift, ndf, bus, abrt, owed>>,
         out' = out
  PROVE  /\ LineType' /\ Balance' /\ rxf' = rxf - 1
         /\ ~IsUart => due > 0 /\ due' = due - 1
<1>1. Written' = Written /\ Wanted' = Wanted
  BY CountSame
<1>2. Written \in Nat /\ Wanted \in Nat /\ Depth \in Nat
  BY Counted, Limits
<1>3. rxf' = rxf - 1 /\ due' = (IF due >= 1 THEN due - 1 ELSE 0) /\ rxf' \in 0 .. Depth /\ due' \in Nat
  BY <1>2 DEF Taken, LineType
<1>4. LineType'
  BY <1>3 DEF LineType, Room
<1>5. dev \in Ports /\ ndf \in Nat
  BY Limits DEF LineType
<1>6. ~IsUart => due > 0
  BY <1>2, <1>5, Limits DEF IsUart, Balance, LineType
<1>7. Balance'
  BY <1>1, <1>2, <1>3, <1>5, <1>6 DEF Balance, LineType, IsUart
<1> QED BY <1>3, <1>4, <1>6, <1>7 DEF LineType

\* The controller is disabled while nothing is owed, and given commands that
\* write and frames to read.
LEMMA ReenableStep ==
  ASSUME LineType, Balance, Written = 0, due = 0, dev # "uart1",
         NEW cmds \in Seq(Cmds), \A i \in DOMAIN cmds : cmds[i].op # "r", Len(cmds) <= 2,
         NEW n \in 0 .. MaxSize, dev # "spi" => n = 0,
         Reenable(cmds, n), owed' = owed + Len(cmds), due' \in Nat,
         dev \in {"spi", "i2c"} => due' = due + n,
         dev' = dev, abrt' \in BOOLEAN, dev # "i2c" => ~abrt', out' \in Nat
  PROVE  LineType' /\ Balance'
<1>1. txf' = cmds /\ rxf' = 0 /\ shift' = NoCmd /\ ndf' = n /\ bus' = "free"
  BY DEF Reenable
<1>2. Written' = Len(txf') /\ Wanted' = 0
  BY <1>1, CountNew
<1>3. Depth \in Nat /\ Depth > 1 /\ Room' = Depth /\ MaxSize \in Nat /\ Len(cmds) \in Nat
  BY Limits DEF Room
<1>4. LineType'
  BY <1>1, <1>3 DEF LineType, Balance
<1> QED BY <1>1, <1>2, <1>3, <1>4 DEF Balance

LEMMA AbandonedStep ==
  ASSUME LineType, dev = "i2c", Abandoned, dev' = dev, out' = out
  PROVE  LineType' /\ Balance' /\ LineIdle' /\ due' = 0
<1>1. txf' = <<>> /\ rxf' = 0 /\ shift' = NoCmd /\ ndf' = 0 /\ bus' = "free" /\ ~abrt' /\ abrt' \in BOOLEAN
      /\ owed' = 0 /\ due' = 0
  BY DEF Abandoned, Reset, Reenable
<1>2. Written' = Len(txf') /\ Wanted' = 0
  BY <1>1, CountNew
<1>3. Room' \in Nat /\ Depth \in Nat /\ MaxSize \in Nat
  BY Limits DEF Room
<1>4. LineType'
  BY <1>1, <1>3 DEF LineType
<1> QED BY <1>1, <1>2, <1>4 DEF Balance, LineIdle

LEMMA SameLine ==
  ASSUME LineType, Balance, UNCHANGED <<dev, line>>
  PROVE  LineType' /\ Balance' /\ OnLine' = OnLine /\ (LineIdle' <=> LineIdle)
<1>1. UNCHANGED <<txf, rxf, shift, ndf, bus, abrt, out, owed, due>>
  BY DEF line
<1>2. Written' = Written /\ Wanted' = Wanted
  BY <1>1, CountSame
<1>3. LineType'
  BY <1>1 DEF LineType, Room
<1> QED BY <1>1, <1>2, <1>3 DEF Balance, OnLine, LineIdle

-----------------------------------------------------------------------------
(* The steps of the line. *)

\* Whatever leaves the drivers alone keeps what they know about themselves.
LEMMA DriversKept ==
  ASSUME IInv, LineType', Balance', ResultInv',
         UNCHANGED <<dev, handle, en, isr, thread>>,
         due' = due \/ (dev = "i2c" /\ due' <= due), txf # <<>> \/ txf' = txf
  PROVE  IInv'
<1>1. UNCHANGED <<dev, tx, rx, en, isr, pc, cl, ret>>
  BY DEF handle, thread
<1>2. dev' \in Ports /\ HandleType' /\ CallType'
  BY <1>1 DEF IInv, HandleType, CallType
<1>3. UartInv'
  BY <1>1 DEF IInv, Control, UartInv, IsUart
<1>4. SpiInv'
  BY <1>1 DEF IInv, Control, SpiInv, IsSpi, SpiExpected
<1>5. I2cInv'
  <2>1. I2cExpected' = I2cExpected
    BY <1>1 DEF I2cExpected
  <2>2. dev = "i2c" => I2cExpected \in Int
    BY DEF IInv, I2cExpected, HandleType, Handles, CallType
  <2>3. dev = "i2c" => due' <= I2cExpected'
    BY <2>1, <2>2 DEF IInv, LineType, Control, I2cInv
  <2> HIDE DEF I2cExpected
  <2> QED BY <1>1, <2>3 DEF IInv, Control, I2cInv
<1> QED BY <1>2, <1>3, <1>4, <1>5 DEF IInv, Control

LEMMA LoadStep ==
  ASSUME IInv, Load PROVE IInv'
<1> USE DEF IInv
<1>1. /\ shift = NoCmd /\ txf # <<>> /\ shift' = Head(txf) /\ txf' = Tail(txf)
      /\ UNCHANGED <<dev, tx, rx, rxf, ndf, abrt, out, owed, due, en, isr, pc, cl, ret>>
      /\ bus' = IF dev = "i2c" /\ bus = "free" THEN "started" ELSE bus
  BY DEF Load, handle, thread
<1>2. /\ txf' \in Seq(Cmds) /\ shift' \in Cmds /\ Len(txf') = Len(txf) - 1
      /\ Written' = Written /\ Wanted' = Wanted
  BY <1>1, CountLoad
<1>3. Room \in Nat /\ Room' = Room
  BY <1>1, Limits DEF Room
<1>4. LineType'
  BY <1>1, <1>2, <1>3 DEF LineType
<1>5. Balance'
  BY <1>1, <1>2 DEF Balance
<1>6. OnLine' \subseteq OnLine
  <2>1. txf \in Seq(Cmds)
    BY DEF LineType
  <2>2. 1 \in DOMAIN txf /\ shift' = txf[1] /\ \A i \in DOMAIN txf' : i + 1 \in DOMAIN txf /\ txf'[i] = txf[i + 1]
    BY <1>1, <2>1
  <2> QED BY <2>2 DEF OnLine
<1>7. ResultInv'
  <2>1. ~LineIdle
    BY <1>1 DEF LineIdle
  <2>2. cl.kind \in ChecksAtEnd /\ dev = "i2c" => Accounted'
    BY <1>1, <1>6 DEF Control, ResultInv, Accounted
  <2> QED BY <1>1, <2>1, <2>2 DEF Control, ResultInv
<1> QED BY <1>1, <1>4, <1>5, <1>7, DriversKept DEF handle, thread

LEMMA DoneStep ==
  ASSUME IInv, Flow = TRUE, Done PROVE IInv'
<1> USE DEF IInv
<1>1. /\ shift # NoCmd /\ shift' = NoCmd
      /\ UNCHANGED <<dev, tx, rx, txf, ndf, abrt, due, en, isr, pc, cl, ret>>
  BY DEF Done, handle, thread
<1>2. bus' \in {"free", "started", "writing", "reading"} /\ (dev # "i2c" => bus' = "free")
  <2>1. shift \in Cmds
    BY <1>1 DEF LineType
  <2>2. shift.stop \in BOOLEAN
    BY <2>1 DEF Cmds
  <2>3. bus' = IF dev # "i2c" \/ shift.stop THEN "free"
              ELSE IF shift.op = "r" THEN "reading" ELSE "writing"
    BY DEF Done
  <2> QED BY <2>2, <2>3
<1>3. /\ Written' = IF shift.op = "r" THEN Written ELSE Written - 1
      /\ Wanted' = IF shift.op = "r" THEN Wanted - 1 ELSE Wanted
  BY <1>1, CountDone
<1>4. shift.op \in {"w", "p", "r"} /\ shift' \in Cmds \cup {NoCmd} /\ shift'.op = "none"
  BY <1>1, ShiftIs DEF LineType, NoCmd, Cmd
<1>5. Room' = Room
  BY <1>1 DEF Room
<1>6. \/ /\ shift.op = "r" /\ UNCHANGED <<out, owed>>
         /\ rxf' = IF rxf < Depth THEN rxf + 1 ELSE rxf
         /\ ~(rxf = Depth /\ (dev = "i2c" \/ Flow))
      \/ /\ shift.op # "r" /\ rxf' = rxf
         /\ owed' = IF owed > 0 THEN owed - 1 ELSE 0
         /\ out' = IF dev = "i2c" /\ shift.op = "w" THEN out + 1 ELSE out
  BY DEF Done, Stretches, Received
<1>7. rxf' \in 0 .. Depth /\ out' \in Nat /\ owed' \in Nat /\ Depth \in Nat
  BY <1>6, Limits DEF LineType
<1>8. LineType'
  BY <1>1, <1>2, <1>4, <1>5, <1>7 DEF LineType
<1>9. Written \in Nat /\ Wanted \in Nat /\ Written' \in Nat /\ Wanted' \in Nat
  <2>1. Written \in Nat /\ Wanted \in Nat
    BY Counted
  <2>2. Queued' = Marks({"w", "p"})' /\ Asked' = Marks({"r"})' /\ Queued = Marks({"w", "p"}) /\ Asked = Marks({"r"})
    BY <1>8, MarksAre DEF LineType
  <2>3. IsFiniteSet(Queued) /\ IsFiniteSet(Asked)
    BY <2>2, MarksFinite
  <2>4. Queued' \subseteq Queued /\ Asked' \subseteq Asked
    BY <1>1, <1>4 DEF Queued, Asked
  <2>5. IsFiniteSet(Queued') /\ IsFiniteSet(Asked')
    BY <2>3, <2>4, FS_Subset
  <2>6. Cardinality(Queued') \in Nat /\ Cardinality(Asked') \in Nat
    BY <2>5, FS_CardinalityType
  <2> QED BY <2>1, <2>6 DEF Written, Wanted
<1>10. shift.op # "r" => owed > 0 /\ owed' = owed - 1
  BY <1>3, <1>6, <1>9 DEF Balance, LineType
<1>11. rxf \in Nat /\ ndf \in Nat /\ owed \in Nat /\ ndf' = ndf /\ due' = due /\ dev' = dev
  BY <1>1, Limits DEF LineType
<1>12. dev \in {"spi", "i2c"} => rxf' = IF shift.op = "r" THEN rxf + 1 ELSE rxf
  BY <1>6, <1>7 DEF LineType
<1>13. Balance'
  <2>1. owed' = Written'
    BY <1>3, <1>4, <1>6, <1>9, <1>10, <1>11 DEF Balance
  <2>2. dev \in {"spi", "i2c"} => due' = rxf' + ndf' + Wanted'
    BY <1>3, <1>4, <1>9, <1>11, <1>12 DEF Balance, LineType
  <2>3. dev = "slave" => rxf' <= due' /\ Wanted' = 0
    BY <1>3, <1>4, <1>6, <1>9, <1>11 DEF Balance, LineType
  <2> QED BY <1>11, <2>1, <2>2, <2>3 DEF Balance
<1>14. ResultInv'
  <2>1. ~LineIdle
    BY <1>1 DEF LineIdle
  <2>2. OnLine' \subseteq OnLine \cup {"none"} /\ shift.op \in OnLine
    BY <1>1, <1>4 DEF OnLine
  <2>3. ASSUME dev = "i2c", cl.kind \in ChecksAtEnd PROVE Accounted'
    <3>1. Accounted
      BY <2>3 DEF Control, ResultInv
    <3>2. CASE pc \in {"address", "body", "last", "wait"}
      <4>1. OnLine' \subseteq {"w", "none"} /\ shift.op = "w"
        BY <1>4, <2>2, <3>1, <3>2 DEF Accounted
      <4>2. out' = out + 1 /\ owed' = owed - 1
        BY <1>6, <1>10, <2>3, <4>1
      <4>3. out \in Nat /\ cl.left \in Nat
        BY DEF LineType, CallType
      <4> QED BY <1>1, <1>11, <3>1, <3>2, <4>1, <4>2, <4>3 DEF Accounted
    <3>3. CASE pc \notin {"address", "body", "last", "wait"} /\ (pc \in {"poll", "polled"} \/ ret)
      <4>1. OnLine' \subseteq {"p", "none"} /\ shift.op = "p"
        BY <1>4, <2>2, <3>1, <3>3 DEF Accounted
      <4>2. out' = out
        BY <1>6, <4>1
      <4> QED BY <1>1, <3>1, <3>3, <4>1, <4>2 DEF Accounted
    <3> QED BY <1>1, <3>2, <3>3 DEF Accounted
  <2> QED BY <1>1, <2>1, <2>3 DEF Control, ResultInv
<1> QED BY <1>1, <1>8, <1>11, <1>13, <1>14, DriversKept DEF handle, thread

\* Frames that arrive by themselves: what was to come is in the FIFO.
LEMMA ReadsStep ==
  ASSUME IInv, Flow = TRUE, ReadsByItself PROVE IInv'
<1> USE DEF IInv
<1>1. /\ ndf > 0 /\ ndf' = ndf - 1
      /\ UNCHANGED <<dev, tx, rx, txf, shift, bus, abrt, out, owed, due, en, isr, pc, cl, ret>>
      /\ rxf' = IF rxf < Depth THEN rxf + 1 ELSE rxf
      /\ ~(rxf = Depth /\ (dev = "i2c" \/ Flow))
  BY DEF ReadsByItself, handle, thread, Received, Stretches
<1>2. Depth \in Nat /\ MaxSize \in Nat /\ rxf' = rxf + 1 /\ rxf' \in 0 .. Depth /\ ndf' \in 0 .. MaxSize
  BY <1>1, Limits DEF LineType
<1>3. dev = "spi"
  BY <1>1 DEF LineType
<1>4. LineType'
  BY <1>1, <1>2, <1>3 DEF LineType, Room
<1>5. Written' = Written /\ Wanted' = Wanted /\ Wanted \in Nat
  BY <1>1, CountSame, Counted
<1>6. Balance'
  BY <1>1, <1>2, <1>3, <1>5 DEF Balance, LineType
<1>7. ResultInv'
  BY <1>1, <1>3 DEF ResultInv
<1> QED BY <1>1, <1>4, <1>6, <1>7, DriversKept DEF handle, thread

LEMMA PeerStep ==
  ASSUME IInv, PeerSends PROVE IInv'
<1> USE DEF IInv
<1>1. /\ rxf' = rxf + 1
      /\ UNCHANGED <<dev, tx, rx, txf, shift, ndf, bus, abrt, out, owed, due, en, isr, pc, cl, ret>>
      /\ \/ dev \in {"uart", "uart1"} /\ rxf < Room
         \/ dev = "slave" /\ rxf < due /\ rxf < Depth
  BY DEF PeerSends, handle, thread
<1>2. Depth \in Nat /\ Room <= Depth /\ Room \in Nat /\ rxf' \in 0 .. Depth
  BY <1>1, Limits DEF LineType
<1>3. LineType'
  BY <1>1, <1>2 DEF LineType, Room
<1>4. Written' = Written /\ Wanted' = Wanted /\ Wanted \in Nat
  BY <1>1, CountSame, Counted
<1>5. Balance'
  BY <1>1, <1>2, <1>4 DEF Balance, LineType
<1>6. ResultInv'
  BY <1>1 DEF ResultInv
<1> QED BY <1>1, <1>3, <1>5, <1>6, DriversKept DEF handle, thread

\* A refused frame takes with it what is queued: the abort tells.
LEMMA RefusedStep ==
  ASSUME IInv, Refused PROVE IInv'
<1> USE DEF IInv
<1>1. /\ dev = "i2c" /\ shift # NoCmd /\ abrt' = TRUE
      /\ txf' = <<>> /\ shift' = NoCmd /\ bus' = "free" /\ owed' = 0 /\ due' = rxf
      /\ UNCHANGED <<dev, tx, rx, rxf, ndf, out, en, isr, pc, cl, ret>>
  BY DEF Refused, handle, thread
<1>2. Written' = Len(txf') /\ Wanted' = 0 /\ Len(txf') = 0
  BY <1>1, CountNew
<1>3. Room' \in Nat
  BY Limits, <1>1 DEF Room
<1>4. LineType'
  BY <1>1, <1>3 DEF LineType
<1>5. ndf = 0 /\ Wanted \in Nat
  BY <1>1, Counted DEF LineType
<1>6. Balance' /\ due' <= due
  BY <1>1, <1>2, <1>5, Limits DEF Balance, LineType
<1>7. OnLine' = {"none"}
  BY <1>1 DEF OnLine, NoCmd, Cmd
<1>8. ResultInv'
  <2>1. ~LineIdle
    BY <1>1 DEF LineIdle
  <2>2. cl.kind \in ChecksAtEnd => Accounted'
    BY <1>1, <1>7 DEF Control, ResultInv, Accounted
  <2> QED BY <1>1, <2>1, <2>2 DEF Control, ResultInv
<1> QED BY <1>1, <1>4, <1>6, <1>8, DriversKept DEF handle, thread

-----------------------------------------------------------------------------
(* The steps of the UART driver. *)

\* A place belongs to one driver.
LEMMA Whose ==
  ASSUME IInv
  PROVE  /\ IsUart \/ IsSpi \/ dev = "i2c"
         /\ dev # "i2c" => ~abrt
         /\ pc \in {"tx_on", "rx_on", "tx_off", "rx_off", "uart_send", "uart_read"}
              \/ isr \in {"uart_rx", "uart_tx", "uart_last"} => IsUart
         /\ pc \in {"spi_send", "spi_take", "spi_ask", "spi_prefix", "spi_command", "spi_read", "slave_fill"}
              \/ isr \in {"spi_tx", "spi_rx"} => IsSpi
         /\ pc \in {"it_fill", "it_full", "it_tx", "it_both", "it_abrt", "it_ask"} \cup Blocking
              \/ isr \in {"i2c_abort", "i2c_tx", "i2c_fill", "i2c_rx", "i2c_take", "i2c_ask"} => dev = "i2c"
<1>1. IsUart \/ IsSpi \/ dev = "i2c"
  BY Limits DEF IInv, IsUart, IsSpi
<1> QED BY <1>1 DEF IInv, Control, UartInv, SpiInv, I2cInv, Blocking, LineType

LEMMA UartKept ==
  ASSUME IInv, IsUart, dev' = dev, LineType', Balance', HandleType', CallType', UartInv'
  PROVE  IInv'
BY DEF IInv, Control, SpiInv, I2cInv, ResultInv, IsUart, IsSpi

LEMMA UartCallSteps ==
  ASSUME IInv, UartCalls \/ UartInterrupts
  PROVE  IInv'
<1> USE DEF IInv
<1>1. IsUart /\ dev' = dev
  BY DEF UartCalls, UartTransmitITStop, UartReceiveITStop, UartTransmitIT, UartReceiveIT, UartTransmit,
         UartReceive, UartInterrupts
<1>2. UNCHANGED line /\ isr' = isr /\ ret' = ret /\ isr = "idle" /\ (UartCalls => pc = "idle")
  BY DEF UartCalls, UartTransmitITStop, UartReceiveITStop, UartTransmitIT, UartReceiveIT, UartTransmit,
         UartReceive, UartInterrupts, ThreadAt, MayRun
<1>3. LineType' /\ Balance'
  BY <1>1, <1>2, SameLine
<1>4. MaxSize \in Nat /\ \A n \in Sizes : n \in Nat /\ n > 0 /\ n <= MaxSize
  BY Limits
<1>5. \A n \in Sizes : Started(n) \in Handles /\ Started(n).count = 0 /\ Started(n).size = n /\ Started(n).busy
  BY <1>4 DEF Started, Handles
<1>6. CASE UartTransmitITStop \/ UartReceiveITStop
  <2>1. HandleType' /\ CallType'
    BY <1>1, <1>2, <1>6 DEF UartTransmitITStop, UartReceiveITStop, HandleType, CallType, Handles
  <2>2. UartInv'
    BY <1>1, <1>2, <1>6 DEF UartCalls, UartTransmitITStop, UartReceiveITStop, HandleType, Handles, Control, UartInv, IsUart
  <2> QED BY <1>1, <1>3, <2>1, <2>2, UartKept
<1>7. CASE \E n \in Sizes : UartTransmitIT(n) \/ UartReceiveIT(n)
  <2>1. HandleType' /\ CallType'
    BY <1>1, <1>2, <1>5, <1>7 DEF UartTransmitIT, UartReceiveIT, HandleType, CallType
  <2>2. UartInv'
    BY <1>1, <1>2, <1>4, <1>5, <1>7 DEF UartCalls, UartTransmitIT, UartReceiveIT, HandleType, Handles, Control, UartInv, IsUart
  <2> QED BY <1>1, <1>3, <2>1, <2>2, UartKept
<1>8. CASE \E n \in Sizes : UartTransmit(n) \/ UartReceive(n)
  <2>1. PICK n \in Sizes : cl' = [NoCall EXCEPT !.left = n]
    BY <1>8 DEF UartTransmit, UartReceive
  <2>2. cl'.left > 0 /\ cl' \in [kind : CallKinds, left : Nat, got : Nat] /\ cl'.kind = "none"
    BY <1>4, <2>1 DEF NoCall, Call, CallKinds
  <2>3. HandleType' /\ CallType'
    BY <1>1, <1>2, <1>8, <2>2 DEF UartTransmit, UartReceive, HandleType, handle, CallType
  <2>4. UartInv'
    BY <1>1, <1>2, <1>8, <2>2 DEF UartCalls, UartTransmit, UartReceive, handle, Control, UartInv, IsUart
  <2> QED BY <1>1, <1>3, <2>3, <2>4, UartKept
<1>9. CASE UartInterrupts
  <2>1. HandleType' /\ CallType'
    BY <1>1, <1>2, <1>9 DEF UartInterrupts, HandleType, handle, CallType
  <2>2. UartInv'
    BY <1>1, <1>2, <1>9 DEF UartInterrupts, handle, Control, UartInv, IsUart
  <2> QED BY <1>1, <1>3, <2>1, <2>2, UartKept
<1> QED BY <1>6, <1>7, <1>8, <1>9 DEF UartCalls

LEMMA UartBlockingSteps ==
  ASSUME IInv, UartSends \/ UartReads
  PROVE  IInv'
<1> USE DEF IInv
<1>1. pc \in {"uart_send", "uart_read"} /\ isr = "idle" /\ cl' = [cl EXCEPT !.left = @ - 1]
      /\ pc' = (IF cl.left = 1 THEN "idle" ELSE pc)
      /\ UNCHANGED <<dev, tx, rx, shift, ndf, bus, abrt, out, en, isr, ret>>
  BY DEF UartSends, UartReads, ThreadAt, MayRun, handle
<1>2. IsUart /\ ~abrt /\ dev # "slave"
  BY <1>1, Whose DEF IsUart
<1>3. LineType' /\ Balance'
  <2>1. CASE UartSends
    <3>1. Len(txf) < Room
      BY <2>1, Limits DEF UartSends, Full, LineType
    <3> QED BY <1>1, <1>2, <2>1, <3>1, PutStep DEF UartSends
  <2>2. CASE UartReads
    BY <1>1, <2>2, TakeStep DEF UartReads
  <2> QED BY <2>1, <2>2
<1>4. cl.left > 0 /\ cl.left \in Nat
  BY <1>1, <1>2 DEF CallType, Control, UartInv
<1>5. cl' \in [kind : CallKinds, left : Nat, got : Nat] /\ cl'.kind = cl.kind /\ cl'.left = cl.left - 1
  BY <1>1, <1>4 DEF CallType
<1>6. HandleType' /\ CallType'
  BY <1>1, <1>5 DEF HandleType, CallType
<1>7. UartInv'
  BY <1>1, <1>4, <1>5 DEF Control, UartInv, IsUart
<1> QED BY <1>1, <1>2, <1>3, <1>6, <1>7, UartKept

LEMMA UartEnterSteps ==
  ASSUME IInv, UartEnterRx \/ UartEnterTx
  PROVE  IInv'
<1> USE DEF IInv
<1>1. IsUart /\ UNCHANGED <<dev, line, tx, rx, en, pc, cl, ret, txf>>
  BY DEF UartEnterRx, UartEnterTx, handle, thread, line
<1>2. LineType' /\ Balance' /\ HandleType' /\ CallType'
  BY <1>1, SameLine DEF HandleType, CallType
<1>3. UartInv'
  BY <1>1 DEF UartEnterRx, UartEnterTx, RxPending, Control, UartInv, IsUart
<1> QED BY <1>1, <1>2, <1>3, UartKept

\* The callback of a transfer that is over.
LEMMA CompletedIs ==
  ASSUME tx \in Handles, rx \in Handles, en \subseteq {"tx", "rx", "abrt"}
  PROVE  /\ TxCompletes => tx' \in Handles /\ en' \subseteq en /\ en \subseteq en' \cup {"tx"}
                           /\ (tx.count <= tx.size => tx'.count <= tx'.size)
         /\ RxCompletes /\ rx.count < rx.size =>
              /\ rx' \in Handles /\ en' \subseteq en /\ rx'.count <= rx'.size
              /\ \/ ~rx'.busy /\ en' = en \ {"rx"}
                 \/ rx'.busy /\ en' = en /\ rx'.count < rx'.size
<1>1. \A n \in Sizes : Started(n) \in Handles /\ Started(n).count = 0 /\ Started(n).size = n /\ n > 0
                       /\ n \in Nat /\ Started(n).busy
  BY Limits DEF Started, Handles
<1>2. MaxSize \in Nat
  BY Limits
<1>3. ASSUME TxCompletes
      PROVE  tx' \in Handles /\ en' \subseteq en /\ en \subseteq en' \cup {"tx"} /\ (tx.count <= tx.size => tx'.count <= tx'.size)
  <2>1. CASE tx' = [tx EXCEPT !.busy = FALSE] /\ en' = en \ {"tx"}
    BY <2>1 DEF Handles
  <2>2. CASE en' = en /\ \E n \in Sizes : tx' = Started(n)
    BY <1>1, <2>2
  <2> QED BY <1>3, <2>1, <2>2 DEF TxCompletes
<1>4. ASSUME RxCompletes, rx.count < rx.size
      PROVE  /\ rx' \in Handles /\ en' \subseteq en /\ rx'.count <= rx'.size
             /\ \/ ~rx'.busy /\ en' = en \ {"rx"}
                \/ rx'.busy /\ en' = en /\ rx'.count < rx'.size
  <2>1. CASE rx' = [rx EXCEPT !.busy = FALSE, !.count = @ + 1] /\ en' = en \ {"rx"}
    <3>1. rx.count + 1 \in 0 .. MaxSize /\ rx.count + 1 <= rx.size
      BY <1>2, <1>4 DEF Handles
    <3>2. rx' \in Handles /\ rx'.count = rx.count + 1 /\ rx'.size = rx.size /\ ~rx'.busy
      BY <2>1, <3>1 DEF Handles
    <3> QED BY <2>1, <3>1, <3>2
  <2>2. CASE en' = en /\ \E n \in Sizes : rx' = Started(n)
    BY <1>1, <2>2
  <2> QED BY <1>4, <2>1, <2>2 DEF RxCompletes
<1> QED BY <1>3, <1>4

LEMMA UartTxSteps ==
  ASSUME IInv, UartTxEnds \/ UartTxLast
  PROVE  IInv'
<1> USE DEF IInv
<1>1. isr \in {"uart_tx", "uart_last"} /\ isr' = "idle" /\ UNCHANGED <<dev, rx, line, pc, cl, ret>>
      /\ (TxCompletes \/ UNCHANGED <<tx, en>>)
  BY DEF UartTxEnds, UartTxLast, thread
<1>2. IsUart
  BY <1>1, Whose
<1>3. LineType' /\ Balance'
  BY <1>1, SameLine
<1>4. tx' \in Handles /\ en' \subseteq en /\ en \subseteq en' \cup {"tx"} /\ tx'.count <= tx'.size
  BY <1>1, <1>2, CompletedIs DEF HandleType, Control, UartInv
<1>5. HandleType' /\ CallType'
  BY <1>1, <1>4 DEF HandleType, CallType
<1>6. UartInv'
  BY <1>1, <1>4 DEF Control, UartInv, IsUart
<1> QED BY <1>1, <1>2, <1>3, <1>5, <1>6, UartKept

LEMMA UartFillStep ==
  ASSUME IInv, UartTxFills
  PROVE  IInv'
<1> USE DEF IInv
<1>1. isr = "uart_tx" /\ tx.count < tx.size
      /\ UNCHANGED <<dev, rx, rxf, shift, ndf, bus, abrt, out, en, pc, cl, ret>>
  BY DEF UartTxFills, thread
<1>2. IsUart /\ dev # "slave"
  BY <1>1, Whose DEF IsUart
<1>3. CallType' /\ tx.count \in Nat /\ tx.size \in Nat /\ tx.size <= MaxSize /\ MaxSize \in Nat
  BY <1>1, Limits DEF CallType, HandleType, Handles
<1>4. CASE /\ dev = "uart1" \/ ~Full
           /\ Put("w", FALSE)
           /\ tx' = [tx EXCEPT !.count = @ + 1]
           /\ isr' = IF dev = "uart1" THEN "idle"
                     ELSE IF tx.count + 1 >= tx.size THEN "uart_last" ELSE isr
  <2>1. Len(txf) < Room
    BY <1>1, <1>4, Limits DEF Full, LineType, Control, UartInv, IsUart, Room
  <2>2. LineType' /\ Balance'
    BY <1>1, <1>2, <1>4, <2>1, PutStep
  <2>3. tx' \in Handles /\ tx'.count <= tx'.size
    BY <1>1, <1>3, <1>4 DEF HandleType, Handles
  <2>4. HandleType'
    BY <1>1, <2>3 DEF HandleType
  <2>5. UartInv'
    BY <1>1, <1>4, <2>3 DEF Control, UartInv, IsUart
  <2> QED BY <1>1, <1>2, <1>3, <2>2, <2>4, <2>5, UartKept
<1>5. CASE dev = "uart" /\ isr' = "idle" /\ UNCHANGED <<txf, owed, due, tx>>
  <2>1. LineType' /\ Balance'
    BY <1>1, <1>5, SameLine DEF line
  <2>2. HandleType' /\ UartInv'
    BY <1>1, <1>5 DEF HandleType, Control, UartInv, IsUart
  <2> QED BY <1>1, <1>2, <1>3, <2>1, <2>2, UartKept
<1> QED BY <1>4, <1>5 DEF UartTxFills

LEMMA UartRxStep ==
  ASSUME IInv, UartRx
  PROVE  IInv'
<1> USE DEF IInv
<1>1. isr = "uart_rx" /\ UNCHANGED <<dev, tx, txf, shift, ndf, bus, abrt, out, owed, pc, cl, ret>>
  BY DEF UartRx, thread
<1>2. IsUart /\ rx.count < rx.size /\ (rx.busy \/ pc = "rx_off") /\ "rx" \in en
  BY <1>1, Whose DEF Control, UartInv
<1>3. CallType' /\ rx.count \in Nat /\ rx.size \in Nat /\ rx.size <= MaxSize /\ MaxSize \in Nat
  BY <1>1, Limits DEF CallType, HandleType, Handles
<1>4. CASE rxf = 0 /\ isr' = "idle" /\ UNCHANGED <<rx, en, rxf, due>>
  <2>1. LineType' /\ Balance'
    BY <1>1, <1>4, SameLine DEF line
  <2>2. HandleType' /\ UartInv'
    BY <1>1, <1>4 DEF HandleType, Control, UartInv, IsUart
  <2> QED BY <1>1, <1>2, <1>3, <2>1, <2>2, UartKept
<1>5. CASE rxf > 0 /\ Taken(1)
  <2>1. LineType' /\ Balance'
    BY <1>1, <1>5, TakeStep
  <2>2. CASE RxCompletes /\ isr' = "idle"
    <3>1. /\ rx' \in Handles /\ en' \subseteq en /\ rx'.count <= rx'.size
          /\ \/ ~rx'.busy /\ en' = en \ {"rx"}
             \/ rx'.busy /\ en' = en /\ rx'.count < rx'.size
      BY <1>2, <2>2, CompletedIs DEF HandleType
    <3>2. HandleType'
      BY <1>1, <3>1 DEF HandleType
    <3>3. UartInv'
      BY <1>1, <1>2, <2>2, <3>1 DEF Control, UartInv, IsUart
    <3> QED BY <1>1, <1>2, <1>3, <2>1, <3>2, <3>3, UartKept
  <2>3. CASE rx.count + 1 < rx.size /\ rx' = [rx EXCEPT !.count = @ + 1] /\ UNCHANGED <<en, isr>>
    <3>1. rx' \in Handles /\ rx'.count < rx'.size /\ rx'.busy = rx.busy
      BY <1>3, <2>3 DEF HandleType, Handles
    <3>2. HandleType' /\ rx'.count <= rx'.size
      BY <1>1, <2>3, <3>1 DEF HandleType, Handles
    <3>3. UartInv'
      BY <1>1, <1>2, <2>3, <3>1, <3>2 DEF Control, UartInv, IsUart
    <3> QED BY <1>1, <1>2, <1>3, <2>1, <3>2, <3>3, UartKept
  <2> QED BY <1>3, <1>5, <2>2, <2>3, <1>1 DEF UartRx
<1> QED BY <1>4, <1>5 DEF UartRx

-----------------------------------------------------------------------------
(* The steps of the SPI drivers. *)

LEMMA SpiKept ==
  ASSUME IInv, IsSpi, dev' = dev, LineType', Balance', HandleType', CallType', SpiInv'
  PROVE  IInv'
BY DEF IInv, Control, UartInv, I2cInv, ResultInv, IsUart, IsSpi

\* A call finds nothing owed, nothing due and no interrupt enabled.
LEMMA SpiCalled ==
  ASSUME IInv, IsSpi, MayCall, Waits = TRUE
  PROVE  /\ pc = "idle" /\ isr = "idle" /\ en = {} /\ ~tx.busy /\ ~rx.busy
         /\ Written = 0 /\ due = 0 /\ ~abrt /\ dev \notin {"uart1", "i2c"}
<1>1. pc = "idle" /\ isr = "idle" /\ ~tx.busy /\ ~rx.busy /\ LineIdle
  BY DEF MayCall, ThreadAt, MayRun
<1>2. en = {} /\ due = 0
  BY <1>1 DEF IInv, HandleType, Control, SpiInv, SpiExpected, Asking
<1>3. ~abrt /\ dev \notin {"uart1", "i2c"}
  BY DEF IInv, LineType, IsSpi
<1> QED BY <1>1, <1>2, <1>3, CountIdle

\* The transfer by interrupt, or the call, that begins.
LEMMA SpiBegins ==
  ASSUME IInv, IsSpi, MayCall, Waits = TRUE, NEW n \in Sizes, dev' = dev, isr' = isr, ret' = ret,
         LineType', Balance',
         \/ /\ UNCHANGED <<tx, rx, en>>
            /\ \/ pc' = "spi_send" /\ cl' = Call("block", n, 0) /\ due' = 0
               \/ /\ pc' = "spi_prefix" /\ dev = "spi" /\ due' = 0
                  /\ cl' = Call("block", n, 0) \/ cl' = Call("it", n, 0)
               \/ pc' = "spi_ask" /\ dev = "spi" /\ cl' = Call("block", n, n) /\ due' = 0
               \/ /\ (pc' = "spi_command" /\ dev = "spi") \/ pc' = "spi_take"
                  /\ cl' = Call("block", 0, n) /\ due' = n
         \/ /\ tx' = Started(n) /\ rx' = rx /\ due' = 0 /\ cl' = cl
            /\ \/ pc' = pc /\ en' = en \cup {"tx"}
               \/ pc' = "slave_fill" /\ en' = en
         \/ /\ rx' = Started(n) /\ tx' = tx /\ due' = n /\ cl' = cl
            /\ pc' = pc /\ en' = en \cup {"rx"}
  PROVE  IInv'
<1> USE DEF IInv
<1>1. pc = "idle" /\ isr = "idle" /\ en = {} /\ ~tx.busy /\ ~rx.busy
  BY SpiCalled
<1>2. MaxSize \in Nat /\ n \in Nat /\ n > 0 /\ n <= MaxSize
  BY Limits
<1>3. Started(n) \in Handles /\ Started(n).count = 0 /\ Started(n).size = n /\ Started(n).busy
  BY <1>2 DEF Started, Handles
<1>4. \A m \in {0, n}, k \in {0, n}, kind \in {"block", "it"} :
        /\ Call(kind, m, k) \in [kind : CallKinds, left : Nat, got : Nat]
        /\ Call(kind, m, k).kind = kind /\ Call(kind, m, k).left = m /\ Call(kind, m, k).got = k
  BY <1>2 DEF Call, CallKinds
<1>5. CASE UNCHANGED <<tx, rx, en>> /\ pc' # "idle"
  <2>1. /\ cl' \in [kind : CallKinds, left : Nat, got : Nat] /\ cl'.kind \in {"block", "it"}
        /\ pc' = "spi_prefix" => cl'.left = n
        /\ due' = IF pc' \in Asking THEN cl'.got - cl'.left ELSE 0
        /\ pc' \in {"spi_send", "spi_take", "spi_ask", "spi_prefix", "spi_command"}
        /\ dev = "slave" => pc' \in {"spi_send", "spi_take"}
    BY <1>1, <1>2, <1>3, <1>4, <1>5 DEF Asking
  <2>2. HandleType' /\ CallType'
    BY <1>5, <2>1 DEF HandleType, CallType
  <2>3. SpiInv'
    BY <1>1, <1>5, <2>1 DEF Control, SpiInv, SpiExpected, IsSpi
  <2> QED BY <2>2, <2>3, SpiKept
<1>6. CASE tx' = Started(n) /\ rx' = rx /\ due' = 0 /\ cl' = cl
  <2>1. HandleType' /\ CallType'
    BY <1>1, <1>3, <1>6 DEF HandleType, CallType
  <2>2. SpiInv'
    BY <1>1, <1>2, <1>3, <1>6 DEF Control, SpiInv, SpiExpected, IsSpi, Asking
  <2> QED BY <2>1, <2>2, SpiKept
<1>7. CASE rx' = Started(n) /\ tx' = tx /\ due' = n /\ cl' = cl
  <2>1. HandleType' /\ CallType'
    BY <1>1, <1>3, <1>7 DEF HandleType, CallType
  <2>2. SpiInv'
    BY <1>1, <1>2, <1>3, <1>7 DEF Control, SpiInv, SpiExpected, IsSpi, Asking
  <2> QED BY <2>1, <2>2, SpiKept
<1> QED BY <1>1, <1>3, <1>5, <1>6, <1>7

LEMMA OneIs ==
  ASSUME NEW S, NEW c \in S
  PROVE  <<c>> \in Seq(S) /\ Len(<<c>>) = 1 /\ DOMAIN <<c>> = {1} /\ <<c>>[1] = c
OBVIOUS

LEMMA SpiCallSteps ==
  ASSUME IInv, Waits = TRUE, SpiCalls
  PROVE  IInv'
<1>1. IsSpi /\ MayCall /\ isr' = isr /\ ret' = ret /\ dev' = dev /\ abrt' = abrt /\ out' = out
  BY DEF SpiCalls, SpiTransmitX1, SpiTransmitX1IT, SpiReceiveX1, SpiTransmitX2X4X8, SpiReadFlash, SpiReadFlashIT,
         SlaveTransmit, SlaveReceive, SlaveTransmitIT, SlaveReceiveIT, IsSpi, thread
<1>2. LineType /\ Balance /\ Written = 0 /\ due = 0 /\ ~abrt /\ dev \notin {"uart1", "i2c"}
      /\ ~tx.busy /\ ~rx.busy /\ owed \in Nat /\ out' \in Nat
      /\ abrt' \in BOOLEAN /\ ~abrt'
  BY <1>1, SpiCalled DEF IInv, LineType
<1> DEFINE W == <<Cmd("w", FALSE)>>
<1>3. /\ W \in Seq(Cmds) /\ Len(W) = 1 /\ \A i \in DOMAIN W : W[i].op # "r"
      /\ <<>> \in Seq(Cmds) /\ Len(<<>>) = 0 /\ DOMAIN <<>> = {}
  <2>1. Cmd("w", FALSE) \in Cmds /\ Cmd("w", FALSE).op = "w"
    BY CmdIs
  <2>2. W \in Seq(Cmds) /\ Len(W) = 1 /\ DOMAIN W = {1} /\ W[1] = Cmd("w", FALSE)
    BY <2>1, OneIs
  <2> HIDE DEF W
  <2>3. <<>> \in Seq(Cmds) /\ Len(<<>>) = 0 /\ DOMAIN <<>> = {}
    OBVIOUS
  <2> QED BY <2>1, <2>2, <2>3
<1> HIDE DEF W
<1>4. \A n \in Sizes : n \in 0 .. MaxSize /\ n \in Nat
  BY Limits
<1>5. 0 \in 0 .. MaxSize
  BY Limits
<1>6. ASSUME Reset, owed' = owed, due' \in Nat, dev = "spi" => due' = 0
      PROVE  LineType' /\ Balance'
  <2>1. Reenable(<<>>, 0) /\ owed' = owed + Len(<<>>)
    BY <1>2, <1>3, <1>6 DEF Reset
  <2>2. /\ <<>> \in Seq(Cmds) /\ \A i \in DOMAIN <<>> : <<>>[i].op # "r"
        /\ Len(<<>>) <= 2
    BY <1>3
  <2>3. dev \in {"spi", "i2c"} => due' = due + 0
    BY <1>2, <1>6
  <2> QED BY <1>1, <1>2, <1>5, <1>6, <2>1, <2>2, <2>3, ReenableStep
<1>7. ASSUME NEW n \in 0 .. MaxSize, dev = "spi", Reenable(W, n), owed' = owed + 1, due' = due + n
      PROVE  LineType' /\ Balance'
  <2>1. due' \in Nat
    BY <1>2, <1>7, Limits
  <2>2. Len(W) <= 2 /\ owed' = owed + Len(W)
    BY <1>3, <1>7
  <2> QED BY <1>1, <1>2, <1>3, <1>7, <2>1, <2>2, ReenableStep
<1>8. PICK n \in Sizes :
        \/ SpiTransmitX1(n) \/ SpiTransmitX1IT(n) \/ SpiReceiveX1(n)
        \/ SpiTransmitX2X4X8("block", n) \/ SpiTransmitX2X4X8("it", n)
        \/ SpiReadFlash(n) \/ SpiReadFlashIT(n)
        \/ SlaveTransmit(n) \/ SlaveReceive(n) \/ SlaveTransmitIT(n) \/ SlaveReceiveIT(n)
  BY DEF SpiCalls
<1>9. n \in 0 .. MaxSize /\ n \in Nat
  BY <1>4
<1>10. CASE SpiTransmitX1(n) \/ SpiReceiveX1(n) \/ SlaveTransmit(n)
  <2>1. LineType' /\ Balance' /\ due' = 0
    BY <1>2, <1>6, <1>10 DEF SpiTransmitX1, SpiReceiveX1, SlaveTransmit
  <2> QED BY <1>1, <1>10, <2>1, SpiBegins DEF SpiTransmitX1, SpiReceiveX1, SlaveTransmit, handle
<1>11. CASE SpiTransmitX1IT(n) \/ SlaveTransmitIT(n)
  <2>1. LineType' /\ Balance' /\ due' = 0
    BY <1>2, <1>6, <1>11 DEF SpiTransmitX1IT, SlaveTransmitIT
  <2> QED BY <1>1, <1>11, <2>1, SpiBegins DEF SpiTransmitX1IT, SlaveTransmitIT, thread
<1>12. CASE SlaveReceive(n) \/ SlaveReceiveIT(n)
  <2>1. due' = n /\ owed' = owed /\ dev = "slave" /\ Reset
    BY <1>2, <1>9, <1>12 DEF SlaveReceive, SlaveReceiveIT
  <2>2. LineType' /\ Balance'
    BY <1>6, <1>9, <2>1
  <2> QED BY <1>1, <1>12, <2>1, <2>2, SpiBegins DEF SlaveReceive, SlaveReceiveIT, handle, thread
<1>13. CASE SpiTransmitX2X4X8("block", n) \/ SpiTransmitX2X4X8("it", n)
  <2>1. dev = "spi" /\ Reenable(W, 0) /\ owed' = owed + 1 /\ due' = due + 0 /\ due' = 0
    BY <1>2, <1>13 DEF SpiTransmitX2X4X8, W
  <2>2. LineType' /\ Balance'
    BY <1>5, <1>7, <2>1
  <2> QED BY <1>1, <1>13, <2>1, <2>2, SpiBegins DEF SpiTransmitX2X4X8, handle
<1>14. CASE SpiReadFlash(n) \/ SpiReadFlashIT(n)
  <2>1. dev = "spi" /\ Reenable(W, n) /\ owed' = owed + 1 /\ due' = due + n /\ due' = n
    BY <1>2, <1>9, <1>14 DEF SpiReadFlash, SpiReadFlashIT, W
  <2>2. LineType' /\ Balance'
    BY <1>7, <1>9, <2>1
  <2> QED BY <1>1, <1>14, <2>1, <2>2, SpiBegins DEF SpiReadFlash, SpiReadFlashIT, handle, thread
<1> QED BY <1>8, <1>10, <1>11, <1>12, <1>13, <1>14

LEMMA SpiPrefixStep ==
  ASSUME IInv, SpiPrefix
  PROVE  IInv'
<1> USE DEF IInv
<1>1. /\ pc = "spi_prefix" /\ isr = "idle" /\ LineIdle /\ Reset
      /\ UNCHANGED <<dev, rx, abrt, out, owed, due, isr, cl, ret>>
  BY DEF SpiPrefix, ThreadAt, MayRun
<1>2. IsSpi /\ dev = "spi" /\ ~abrt
  BY <1>1, Whose DEF Control, SpiInv, IsSpi
<1>3. ~rx.busy /\ en = {} /\ due = 0 /\ cl.left \in Sizes
  BY <1>1, <1>2 DEF Control, SpiInv, SpiExpected, Asking
<1>4. Written = 0 /\ 0 \in 0 .. MaxSize /\ owed \in Nat /\ out \in Nat /\ abrt \in BOOLEAN
  BY <1>1, CountIdle, Limits DEF LineType
<1>5. LineType' /\ Balance'
  <2>1. Reenable(<<>>, 0) /\ owed' = owed + Len(<<>>)
    BY <1>1, <1>4 DEF Reset
  <2>2. /\ <<>> \in Seq(Cmds) /\ \A i \in DOMAIN <<>> : <<>>[i].op # "r"
        /\ Len(<<>>) <= 2
    OBVIOUS
  <2>3. due' = due + 0 /\ due' \in Nat
    BY <1>1, <1>3
  <2> QED BY <1>1, <1>2, <1>3, <1>4, <2>1, <2>2, <2>3, ReenableStep
<1>6. CallType'
  BY <1>1 DEF CallType
<1>7. MaxSize \in Nat /\ cl.left \in Nat /\ cl.left > 0 /\ cl.left <= MaxSize
  BY <1>3, Limits
<1>8. Started(cl.left) \in Handles /\ Started(cl.left).count = 0 /\ Started(cl.left).size = cl.left /\ Started(cl.left).busy
  BY <1>7 DEF Started, Handles
<1>9. CASE pc' = "spi_send" /\ UNCHANGED <<tx, en>>
  <2>1. HandleType' /\ SpiInv'
    BY <1>1, <1>2, <1>3, <1>9 DEF HandleType, Control, SpiInv, SpiExpected, IsSpi, Asking
  <2> QED BY <1>1, <1>2, <1>5, <1>6, <2>1, SpiKept
<1>10. CASE pc' = "idle" /\ tx' = Started(cl.left) /\ en' = en \cup {"tx"}
  <2>1. HandleType' /\ SpiInv'
    BY <1>1, <1>2, <1>3, <1>7, <1>8, <1>10 DEF HandleType, Control, SpiInv, SpiExpected, IsSpi, Asking
  <2> QED BY <1>1, <1>2, <1>5, <1>6, <2>1, SpiKept
<1> QED BY <1>9, <1>10 DEF SpiPrefix

\* A frame of a transfer by interrupt goes into the FIFO.
LEMMA Counts ==
  ASSUME NEW h \in Handles, h.count < h.size, NEW b \in BOOLEAN,
         NEW g, g = [h EXCEPT !.count = @ + 1, !.busy = b]
  PROVE  g \in Handles /\ g.size = h.size /\ g.count = h.count + 1 /\ g.count <= g.size /\ g.busy = b
<1>1. h.count \in Nat /\ h.size \in Nat /\ MaxSize \in Nat /\ h.count + 1 \in 0 .. MaxSize
      /\ h.count + 1 <= h.size
  BY Limits DEF Handles
<1>2. g.size = h.size
  BY DEF Handles
<1>3. g.count = h.count + 1
  BY DEF Handles
<1>4. g.busy = b
  BY DEF Handles
<1>5. g \in Handles
  BY <1>1 DEF Handles
<1> QED BY <1>1, <1>2, <1>3, <1>4, <1>5

LEMMA TxCounts ==
  ASSUME tx \in Handles, tx.count < tx.size,
         tx' = [tx EXCEPT !.count = @ + 1, !.busy = tx.count + 1 < tx.size]
  PROVE  /\ tx' \in Handles /\ tx'.size = tx.size /\ tx'.count = tx.count + 1 /\ tx'.count <= tx'.size
         /\ tx'.busy = (tx.count + 1 < tx.size)
<1> DEFINE b == tx.count + 1 < tx.size
<1>1. b \in BOOLEAN /\ tx' = [tx EXCEPT !.count = @ + 1, !.busy = b]
  OBVIOUS
<1> HIDE DEF b
<1>2. /\ tx' \in Handles /\ tx'.size = tx.size /\ tx'.count = tx.count + 1 /\ tx'.count <= tx'.size
      /\ tx'.busy = b
  BY <1>1, Counts
<1> QED BY <1>2 DEF b

LEMMA RxCounts ==
  ASSUME rx \in Handles, rx.count < rx.size,
         rx' = [rx EXCEPT !.count = @ + 1, !.busy = rx.count + 1 < rx.size]
  PROVE  /\ rx' \in Handles /\ rx'.size = rx.size /\ rx'.count = rx.count + 1 /\ rx'.count <= rx'.size
         /\ rx'.busy = (rx.count + 1 < rx.size)
<1> DEFINE b == rx.count + 1 < rx.size
<1>1. b \in BOOLEAN /\ rx' = [rx EXCEPT !.count = @ + 1, !.busy = b]
  OBVIOUS
<1> HIDE DEF b
<1>2. /\ rx' \in Handles /\ rx'.size = rx.size /\ rx'.count = rx.count + 1 /\ rx'.count <= rx'.size
      /\ rx'.busy = b
  BY <1>1, Counts
<1> QED BY <1>2 DEF b

LEMMA SlaveFillsStep ==
  ASSUME IInv, SlaveFills
  PROVE  IInv'
<1> USE DEF IInv
<1>1. /\ pc = "slave_fill" /\ isr = "idle"
      /\ UNCHANGED <<dev, rx, rxf, shift, ndf, bus, abrt, out, isr, cl, ret>>
  BY DEF SlaveFills, ThreadAt, MayRun
<1>2. IsSpi
  BY <1>1, Whose
<1>3. ~rx.busy /\ en = {} /\ due = 0 /\ tx.busy /\ tx.count < tx.size /\ ~abrt /\ CallType'
  BY <1>1, <1>2, Whose DEF Control, SpiInv, SpiExpected, Asking, CallType, IsSpi
<1>4. CASE Full
  <2>1. en' = en \cup {"tx"} /\ pc' = "idle" /\ UNCHANGED <<tx, txf, owed, due>>
    BY <1>4 DEF SlaveFills
  <2>2. LineType' /\ Balance'
    BY <1>1, <2>1, SameLine DEF line
  <2>3. HandleType' /\ SpiInv'
    BY <1>1, <1>2, <1>3, <2>1 DEF HandleType, Control, SpiInv, SpiExpected, IsSpi, Asking
  <2> QED BY <1>1, <1>2, <1>3, <2>2, <2>3, SpiKept
<1>5. CASE ~Full
  <2>1. /\ Put("w", FALSE) /\ en' = en
        /\ tx' = [tx EXCEPT !.count = @ + 1, !.busy = tx.count + 1 < tx.size]
        /\ pc' = IF tx.count + 1 < tx.size THEN pc ELSE "idle"
    BY <1>5 DEF SlaveFills
  <2>2. Len(txf) < Room
    BY <1>5, Limits DEF Full, LineType
  <2>3. LineType' /\ Balance' /\ due' = due
    BY <1>1, <2>1, <2>2, PutStep
  <2>4. /\ tx' \in Handles /\ tx'.size = tx.size /\ tx'.count = tx.count + 1 /\ tx'.count <= tx'.size
        /\ tx'.busy = (tx.count + 1 < tx.size)
    BY <1>3, <2>1, TxCounts DEF HandleType
  <2>5. HandleType' /\ SpiInv'
    <3>1. HandleType'
      BY <1>1, <2>1, <2>4 DEF HandleType
    <3>2. tx'.busy => tx'.count < tx'.size
      BY <2>4
    <3> QED BY <1>1, <1>2, <1>3, <2>1, <2>3, <2>4, <3>1, <3>2 DEF Control, SpiInv, SpiExpected, IsSpi, Asking
  <2> QED BY <1>1, <1>2, <1>3, <2>3, <2>5, SpiKept
<1> QED BY <1>4, <1>5

LEMMA SpiSendSteps ==
  ASSUME IInv, SpiSends \/ SpiSent \/ SpiAsks
  PROVE  IInv'
<1> USE DEF IInv
<1>1. /\ pc \in {"spi_send", "spi_ask"} /\ isr = "idle"
      /\ UNCHANGED <<dev, tx, rx, rxf, shift, ndf, bus, abrt, out, en, isr, ret>>
  BY DEF SpiSends, SpiSent, SpiAsks, ThreadAt, MayRun, handle, line
<1>2. IsSpi /\ ~abrt /\ HandleType' /\ cl.left \in Nat /\ cl.got \in Nat
  BY <1>1, Whose DEF IsSpi, HandleType, CallType
<1>3. ~rx.busy /\ en = {} /\ due = SpiExpected /\ (dev = "slave" => pc = "spi_send")
  BY <1>1, <1>2 DEF Control, SpiInv
<1>4. ASSUME NEW op \in {"w", "r"}, ~Full, dev = "slave" => op # "r", Put(op, FALSE)
      PROVE  LineType' /\ Balance' /\ due' = IF op = "r" THEN due + 1 ELSE due
  <2>1. Len(txf) < Room
    BY <1>4, Limits DEF Full, LineType
  <2> QED BY <1>1, <1>2, <1>4, <2>1, PutStep
<1>5. cl.left > 0 => /\ [cl EXCEPT !.left = @ - 1] \in [kind : CallKinds, left : Nat, got : Nat]
                     /\ [cl EXCEPT !.left = @ - 1].kind = cl.kind
                     /\ [cl EXCEPT !.left = @ - 1].left = cl.left - 1
                     /\ [cl EXCEPT !.left = @ - 1].got = cl.got
  BY DEF CallType
<1>6. CASE SpiSends
  <2>1. pc = "spi_send" /\ pc' = pc /\ cl.left > 0 /\ cl' = [cl EXCEPT !.left = @ - 1] /\ ~Full /\ Put("w", FALSE)
    BY <1>6 DEF SpiSends, ThreadAt
  <2>2. LineType' /\ Balance' /\ due' = due
    BY <1>4, <2>1
  <2>3. CallType'
    BY <1>1, <1>5, <2>1 DEF CallType
  <2>4. SpiInv'
    BY <1>1, <1>2, <1>3, <2>1, <2>2 DEF Control, SpiInv, SpiExpected, IsSpi, Asking
  <2> QED BY <1>1, <1>2, <2>2, <2>3, <2>4, SpiKept
<1>7. CASE SpiSent
  <2>1. pc = "spi_send" /\ pc' = "idle" /\ cl' = cl /\ UNCHANGED line /\ due' = due
    BY <1>7 DEF SpiSent, ThreadAt, line
  <2>2. LineType' /\ Balance' /\ CallType'
    BY <1>1, <2>1, SameLine DEF CallType
  <2>3. SpiInv'
    BY <1>1, <1>2, <1>3, <2>1 DEF Control, SpiInv, SpiExpected, IsSpi, Asking
  <2> QED BY <1>1, <1>2, <2>2, <2>3, SpiKept
<1>8. CASE SpiAsks
  <2>1. pc = "spi_ask" /\ pc' = "spi_take"
    BY <1>8 DEF SpiAsks, ThreadAt
  <2>2. due = cl.got - cl.left /\ dev = "spi"
    BY <1>2, <1>3, <2>1 DEF SpiExpected, Asking, IsSpi
  <2>3. CASE cl.left > 0 /\ ~Full
    <3>1. Put("r", FALSE) /\ cl' = [cl EXCEPT !.left = @ - 1]
      BY <1>8, <2>3 DEF SpiAsks
    <3>2. LineType' /\ Balance' /\ due' = due + 1
      BY <1>4, <2>2, <2>3, <3>1
    <3>3. CallType' /\ cl'.left = cl.left - 1 /\ cl'.got = cl.got
      BY <1>1, <1>5, <2>3, <3>1 DEF CallType
    <3>4. due' = cl'.got - cl'.left
      BY <1>2, <2>2, <3>2, <3>3
    <3>5. SpiInv'
      BY <1>1, <1>2, <1>3, <2>1, <2>2, <3>4 DEF Control, SpiInv, SpiExpected, IsSpi, Asking
    <3> QED BY <1>1, <1>2, <3>2, <3>3, <3>5, SpiKept
  <2>4. CASE ~(cl.left > 0 /\ ~Full)
    <3>1. UNCHANGED <<txf, owed, due, cl>>
      BY <1>8, <2>4 DEF SpiAsks
    <3>2. LineType' /\ Balance' /\ CallType'
      BY <1>1, <3>1, SameLine DEF CallType, line
    <3>3. SpiInv'
      BY <1>1, <1>2, <1>3, <2>1, <2>2, <3>1 DEF Control, SpiInv, SpiExpected, IsSpi, Asking
    <3> QED BY <1>1, <1>2, <3>2, <3>3, SpiKept
  <2> QED BY <2>3, <2>4
<1> QED BY <1>6, <1>7, <1>8

LEMMA SpiTakeSteps ==
  ASSUME IInv, SpiCommanded \/ SpiTakes \/ SpiTakesNone
  PROVE  IInv'
<1> USE DEF IInv
<1>1. /\ pc \in {"spi_command", "spi_take", "spi_read"} /\ isr = "idle"
      /\ UNCHANGED <<dev, tx, rx, txf, shift, ndf, bus, abrt, out, owed, en, isr, ret>>
  BY DEF SpiCommanded, SpiTakes, SpiTakesNone, ThreadAt, MayRun, handle, line
<1>2. IsSpi /\ ~IsUart /\ HandleType' /\ cl.left \in Nat /\ cl.got \in Nat
  BY <1>1, Whose DEF IsSpi, IsUart, HandleType, CallType
<1>3. /\ ~rx.busy /\ en = {} /\ due = cl.got - cl.left /\ (dev = "slave" => pc = "spi_take")
  BY <1>1, <1>2 DEF Control, SpiInv, SpiExpected, Asking
<1>4. CASE SpiCommanded
  <2>1. pc = "spi_command" /\ pc' = "spi_read" /\ cl' = cl /\ UNCHANGED line /\ due' = due
    BY <1>4 DEF SpiCommanded, ThreadAt, line
  <2>2. LineType' /\ Balance' /\ CallType'
    BY <1>1, <2>1, SameLine DEF CallType
  <2>3. SpiInv'
    BY <1>1, <1>2, <1>3, <2>1 DEF Control, SpiInv, SpiExpected, IsSpi, Asking
  <2> QED BY <1>1, <1>2, <2>2, <2>3, SpiKept
<1>5. CASE SpiTakes
  <2>1. rxf > 0 /\ Taken(1) /\ cl' = [cl EXCEPT !.got = @ - 1] /\ pc' = pc
    BY <1>5 DEF SpiTakes
  <2>2. LineType' /\ Balance' /\ due > 0 /\ due' = due - 1
    BY <1>1, <1>2, <2>1, TakeStep
  <2>3. cl.got - 1 \in Nat
    BY <1>2, <1>3, <2>2
  <2>4. CallType' /\ cl'.left = cl.left /\ cl'.got = cl.got - 1
    BY <1>1, <2>1, <2>3 DEF CallType
  <2>5. due' = cl'.got - cl'.left
    BY <1>2, <1>3, <2>2, <2>4
  <2>6. SpiInv'
    BY <1>1, <1>2, <1>3, <2>1, <2>5 DEF Control, SpiInv, SpiExpected, IsSpi, Asking
  <2> QED BY <1>1, <1>2, <2>2, <2>4, <2>6, SpiKept
<1>6. CASE SpiTakesNone
  <2>1. rxf = 0 /\ UNCHANGED line /\ cl' = cl /\ due' = due
    BY <1>6 DEF SpiTakesNone, line
  <2>2. LineType' /\ Balance' /\ CallType'
    BY <1>1, <2>1, SameLine DEF CallType
  <2>3. \/ pc = "spi_take" /\ pc' = "spi_send" /\ cl.got = 0
        \/ pc = "spi_take" /\ pc' = "spi_ask" /\ dev = "spi"
        \/ pc = "spi_read" /\ pc' = "idle" /\ LineIdle
    BY <1>2, <1>6 DEF SpiTakesNone, ThreadAt
  <2>4. pc' \in {"spi_send", "idle"} => due' = 0
    <3>1. cl.got = 0 => due = 0
      BY <1>2, <1>3 DEF LineType
    <3>2. LineIdle /\ dev = "spi" => due = 0
      BY <2>1, CountIdle DEF LineIdle, Balance
    <3> QED BY <1>1, <1>2, <1>3, <2>1, <2>3, <3>1, <3>2 DEF IsSpi
  <2>5. SpiInv'
    BY <1>1, <1>2, <1>3, <2>1, <2>3, <2>4 DEF Control, SpiInv, SpiExpected, IsSpi, Asking
  <2> QED BY <1>1, <1>2, <2>2, <2>5, SpiKept
<1> QED BY <1>4, <1>5, <1>6

LEMMA SpiIsrSteps ==
  ASSUME IInv, SpiIsr
  PROVE  IInv'
<1> USE DEF IInv
<1>1. IsSpi /\ ~IsUart /\ ~abrt
  BY Whose DEF SpiIsr, SpiEnter, SpiTx, SpiRx, IsSpi, IsUart
<1>2. UNCHANGED <<dev, shift, ndf, bus, abrt, out, pc, cl, ret>> /\ CallType'
  BY DEF SpiIsr, SpiEnter, SpiTx, SpiRx, line, thread, CallType
<1>3. CASE SpiEnter
  <2>1. isr = "idle" /\ UNCHANGED <<tx, rx, line, en, due>>
        /\ \/ "tx" \in en /\ isr' = "spi_tx"
           \/ "rx" \in en /\ isr' = "spi_rx"
    BY <1>3 DEF SpiEnter, handle, line
  <2>2. LineType' /\ Balance' /\ HandleType'
    BY <1>2, <2>1, SameLine DEF HandleType
  <2>3. SpiInv'
    BY <1>1, <1>2, <2>1 DEF Control, SpiInv, SpiExpected, IsSpi
  <2> QED BY <1>1, <1>2, <2>2, <2>3, SpiKept
<1>4. CASE SpiTx
  <2>1. isr = "spi_tx" /\ UNCHANGED <<rx, rxf>>
    BY <1>4 DEF SpiTx
  <2>2. "tx" \in en /\ tx.busy /\ tx.count < tx.size /\ pc = "idle"
    BY <1>1, <2>1 DEF Control, SpiInv
  <2>3. CASE Full
    <3>1. isr' = "idle" /\ UNCHANGED <<tx, txf, owed, due, en>>
      BY <1>4, <2>3 DEF SpiTx
    <3>2. LineType' /\ Balance' /\ HandleType'
      BY <1>2, <2>1, <3>1, SameLine DEF HandleType, line
    <3>3. SpiInv'
      BY <1>1, <1>2, <2>1, <3>1 DEF Control, SpiInv, SpiExpected, IsSpi
    <3> QED BY <1>1, <1>2, <3>2, <3>3, SpiKept
  <2>4. CASE ~Full
    <3>1. /\ Put("w", FALSE)
          /\ tx' = [tx EXCEPT !.count = @ + 1, !.busy = tx.count + 1 < tx.size]
          /\ IF tx.count + 1 < tx.size THEN UNCHANGED <<isr, en>>
             ELSE isr' = "idle" /\ en' = en \ {"tx"}
      BY <1>4, <2>4 DEF SpiTx
    <3>2. Len(txf) < Room
      BY <2>4, Limits DEF Full, LineType
    <3>3. LineType' /\ Balance' /\ due' = due
      BY <1>1, <1>2, <2>1, <3>1, <3>2, PutStep
    <3>4. /\ tx' \in Handles /\ tx'.size = tx.size /\ tx'.count = tx.count + 1 /\ tx'.count <= tx'.size
          /\ tx'.busy = (tx.count + 1 < tx.size)
      BY <2>2, <3>1, TxCounts DEF HandleType
    <3>5. HandleType' /\ (tx'.busy => tx'.count < tx'.size)
      BY <2>1, <3>1, <3>4 DEF HandleType
    <3>6. SpiInv'
      BY <1>1, <1>2, <2>1, <2>2, <3>1, <3>3, <3>4, <3>5 DEF Control, SpiInv, SpiExpected, IsSpi
    <3> QED BY <1>1, <1>2, <3>3, <3>5, <3>6, SpiKept
  <2> QED BY <2>3, <2>4
<1>5. CASE SpiRx
  <2>1. isr = "spi_rx" /\ UNCHANGED <<tx, txf, owed>>
    BY <1>5 DEF SpiRx
  <2>2. /\ "rx" \in en /\ rx.busy /\ rx.count < rx.size /\ pc = "idle" /\ due = rx.size - rx.count
        /\ rx.size \in Nat /\ rx.count \in Nat
    BY <1>1, <2>1 DEF Control, SpiInv, SpiExpected, HandleType, Handles
  <2>3. CASE rxf = 0
    <3>1. isr' = "idle" /\ UNCHANGED <<rx, rxf, due, en>>
      BY <1>5, <2>3 DEF SpiRx
    <3>2. LineType' /\ Balance' /\ HandleType'
      BY <1>2, <2>1, <3>1, SameLine DEF HandleType, line
    <3>3. SpiInv'
      BY <1>1, <1>2, <2>1, <3>1 DEF Control, SpiInv, SpiExpected, IsSpi
    <3> QED BY <1>1, <1>2, <3>2, <3>3, SpiKept
  <2>4. CASE rxf # 0
    <3>1. /\ Taken(1)
          /\ rx' = [rx EXCEPT !.count = @ + 1, !.busy = rx.count + 1 < rx.size]
          /\ IF rx.count + 1 < rx.size THEN UNCHANGED <<isr, en>>
             ELSE isr' = "idle" /\ en' = en \ {"rx"}
      BY <1>5, <2>4 DEF SpiRx
    <3>2. rxf > 0
      BY <2>4, Limits DEF LineType
    <3>3. LineType' /\ Balance' /\ due' = due - 1
      BY <1>1, <1>2, <2>1, <3>1, <3>2, TakeStep
    <3>4. /\ rx' \in Handles /\ rx'.size = rx.size /\ rx'.count = rx.count + 1 /\ rx'.count <= rx'.size
          /\ rx'.busy = (rx.count + 1 < rx.size)
      BY <2>2, <3>1, RxCounts DEF HandleType
    <3>5. HandleType'
      BY <2>1, <3>1, <3>4 DEF HandleType
    <3>6. CASE rx.count + 1 < rx.size
      <4>1. rx'.busy
        BY <3>4, <3>6
      <4>2. isr' = isr /\ en' = en
        BY <3>1, <3>6
      <4>3. rx'.count = rx.count + 1 /\ rx'.size = rx.size
        BY <3>4
      <4>4. rx'.count < rx'.size /\ due' = rx'.size - rx'.count
        BY <2>2, <3>3, <3>6, <4>3
      <4>5. rx'.busy /\ isr' = isr /\ en' = en /\ rx'.count < rx'.size /\ due' = rx'.size - rx'.count
        BY <4>1, <4>2, <4>4
      <4>6. SpiInv'
        BY <1>1, <1>2, <2>1, <2>2, <3>4, <4>5 DEF Control, SpiInv, SpiExpected, IsSpi, Asking
      <4> QED BY <1>1, <1>2, <3>3, <3>5, <4>6, SpiKept
    <3>7. CASE ~(rx.count + 1 < rx.size)
      <4>1. ~rx'.busy
        BY <3>4, <3>7
      <4>2. isr' = "idle" /\ en' = en \ {"rx"}
        BY <3>1, <3>7
      <4>3. due' = 0
        BY <2>2, <3>3, <3>7
      <4>4. ~rx'.busy /\ isr' = "idle" /\ en' = en \ {"rx"} /\ due' = 0
        BY <4>1, <4>2, <4>3
      <4>5. SpiInv'
        BY <1>1, <1>2, <2>1, <2>2, <3>4, <4>4 DEF Control, SpiInv, SpiExpected, IsSpi, Asking
      <4> QED BY <1>1, <1>2, <3>3, <3>5, <4>5, SpiKept
    <3> QED BY <3>6, <3>7
  <2> QED BY <2>3, <2>4
<1> QED BY <1>3, <1>4, <1>5 DEF SpiIsr

-----------------------------------------------------------------------------
(* The steps of the I2C driver: blocking calls. *)

LEMMA I2cKept ==
  ASSUME IInv, dev = "i2c", dev' = dev, LineType', Balance', HandleType', CallType', I2cInv', ResultInv'
  PROVE  IInv'
BY DEF IInv, Control, UartInv, SpiInv, IsUart, IsSpi

\* A call finds nothing owed, nothing due and no interrupt enabled.
LEMMA I2cCalled ==
  ASSUME IInv, dev = "i2c", pc = "idle", ~tx.busy, ~rx.busy, LineIdle
  PROVE  en = {} /\ Written = 0 /\ due = 0 /\ owed = 0
<1>1. en = {} /\ due = 0
  BY DEF IInv, HandleType, LineType, Control, I2cInv, I2cExpected, Blocking
<1> QED BY <1>1, CountIdle DEF IInv, Balance

LEMMA Kinds ==
  /\ Reads \cap Writes = {} /\ ChecksAtEnd \subseteq Writes /\ ChecksAtEnd \cap ChecksAddress = {}
  /\ "it" \notin Reads \cup Writes /\ Reads \cup Writes \subseteq CallKinds /\ "it" \in CallKinds
BY DEF Reads, Writes, ChecksAtEnd, ChecksAddress, CallKinds

LEMMA CallIs ==
  ASSUME NEW kind \in CallKinds, NEW m \in Nat, NEW k \in Nat
  PROVE  /\ Call(kind, m, k) \in [kind : CallKinds, left : Nat, got : Nat]
         /\ Call(kind, m, k).kind = kind /\ Call(kind, m, k).left = m /\ Call(kind, m, k).got = k
BY DEF Call

\* A call queues one more frame, or gets one.
LEMMA CallCounts ==
  ASSUME CallType
  PROVE  /\ cl.left \in Nat /\ cl.got \in Nat /\ cl.kind \in CallKinds
         /\ cl.left > 0 => /\ [cl EXCEPT !.left = @ - 1] \in [kind : CallKinds, left : Nat, got : Nat]
                           /\ [cl EXCEPT !.left = @ - 1].kind = cl.kind
                           /\ [cl EXCEPT !.left = @ - 1].left = cl.left - 1
                           /\ [cl EXCEPT !.left = @ - 1].got = cl.got
         /\ cl.got > 0 => /\ [cl EXCEPT !.got = @ - 1] \in [kind : CallKinds, left : Nat, got : Nat]
                          /\ [cl EXCEPT !.got = @ - 1].kind = cl.kind
                          /\ [cl EXCEPT !.got = @ - 1].left = cl.left
                          /\ [cl EXCEPT !.got = @ - 1].got = cl.got - 1
BY DEF CallType

LEMMA ConstSeq ==
  ASSUME NEW S, NEW c \in S, NEW m \in Nat
  PROVE  [i \in 1 .. m |-> c] \in Seq(S) /\ Len([i \in 1 .. m |-> c]) = m
OBVIOUS

LEMMA I2cCallStep ==
  ASSUME IInv, Waits = TRUE, NEW kind \in Reads \cup Writes, NEW n \in Sizes, I2cCall(kind, n)
  PROVE  IInv'
<1> USE DEF IInv
<1>1. /\ dev = "i2c" /\ MayCall /\ pc' = "address" /\ ret' = FALSE /\ out' = 0
      /\ UNCHANGED <<dev, tx, rx, abrt, due, en, isr>>
  BY DEF I2cCall, handle
<1>2. pc = "idle" /\ isr = "idle" /\ ~tx.busy /\ ~rx.busy /\ LineIdle
  BY <1>1 DEF MayCall, ThreadAt, MayRun
<1>3. en = {} /\ Written = 0 /\ due = 0 /\ owed = 0 /\ abrt \in BOOLEAN
  BY <1>1, <1>2, I2cCalled DEF LineType
<1>4. n \in Nat /\ n > 0 /\ 0 \in 0 .. MaxSize
  BY Limits
<1> DEFINE A == Address(kind)
           cmds == IF abrt THEN <<>> ELSE [i \in 1 .. A |-> Cmd("w", FALSE)]
<1>5. A \in {0, 2}
  BY DEF Address
<1> HIDE DEF A
<1>6. /\ cmds \in Seq(Cmds) /\ Len(cmds) = (IF abrt THEN 0 ELSE A)
      /\ \A i \in DOMAIN cmds : cmds[i].op = "w"
  <2>1. Cmd("w", FALSE) \in Cmds /\ Cmd("w", FALSE).op = "w"
    BY CmdIs
  <2>2. CASE abrt
    BY <2>2
  <2>3. CASE ~abrt
    <3>1. cmds = [i \in 1 .. A |-> Cmd("w", FALSE)] /\ A \in Nat
      BY <1>5, <2>3
    <3>2. cmds \in Seq(Cmds) /\ Len(cmds) = A
      BY <2>1, <3>1, ConstSeq
    <3> HIDE DEF cmds
    <3> QED BY <2>1, <2>3, <3>1, <3>2
  <2> QED BY <2>2, <2>3
<1>7. Reenable(cmds, 0) /\ owed' = owed + Len(cmds)
  <2>1. Reenable(cmds, 0) /\ owed' = IF abrt THEN owed ELSE owed + A
    BY DEF I2cCall, A
  <2> QED BY <1>3, <1>5, <1>6, <2>1
<1> HIDE DEF cmds
<1>8. LineType' /\ Balance'
  <2>1. Len(cmds) <= 2 /\ \A i \in DOMAIN cmds : cmds[i].op # "r"
    BY <1>5, <1>6
  <2>2. out' \in Nat /\ due' \in Nat /\ due' = due + 0 /\ dev # "uart1" /\ abrt' \in BOOLEAN
    BY <1>1, <1>3
  <2> QED BY <1>1, <1>3, <1>4, <1>6, <1>7, <2>1, <2>2, ReenableStep
<1>9. /\ cl' \in [kind : CallKinds, left : Nat, got : Nat] /\ cl'.kind = kind /\ cl'.left = n
      /\ cl'.got = IF kind \in Reads THEN n ELSE n + A
  <2>1. (IF kind \in Reads THEN n ELSE n + A) \in Nat /\ kind \in CallKinds
    BY <1>4, <1>5 DEF CallKinds
  <2>2. cl' = Call(kind, n, IF kind \in Reads THEN n ELSE n + A)
    BY DEF I2cCall, A
  <2> QED BY <1>4, <2>1, <2>2, CallIs
<1>10. HandleType' /\ CallType'
  BY <1>1, <1>9 DEF HandleType, CallType
<1>11. I2cInv'
  <2>1. I2cExpected' = 0
    BY <1>1, <1>2, <1>4, <1>9 DEF I2cExpected
  <2> HIDE DEF I2cExpected
  <2> QED BY <1>1, <1>2, <1>3, <1>4, <1>9, <2>1 DEF Control, I2cInv, Blocking
<1>12. ResultInv'
  <2>1. OnLine' \subseteq {"w", "none"}
    <3>1. txf' = cmds /\ shift'.op = "none"
      BY <1>7 DEF Reenable, NoCmd, Cmd
    <3> QED BY <1>6, <3>1 DEF OnLine
  <2>2. kind \in ChecksAtEnd /\ ~abrt' => out' + owed' + cl'.left = cl'.got
    BY <1>1, <1>3, <1>4, <1>5, <1>6, <1>7, <1>9, Kinds
  <2> QED BY <1>1, <1>9, <2>1, <2>2 DEF ResultInv, Accounted
<1> QED BY <1>1, <1>8, <1>10, <1>11, <1>12, I2cKept

\* A call that fails has abandoned what was on the line.
LEMMA FailStep ==
  ASSUME IInv, dev = "i2c", isr = "idle", pc \in Blocking, Fail
  PROVE  IInv'
<1> USE DEF IInv
<1>1. Abandoned /\ ret' = FALSE /\ pc' = "idle" /\ UNCHANGED <<dev, tx, rx, out, en, isr, cl>>
  BY DEF Fail, handle
<1>2. LineType' /\ Balance' /\ due' = 0
  BY <1>1, AbandonedStep
<1>3. ~rx.busy /\ ~tx.busy /\ en = {}
  BY DEF Control, I2cInv, Blocking
<1>4. HandleType' /\ CallType'
  BY <1>1 DEF HandleType, CallType
<1>5. I2cInv'
  BY <1>1, <1>2, <1>3 DEF Control, I2cInv, I2cExpected, Blocking
<1>6. ResultInv'
  BY <1>1 DEF ResultInv, Accounted
<1> QED BY <1>1, <1>2, <1>4, <1>5, <1>6, I2cKept

LEMMA AddressSentStep ==
  ASSUME IInv, AddressSent
  PROVE  IInv'
<1> USE DEF IInv
<1>1. pc = "address" /\ isr = "idle" /\ dev = "i2c" /\ pc \in Blocking
  BY Whose DEF AddressSent, ThreadAt, MayRun, Blocking
<1>2. /\ ~rx.busy /\ ~tx.busy /\ en = {} /\ cl.kind \in Reads \cup Writes /\ cl.left > 0
      /\ cl.left \in Nat /\ cl.got \in Nat
      /\ due <= IF cl.kind \in Reads THEN cl.got - cl.left ELSE 0
  BY <1>1, CallCounts DEF Control, I2cInv, I2cExpected, Blocking
<1>3. CASE cl.kind \in ChecksAddress /\ abrt
  BY <1>1, <1>3, FailStep DEF AddressSent
<1>4. CASE ~(cl.kind \in ChecksAddress /\ abrt)
  <2>1. /\ UNCHANGED <<dev, tx, rx, rxf, shift, ndf, bus, abrt, out, en, isr, ret>>
        /\ pc' = IF cl'.left > 1 THEN "body" ELSE "last"
    BY <1>4 DEF AddressSent, handle
  <2>2. CASE cl.kind \in {"mem_read", "sensor_read"} /\ cl.left > 1
    <3>1. Put("r", FALSE) /\ cl' = [cl EXCEPT !.left = @ - 1] /\ txf = <<>>
      BY <1>4, <2>2 DEF AddressSent
    <3>2. Len(txf) < Room
      BY <3>1, Limits
    <3>3. LineType' /\ Balance' /\ due' <= due + 1
      <4>1. LineType' /\ Balance' /\ due' = IF ~abrt THEN due + 1 ELSE due
        BY <1>1, <2>1, <3>1, <3>2, PutStep
      <4> QED BY <4>1 DEF LineType
    <3>4. cl' \in [kind : CallKinds, left : Nat, got : Nat] /\ cl'.kind = cl.kind /\ cl'.left = cl.left - 1 /\ cl'.got = cl.got
      BY <1>2, <3>1, CallCounts
    <3>5. HandleType' /\ CallType'
      BY <1>1, <2>1, <3>4 DEF HandleType, CallType
    <3>6. cl.kind \in Reads /\ cl.kind \notin ChecksAtEnd
      BY <2>2 DEF Reads, ChecksAtEnd
    <3>7. I2cExpected' = cl.got - cl.left + 1
      BY <1>2, <2>1, <3>4, <3>6 DEF I2cExpected, Blocking
    <3>8. due' <= I2cExpected'
      <4>1. due \in Nat /\ due' \in Nat /\ due <= cl.got - cl.left
        BY <1>2, <3>3, <3>6 DEF LineType
      <4> HIDE DEF I2cExpected
      <4> QED BY <1>2, <3>3, <3>7, <4>1
    <3> HIDE DEF I2cExpected
    <3>9. I2cInv'
      BY <1>1, <1>2, <2>1, <2>2, <3>4, <3>8 DEF Control, I2cInv, Blocking
    <3>10. ResultInv'
      BY <2>1, <3>4, <3>6 DEF ResultInv
    <3> QED BY <1>1, <2>1, <3>3, <3>5, <3>9, <3>10, I2cKept
  <2>3. CASE ~(cl.kind \in {"mem_read", "sensor_read"} /\ cl.left > 1)
    <3>1. UNCHANGED <<txf, owed, due, cl>>
      BY <1>4, <2>3 DEF AddressSent
    <3>2. LineType' /\ Balance' /\ OnLine' = OnLine
      BY <2>1, <3>1, SameLine DEF line
    <3>3. HandleType' /\ CallType'
      BY <2>1, <3>1 DEF HandleType, CallType
    <3>4. I2cInv'
      BY <1>1, <1>2, <2>1, <3>1 DEF Control, I2cInv, I2cExpected, Blocking
    <3>5. ResultInv'
      BY <1>1, <2>1, <3>1, <3>2 DEF Control, ResultInv, Accounted
    <3> QED BY <1>1, <2>1, <3>2, <3>3, <3>4, <3>5, I2cKept
  <2> QED BY <2>2, <2>3
<1> QED BY <1>3, <1>4

LEMMA WriteOneStep ==
  ASSUME IInv, WriteOne
  PROVE  IInv'
<1> USE DEF IInv
<1>1. pc = "body" /\ isr = "idle" /\ dev = "i2c" /\ pc \in Blocking /\ cl.kind \in Writes
  BY Whose DEF WriteOne, ThreadAt, MayRun, Blocking
<1>2. /\ ~rx.busy /\ ~tx.busy /\ en = {} /\ cl.left > 1 /\ cl.left \in Nat /\ cl.got \in Nat /\ cl.kind \notin Reads
      /\ due <= 0
  BY <1>1, CallCounts, Kinds DEF Control, I2cInv, I2cExpected, Blocking
<1>3. CASE abrt
  BY <1>1, <1>3, FailStep DEF WriteOne
<1>4. CASE ~abrt
  <2>1. /\ UNCHANGED <<dev, tx, rx, rxf, shift, ndf, bus, abrt, out, en, isr, ret>>
        /\ pc' = IF cl'.left > 1 THEN "body" ELSE "last"
    BY <1>4 DEF WriteOne, handle
  <2>2. CASE Full
    <3>1. UNCHANGED <<txf, owed, due, cl>>
      BY <1>4, <2>2 DEF WriteOne, QueueOne
    <3>2. LineType' /\ Balance' /\ OnLine' = OnLine
      BY <2>1, <3>1, SameLine DEF line
    <3>3. HandleType' /\ CallType'
      BY <2>1, <3>1 DEF HandleType, CallType
    <3>4. I2cInv'
      BY <1>1, <1>2, <2>1, <3>1 DEF Control, I2cInv, I2cExpected, Blocking
    <3>5. ResultInv'
      BY <1>1, <2>1, <3>1, <3>2 DEF Control, ResultInv, Accounted
    <3> QED BY <1>1, <2>1, <3>2, <3>3, <3>4, <3>5, I2cKept
  <2>3. CASE ~Full
    <3>1. Put("w", FALSE) /\ cl' = [cl EXCEPT !.left = @ - 1]
      BY <1>4, <2>3 DEF WriteOne, QueueOne
    <3>2. Len(txf) < Room
      BY <2>3, Limits DEF Full, LineType
    <3>3. LineType' /\ Balance' /\ due' = due /\ owed' = owed + 1 /\ OnLine' \subseteq OnLine \cup {"w"}
      BY <1>1, <1>4, <2>1, <3>1, <3>2, PutStep
    <3>4. cl' \in [kind : CallKinds, left : Nat, got : Nat] /\ cl'.kind = cl.kind /\ cl'.left = cl.left - 1 /\ cl'.got = cl.got
      BY <1>2, <3>1, CallCounts
    <3>5. HandleType' /\ CallType'
      BY <1>1, <2>1, <3>4 DEF HandleType, CallType
    <3>6. I2cInv'
      BY <1>1, <1>2, <2>1, <3>3, <3>4 DEF Control, I2cInv, I2cExpected, Blocking
    <3>7. owed \in Nat /\ out \in Nat
      BY DEF LineType
    <3>8. ResultInv'
      BY <1>1, <1>2, <2>1, <3>3, <3>4, <3>7 DEF Control, ResultInv, Accounted
    <3> QED BY <1>1, <2>1, <3>3, <3>5, <3>6, <3>8, I2cKept
  <2> QED BY <2>2, <2>3
<1> QED BY <1>3, <1>4

LEMMA ReadOneStep ==
  ASSUME IInv, ReadOne
  PROVE  IInv'
<1> USE DEF IInv
<1>1. /\ pc = "body" /\ isr = "idle" /\ dev = "i2c" /\ pc \in Blocking /\ cl.kind \in Reads /\ pc' = "take"
      /\ UNCHANGED <<dev, tx, rx, rxf, shift, ndf, bus, abrt, out, en, isr, ret>>
  BY Whose DEF ReadOne, ThreadAt, MayRun, Blocking, handle
<1>2. /\ ~rx.busy /\ ~tx.busy /\ en = {} /\ cl.left > 1 /\ cl.left \in Nat /\ cl.got \in Nat
      /\ cl.kind \notin ChecksAtEnd /\ due <= cl.got - cl.left
  BY <1>1, CallCounts, Kinds DEF Control, I2cInv, I2cExpected, Blocking
<1>3. CASE Full
  <2>1. UNCHANGED <<txf, owed, due, cl>>
    BY <1>3 DEF ReadOne, QueueOne
  <2>2. LineType' /\ Balance'
    BY <1>1, <2>1, SameLine DEF line
  <2>3. HandleType' /\ CallType'
    BY <1>1, <2>1 DEF HandleType, CallType
  <2>4. I2cInv'
    BY <1>1, <1>2, <2>1 DEF Control, I2cInv, I2cExpected, Blocking
  <2>5. ResultInv'
    BY <1>1, <1>2, <2>1 DEF ResultInv
  <2> QED BY <1>1, <2>2, <2>3, <2>4, <2>5, I2cKept
<1>4. CASE ~Full
  <2>1. Put("r", FALSE) /\ cl' = [cl EXCEPT !.left = @ - 1]
    BY <1>4 DEF ReadOne, QueueOne
  <2>2. Len(txf) < Room
    BY <1>4, Limits DEF Full, LineType
  <2>3. LineType' /\ Balance' /\ due' <= due + 1
    <3>1. LineType' /\ Balance' /\ due' = IF ~abrt THEN due + 1 ELSE due
      BY <1>1, <2>1, <2>2, PutStep
    <3> QED BY <3>1 DEF LineType
  <2>4. cl' \in [kind : CallKinds, left : Nat, got : Nat] /\ cl'.kind = cl.kind /\ cl'.left = cl.left - 1 /\ cl'.got = cl.got
    BY <1>2, <2>1, CallCounts
  <2>5. HandleType' /\ CallType'
    BY <1>1, <2>4 DEF HandleType, CallType
  <2>6. I2cExpected' = cl.got - cl.left + 1
    BY <1>1, <1>2, <2>4 DEF I2cExpected, Blocking
  <2>7. due' <= I2cExpected'
    <3>1. due \in Nat /\ due' \in Nat
      BY <2>3 DEF LineType
    <3> QED BY <1>2, <2>3, <2>6, <3>1
  <2> HIDE DEF I2cExpected
  <2>8. I2cInv'
    BY <1>1, <1>2, <2>4, <2>7 DEF Control, I2cInv, Blocking
  <2>9. ResultInv'
    BY <1>1, <1>2, <2>4 DEF ResultInv
  <2> QED BY <1>1, <2>3, <2>5, <2>8, <2>9, I2cKept
<1> QED BY <1>3, <1>4

\* A frame that a blocking call takes was due to it.
LEMMA TakenStep ==
  ASSUME IInv, dev = "i2c", pc \in {"take", "drain"}, isr = "idle", rxf > 0, Taken(1),
         cl' = [cl EXCEPT !.got = @ - 1],
         \/ pc' = pc /\ (pc = "drain" => cl.got # 1)
         \/ pc = "drain" /\ cl.got = 1 /\ pc' = "wait",
         UNCHANGED <<dev, handle, txf, shift, ndf, bus, abrt, out, owed, en, isr, ret>>
  PROVE  IInv'
<1> USE DEF IInv
<1>1. UNCHANGED <<tx, rx>> /\ pc \in Blocking \ {"poll", "polled"}
  BY DEF handle, Blocking
<1>2. /\ ~rx.busy /\ ~tx.busy /\ en = {} /\ cl.left \in Nat /\ cl.got \in Nat /\ cl.kind \in Reads
      /\ cl.kind \notin ChecksAtEnd /\ due <= cl.got - cl.left
      /\ pc = "take" => cl.left > 0
      /\ pc = "drain" => cl.left = 0
  BY CallCounts, Kinds DEF Control, I2cInv, I2cExpected, Blocking
<1>3. LineType' /\ Balance' /\ due > 0 /\ due' = due - 1
  BY TakeStep DEF IsUart
<1>4. cl.got > 0 /\ due \in Nat
  BY <1>2, <1>3 DEF LineType
<1>5. cl' \in [kind : CallKinds, left : Nat, got : Nat] /\ cl'.kind = cl.kind /\ cl'.left = cl.left /\ cl'.got = cl.got - 1
  BY <1>4, CallCounts
<1>6. HandleType' /\ CallType'
  BY <1>1, <1>5 DEF HandleType, CallType
<1>7. I2cExpected' = cl.got - 1 - cl.left
  BY <1>1, <1>2, <1>5 DEF I2cExpected, Blocking
<1>8. due' <= I2cExpected'
  BY <1>2, <1>3, <1>4, <1>7
<1> HIDE DEF I2cExpected
<1>9. /\ pc' \in {"take", "drain", "wait"} /\ cl'.kind \in Reads /\ cl'.left \in Nat
      /\ pc' = "take" => cl'.left > 0
      /\ pc' \in {"drain", "wait"} => cl'.left = 0
      /\ pc' = "drain" => cl'.got > 0
      /\ pc' = "wait" => cl'.got = 0
  <2>1. cl'.kind \in Reads /\ cl'.left \in Nat /\ cl'.left = cl.left /\ cl'.got = cl.got - 1
    BY <1>2, <1>5
  <2>2. CASE pc = "take"
    BY <1>2, <2>1, <2>2
  <2>3. CASE pc = "drain" /\ cl.got = 1 /\ pc' = "wait"
    BY <1>2, <2>1, <2>3
  <2>4. CASE pc = "drain" /\ pc' = "drain" /\ cl.got # 1
    <3>1. cl.got - 1 > 0
      BY <1>2, <1>4, <2>4
    <3> QED BY <1>2, <2>1, <2>4, <3>1
  <2> QED BY <2>2, <2>3, <2>4
<1>10. I2cInv'
  BY <1>1, <1>2, <1>8, <1>9 DEF Control, I2cInv, Blocking
<1>11. ResultInv'
  BY <1>1, <1>2, <1>5, <1>9 DEF ResultInv
<1> QED BY <1>3, <1>6, <1>10, <1>11, I2cKept

LEMMA TakeAllStep ==
  ASSUME IInv, TakeAll
  PROVE  IInv'
<1> USE DEF IInv
<1>1. pc = "take" /\ isr = "idle" /\ dev = "i2c" /\ pc \in Blocking
  BY Whose DEF TakeAll, ThreadAt, MayRun, Blocking
<1>2. CASE rxf > 0
  BY <1>1, <1>2, TakenStep DEF TakeAll
<1>3. CASE ~(rxf > 0) /\ abrt
  BY <1>1, <1>3, FailStep DEF TakeAll
<1>4. CASE ~(rxf > 0) /\ ~abrt
  <2>1. pc' = Body /\ UNCHANGED <<dev, tx, rx, line, due, en, isr, cl, ret>>
    BY <1>4 DEF TakeAll, handle, line
  <2>2. LineType' /\ Balance' /\ HandleType' /\ CallType'
    BY <2>1, SameLine DEF HandleType, CallType
  <2>3. cl.left \in Nat /\ cl.left > 0 /\ cl.kind \notin ChecksAtEnd
    BY <1>1, CallCounts, Kinds DEF Control, I2cInv
  <2>4. I2cInv'
    BY <1>1, <2>1, <2>3 DEF Control, I2cInv, I2cExpected, Blocking, Body
  <2>5. ResultInv'
    BY <1>1, <2>1, <2>3 DEF ResultInv, Body
  <2> QED BY <1>1, <2>1, <2>2, <2>4, <2>5, I2cKept
<1> QED BY <1>2, <1>3, <1>4

LEMMA DrainStep ==
  ASSUME IInv, Drain
  PROVE  IInv'
<1>1. pc = "drain" /\ isr = "idle" /\ dev = "i2c" /\ pc \in Blocking
  BY Whose DEF Drain, ThreadAt, MayRun, Blocking
<1>2. CASE rxf = 0 /\ abrt /\ cl.kind \in ChecksWhileDraining /\ Fail
  BY <1>1, <1>2, FailStep
<1>3. CASE ~(rxf = 0 /\ abrt /\ cl.kind \in ChecksWhileDraining /\ Fail)
  BY <1>1, <1>3, TakenStep DEF Drain
<1> QED BY <1>2, <1>3

LEMMA LastOneStep ==
  ASSUME IInv, LastOne
  PROVE  IInv'
<1> USE DEF IInv
<1>1. /\ pc = "last" /\ isr = "idle" /\ dev = "i2c" /\ pc \in Blocking /\ ~Full
      /\ Put(IF cl.kind \in Reads THEN "r" ELSE "w", TRUE) /\ cl' = [cl EXCEPT !.left = 0]
      /\ pc' = IF cl.kind \in Reads THEN "drain" ELSE "wait"
      /\ UNCHANGED <<dev, tx, rx, rxf, shift, ndf, bus, abrt, out, en, isr, ret>>
  BY Whose DEF LastOne, ThreadAt, MayRun, Blocking, handle
<1>2. /\ ~rx.busy /\ ~tx.busy /\ en = {} /\ cl.left = 1 /\ cl.got \in Nat /\ cl.kind \in Reads \cup Writes
      /\ due <= IF cl.kind \in Reads THEN cl.got - 1 ELSE 0
      /\ cl.kind \in ChecksAtEnd => cl.kind \notin Reads
  BY <1>1, CallCounts, Kinds DEF Control, I2cInv, I2cExpected, Blocking
<1>3. cl' \in [kind : CallKinds, left : Nat, got : Nat] /\ cl'.kind = cl.kind /\ cl'.left = 0 /\ cl'.got = cl.got
  BY <1>1 DEF CallType
<1>4. Len(txf) < Room
  BY <1>1, Limits DEF Full, LineType
<1> DEFINE op == IF cl.kind \in Reads THEN "r" ELSE "w"
<1>5. op \in {"w", "r"} /\ (op = "r" <=> cl.kind \in Reads)
  OBVIOUS
<1>6. Put(op, TRUE)
  BY <1>1
<1> HIDE DEF op
<1>7. /\ LineType' /\ Balance' /\ OnLine' \subseteq OnLine \cup {op}
      /\ due' = IF op = "r" /\ ~abrt THEN due + 1 ELSE due
      /\ owed' = IF op # "r" /\ ~abrt THEN owed + 1 ELSE owed
  BY <1>1, <1>4, <1>5, <1>6, PutStep
<1>8. HandleType' /\ CallType'
  BY <1>1, <1>3 DEF HandleType, CallType
<1>9. owed \in Nat /\ out \in Nat /\ due \in Nat
  BY DEF LineType
<1>10. due' <= I2cExpected'
  BY <1>1, <1>2, <1>3, <1>5, <1>7, <1>9 DEF I2cExpected, Blocking
<1> HIDE DEF I2cExpected
<1>11. cl.kind \in Reads => cl.got > 0
  BY <1>2, <1>9
<1>12. I2cInv'
  BY <1>1, <1>2, <1>3, <1>10, <1>11 DEF Control, I2cInv, Blocking
<1>13. ResultInv'
  <2>1. ASSUME cl.kind \in ChecksAtEnd
        PROVE  OnLine' \subseteq {"w", "none"} /\ (~abrt' => out' + owed' + cl'.left = cl'.got)
    <3>1. OnLine \subseteq {"w", "none"} /\ (~abrt => out + owed + cl.left = cl.got)
      BY <1>1, <2>1 DEF Control, ResultInv, Accounted
    <3> QED BY <1>1, <1>2, <1>3, <1>5, <1>7, <1>9, <2>1, <3>1
  <2> QED BY <1>1, <1>2, <1>3, <2>1 DEF ResultInv, Accounted
<1> QED BY <1>1, <1>7, <1>8, <1>12, <1>13, I2cKept

LEMMA WaitStep ==
  ASSUME IInv, Wait
  PROVE  IInv'
<1> USE DEF IInv
<1>1. pc = "wait" /\ isr = "idle" /\ dev = "i2c" /\ pc \in Blocking /\ LineIdle
  BY Whose DEF Wait, ThreadAt, MayRun, Blocking
<1>2. /\ ~rx.busy /\ ~tx.busy /\ en = {} /\ cl.left = 0 /\ cl.got \in Nat /\ cl.kind \in Reads \cup Writes
      /\ due <= 0
  BY <1>1, CallCounts, Kinds DEF Control, I2cInv, I2cExpected, Blocking
<1>3. CASE cl.kind \in ChecksAtEnd /\ abrt
  BY <1>1, <1>3, FailStep DEF Wait
<1>4. CASE ~(cl.kind \in ChecksAtEnd /\ abrt)
  <2>1. /\ pc' = IF cl.kind \in Polls THEN "poll" ELSE "idle"
        /\ ret' = (cl.kind \notin Polls)
        /\ UNCHANGED <<dev, tx, rx, line, en, isr, cl>>
    BY <1>4 DEF Wait, handle
  <2>2. LineType' /\ Balance' /\ HandleType' /\ OnLine' = OnLine /\ (LineIdle' <=> LineIdle)
    BY <2>1, SameLine DEF HandleType
  <2>3. CallType'
    BY <2>1 DEF CallType
  <2>4. due' = due /\ out' = out
    BY <2>1 DEF line
  <2>5. I2cInv'
    BY <1>1, <1>2, <2>1, <2>4 DEF Control, I2cInv, I2cExpected, Blocking
  <2>6. cl.kind \in ChecksAtEnd => out = cl.got /\ OnLine = {"none"}
    <3>1. owed = 0 /\ OnLine = {"none"}
      BY <1>1, CountIdle DEF Balance, LineIdle, OnLine, NoCmd, Cmd
    <3>2. cl.kind \in ChecksAtEnd => out + owed + cl.left = cl.got
      BY <1>1, <1>4 DEF Control, ResultInv, Accounted
    <3> QED BY <1>2, <3>1, <3>2 DEF LineType
  <2>7. ResultInv'
    BY <1>1, <2>1, <2>2, <2>4, <2>6 DEF ResultInv, Accounted
  <2> QED BY <1>1, <2>1, <2>2, <2>3, <2>5, <2>7, I2cKept
<1> QED BY <1>3, <1>4

LEMMA TwoAre ==
  ASSUME NEW S, NEW c \in S, NEW d \in S
  PROVE  /\ <<c, d>> \in Seq(S) /\ Len(<<c, d>>) = 2
         /\ \A i \in DOMAIN <<c, d>> : <<c, d>>[i] \in {c, d}
OBVIOUS

LEMMA PollStep ==
  ASSUME IInv, Poll
  PROVE  IInv'
<1> USE DEF IInv
<1> DEFINE cmds == IF abrt THEN <<>> ELSE <<Cmd("p", FALSE), Cmd("p", TRUE)>>
<1>1. /\ pc = "poll" /\ isr = "idle" /\ dev = "i2c" /\ pc \in Blocking /\ pc' = "polled"
      /\ Reenable(cmds, 0) /\ owed' = IF abrt THEN owed ELSE owed + 2
      /\ UNCHANGED <<dev, tx, rx, abrt, out, due, en, isr, cl, ret>>
  BY Whose DEF Poll, ThreadAt, MayRun, Blocking, handle
<1>2. /\ ~rx.busy /\ ~tx.busy /\ en = {} /\ cl.kind \in Reads \cup Writes
      /\ due = 0 /\ LineIdle /\ abrt \in BOOLEAN /\ out \in Nat /\ owed \in Nat
  BY <1>1 DEF Control, I2cInv, ResultInv, I2cExpected, Blocking, LineType
<1>3. Written = 0 /\ 0 \in 0 .. MaxSize
  BY <1>2, CountIdle, Limits
<1>4. cmds \in Seq(Cmds) /\ Len(cmds) = (IF abrt THEN 0 ELSE 2) /\ \A i \in DOMAIN cmds : cmds[i].op = "p"
  <2>1. \A stop \in BOOLEAN : Cmd("p", stop) \in Cmds /\ Cmd("p", stop).op = "p"
    BY CmdIs
  <2>2. CASE abrt
    BY <2>2
  <2>3. CASE ~abrt
    <3>1. cmds = <<Cmd("p", FALSE), Cmd("p", TRUE)>>
      BY <2>3
    <3> HIDE DEF cmds
    <3>2. Cmd("p", FALSE) \in Cmds /\ Cmd("p", TRUE) \in Cmds
      BY <2>1
    <3>3. cmds \in Seq(Cmds) /\ Len(cmds) = 2 /\ \A i \in DOMAIN cmds : cmds[i] \in {Cmd("p", FALSE), Cmd("p", TRUE)}
      BY <3>1, <3>2, TwoAre
    <3> QED BY <2>1, <2>3, <3>3
  <2> QED BY <2>2, <2>3
<1> HIDE DEF cmds
<1>5. LineType' /\ Balance'
  <2>1. /\ owed' = owed + Len(cmds) /\ Len(cmds) <= 2 /\ \A i \in DOMAIN cmds : cmds[i].op # "r"
        /\ due' \in Nat /\ due' = due + 0 /\ dev # "uart1" /\ abrt' \in BOOLEAN /\ out' \in Nat
    BY <1>1, <1>2, <1>4
  <2> QED BY <1>1, <1>2, <1>3, <1>4, <2>1, ReenableStep
<1>6. HandleType' /\ CallType'
  BY <1>1 DEF HandleType, CallType
<1>7. I2cInv'
  BY <1>1, <1>2 DEF Control, I2cInv, I2cExpected, Blocking
<1>8. OnLine' \subseteq {"p", "none"}
  <2>1. txf' = cmds /\ shift'.op = "none"
    BY <1>1 DEF Reenable, NoCmd, Cmd
  <2> QED BY <1>4, <2>1 DEF OnLine
<1>9. ResultInv'
  BY <1>1, <1>8 DEF Control, ResultInv, Accounted
<1> QED BY <1>1, <1>5, <1>6, <1>7, <1>9, I2cKept

LEMMA PolledStep ==
  ASSUME IInv, Polled
  PROVE  IInv'
<1> USE DEF IInv
<1>1. /\ pc = "polled" /\ isr = "idle" /\ dev = "i2c" /\ pc \in Blocking
      /\ UNCHANGED <<dev, tx, rx, en, isr, cl>>
  BY Whose DEF Polled, ThreadAt, MayRun, Blocking, handle
<1>2. /\ ~rx.busy /\ ~tx.busy /\ en = {} /\ cl.kind \in Reads \cup Writes /\ due <= 0 /\ HandleType'
  BY <1>1 DEF Control, I2cInv, I2cExpected, Blocking, HandleType
<1>3. CASE abrt
  <2>1. Abandoned /\ pc' = "poll" /\ ret' = ret /\ out' = out
    BY <1>3 DEF Polled
  <2>2. LineType' /\ Balance' /\ LineIdle' /\ due' = 0
    BY <1>1, <2>1, AbandonedStep
  <2>3. CallType'
    BY <1>1, <2>1 DEF CallType
  <2>4. I2cInv'
    BY <1>1, <1>2, <2>1, <2>2 DEF Control, I2cInv, I2cExpected, Blocking
  <2>5. OnLine' = {"none"}
    BY <2>2 DEF LineIdle, OnLine, NoCmd, Cmd
  <2>6. ResultInv'
    BY <1>1, <2>1, <2>2, <2>5 DEF Control, ResultInv, Accounted
  <2> QED BY <1>1, <1>2, <2>2, <2>3, <2>4, <2>6, I2cKept
<1>4. CASE ~abrt
  <2>1. pc' = "idle" /\ ret' = TRUE /\ UNCHANGED line /\ out' = out /\ due' = due
    BY <1>4 DEF Polled, line
  <2>2. LineType' /\ Balance' /\ OnLine' = OnLine
    BY <1>1, <2>1, SameLine
  <2>3. CallType'
    BY <1>1, <2>1 DEF CallType
  <2>4. I2cInv'
    BY <1>1, <1>2, <2>1 DEF Control, I2cInv, I2cExpected, Blocking
  <2>5. ResultInv'
    BY <1>1, <2>1, <2>2 DEF Control, ResultInv, Accounted
  <2> QED BY <1>1, <1>2, <2>2, <2>3, <2>4, <2>5, I2cKept
<1> QED BY <1>3, <1>4

-----------------------------------------------------------------------------
(* The steps of the I2C driver: transfers by interrupt. *)

\* No result of a blocking call is at stake.
LEMMA NoResult ==
  ASSUME pc' # "poll", cl'.kind = "it"
  PROVE  ResultInv'
BY DEF ResultInv, ChecksAtEnd

LEMMA ResetStep ==
  ASSUME IInv, dev = "i2c", pc = "idle", ~tx.busy, ~rx.busy, LineIdle,
         Reset, abrt' = FALSE, out' = 0, UNCHANGED <<dev, owed, due>>
  PROVE  LineType' /\ Balance' /\ due' = 0 /\ en = {}
<1> USE DEF IInv
<1>1. en = {} /\ Written = 0 /\ due = 0 /\ owed = 0
  BY I2cCalled
<1>2. Reenable(<<>>, 0) /\ owed' = owed + Len(<<>>)
  BY <1>1 DEF Reset
<1>3. /\ <<>> \in Seq(Cmds) /\ \A i \in DOMAIN <<>> : <<>>[i].op # "r"
      /\ Len(<<>>) <= 2 /\ 0 \in 0 .. MaxSize
  BY Limits
<1>4. due' = due + 0 /\ due' \in Nat /\ due' = 0
  BY <1>1
<1>5. out' \in Nat /\ dev # "uart1"
  OBVIOUS
<1>6. abrt' \in BOOLEAN
  OBVIOUS
<1> QED BY <1>1, <1>2, <1>3, <1>4, <1>5, <1>6, ReenableStep

LEMMA I2cTransmitITStep ==
  ASSUME IInv, NEW n \in Sizes, I2cTransmitIT(n)
  PROVE  IInv'
<1> USE DEF IInv
<1>1. /\ dev = "i2c" /\ pc = "idle" /\ isr = "idle" /\ ~tx.busy /\ ~rx.busy /\ LineIdle
      /\ Reset /\ abrt' = FALSE /\ out' = 0
      /\ tx' = Started(n - 1) /\ pc' = "it_fill" /\ cl' = Call("it", 0, 0)
      /\ UNCHANGED <<dev, rx, owed, due, en, isr, ret>>
  BY DEF I2cTransmitIT, ThreadAt, MayRun
<1>2. LineType' /\ Balance' /\ due' = 0 /\ en = {}
  BY <1>1, ResetStep
<1>3. n \in Nat /\ n > 0 /\ n <= MaxSize /\ MaxSize \in Nat
  BY Limits
<1>4. tx' \in Handles /\ tx'.busy /\ tx'.count = 0 /\ tx'.size = n - 1 /\ 0 <= n - 1 /\ n - 1 < MaxSize
  BY <1>1, <1>3 DEF Started, Handles
<1>5. cl' \in [kind : CallKinds, left : Nat, got : Nat] /\ cl'.kind = "it"
  BY <1>1, CallIs, Kinds
<1>6. HandleType' /\ CallType'
  BY <1>1, <1>4, <1>5 DEF HandleType, CallType
<1>7. I2cInv'
  BY <1>1, <1>2, <1>4, <1>5 DEF Control, I2cInv, I2cExpected, Blocking
<1>8. ResultInv'
  BY <1>1, <1>5, NoResult
<1> QED BY <1>1, <1>2, <1>6, <1>7, <1>8, I2cKept

LEMMA I2cReceiveITStep ==
  ASSUME IInv, Waits = TRUE, NEW n \in Sizes, I2cReceiveIT(n)
  PROVE  IInv'
<1> USE DEF IInv
<1>1. /\ dev = "i2c" /\ pc = "idle" /\ isr = "idle" /\ ~tx.busy /\ ~rx.busy /\ LineIdle
      /\ Reset /\ abrt' = FALSE /\ out' = 0
      /\ rx' = Started(n) /\ tx' = [tx EXCEPT !.busy = TRUE, !.count = 0]
      /\ pc' = "it_ask" /\ cl' = Call("it", 0, 0)
      /\ UNCHANGED <<dev, owed, due, en, isr, ret>>
  BY DEF I2cReceiveIT, MayCall, ThreadAt, MayRun
<1>2. LineType' /\ Balance' /\ due' = 0 /\ en = {}
  BY <1>1, ResetStep
<1>3. n \in Nat /\ n > 0 /\ n <= MaxSize /\ MaxSize \in Nat
  BY Limits
<1>4. rx' \in Handles /\ rx'.busy /\ rx'.count = 0 /\ rx'.size = n
  BY <1>1, <1>3 DEF Started, Handles
<1>5. tx' \in Handles /\ tx'.busy /\ tx'.count = 0
  <2>1. tx \in Handles /\ 0 \in 0 .. MaxSize
    BY <1>3 DEF HandleType
  <2>2. tx'.busy
    BY <1>1, <2>1 DEF Handles
  <2>3. tx'.count = 0
    BY <1>1, <2>1 DEF Handles
  <2>4. tx' \in Handles
    BY <1>1, <2>1 DEF Handles
  <2> QED BY <2>2, <2>3, <2>4
<1>6. cl' \in [kind : CallKinds, left : Nat, got : Nat] /\ cl'.kind = "it"
  BY <1>1, CallIs, Kinds
<1>7. HandleType' /\ CallType'
  BY <1>1, <1>4, <1>5, <1>6 DEF HandleType, CallType
<1>8. I2cExpected' = 0
  BY <1>4, <1>5 DEF I2cExpected
<1> HIDE DEF I2cExpected
<1>9. I2cInv'
  BY <1>1, <1>2, <1>3, <1>4, <1>5, <1>6, <1>8 DEF Control, I2cInv, Blocking
<1>10. ResultInv'
  BY <1>1, <1>6, NoResult
<1> QED BY <1>1, <1>2, <1>7, <1>9, <1>10, I2cKept

LEMMA FailITStep ==
  ASSUME IInv, dev = "i2c", isr = "idle", pc \in {"it_fill", "it_full", "it_ask"}, FailIT
  PROVE  IInv'
<1> USE DEF IInv
<1>1. /\ Abandoned /\ ret' = FALSE /\ pc' = "idle" /\ UNCHANGED <<dev, out, en, isr, cl>>
      /\ tx' = [tx EXCEPT !.busy = FALSE] /\ rx' = [rx EXCEPT !.busy = FALSE]
  BY DEF FailIT
<1>2. LineType' /\ Balance' /\ due' = 0
  BY <1>1, AbandonedStep
<1>3. cl.kind = "it" /\ en = {} /\ rx.count <= rx.size
  BY DEF Control, I2cInv
<1>4. tx' \in Handles /\ rx' \in Handles /\ ~tx'.busy /\ ~rx'.busy /\ rx'.count = rx.count /\ rx'.size = rx.size
  BY <1>1 DEF HandleType, Handles
<1>5. HandleType' /\ CallType'
  BY <1>1, <1>4 DEF HandleType, CallType
<1>6. "it" \notin Reads
  BY DEF Reads
<1>7. I2cInv'
  BY <1>1, <1>2, <1>3, <1>4, <1>6 DEF Control, I2cInv, I2cExpected, Blocking
<1>8. ResultInv'
  BY <1>1, <1>3, NoResult
<1> QED BY <1>1, <1>2, <1>5, <1>7, <1>8, I2cKept

\* One more frame of a transmission goes into the FIFO, the last one after
\* u32_TxSize others.
LEMMA FillCounts ==
  ASSUME tx \in Handles, tx.count <= tx.size, tx.size < MaxSize, NEW b \in BOOLEAN,
         tx' = [tx EXCEPT !.count = @ + 1, !.busy = b]
  PROVE  tx' \in Handles /\ tx'.size = tx.size /\ tx'.count = tx.count + 1 /\ tx'.busy = b
<1>1. tx.count \in Nat /\ tx.size \in Nat /\ MaxSize \in Nat /\ tx.count + 1 \in 0 .. MaxSize
  BY Limits DEF Handles
<1>2. tx'.size = tx.size
  BY DEF Handles
<1>3. tx'.count = tx.count + 1
  BY DEF Handles
<1>4. tx'.busy = b
  BY DEF Handles
<1>5. tx' \in Handles
  BY <1>1 DEF Handles
<1> QED BY <1>2, <1>3, <1>4, <1>5

LEMMA FillITStep ==
  ASSUME IInv, FillIT
  PROVE  IInv'
<1> USE DEF IInv
<1>1. pc = "it_fill" /\ isr = "idle" /\ dev = "i2c"
  BY Whose DEF FillIT, ThreadAt, MayRun
<1>2. /\ tx.busy /\ ~rx.busy /\ tx.count <= tx.size /\ tx.size < MaxSize /\ en = {} /\ cl.kind = "it" /\ due <= 0
      /\ tx.count \in Nat /\ tx.size \in Nat
  BY <1>1 DEF Control, I2cInv, I2cExpected, Blocking, HandleType, Handles
<1>3. "it" \notin Reads
  BY DEF Reads
<1>4. CASE Full
  <2>1. pc' = "it_full" /\ UNCHANGED <<dev, tx, rx, line, due, en, isr, cl, ret>>
    BY <1>4 DEF FillIT, handle, line
  <2>2. LineType' /\ Balance' /\ HandleType' /\ CallType'
    BY <2>1, SameLine DEF HandleType, CallType
  <2>3. I2cInv'
    BY <1>1, <1>2, <1>3, <2>1 DEF Control, I2cInv, I2cExpected, Blocking
  <2> QED BY <1>1, <1>2, <2>1, <2>2, <2>3, NoResult, I2cKept
<1>5. CASE ~Full /\ tx.count < tx.size /\ abrt
  BY <1>1, <1>5, FailITStep DEF FillIT
<1>6. CASE ~Full /\ ~(tx.count < tx.size /\ abrt)
  <2>1. /\ Put("w", tx.count >= tx.size)
        /\ tx' = [tx EXCEPT !.count = @ + 1, !.busy = tx.count < tx.size]
        /\ IF tx.count < tx.size THEN UNCHANGED <<pc, ret>> ELSE pc' = "idle" /\ ret' = TRUE
        /\ UNCHANGED <<dev, rx, rxf, shift, ndf, bus, abrt, out, en, isr, cl>>
    BY <1>6 DEF FillIT
  <2>2. Len(txf) < Room
    BY <1>6, Limits DEF Full, LineType
  <2>3. LineType' /\ Balance' /\ due' = due
    <3>1. (tx.count >= tx.size) \in BOOLEAN
      OBVIOUS
    <3> QED BY <1>1, <2>1, <2>2, <3>1, PutStep
  <2>4. CASE tx.count < tx.size
    <3>1. tx' \in Handles /\ tx'.size = tx.size /\ tx'.count = tx.count + 1 /\ tx'.busy = TRUE
      <4>1. tx' = [tx EXCEPT !.count = @ + 1, !.busy = TRUE]
        BY <2>1, <2>4
      <4> QED BY <1>2, <4>1, FillCounts DEF HandleType
    <3>2. HandleType' /\ CallType'
      BY <1>1, <2>1, <2>4, <3>1 DEF HandleType, CallType
    <3>3. I2cInv'
      BY <1>1, <1>2, <1>3, <2>1, <2>3, <2>4, <3>1 DEF Control, I2cInv, I2cExpected, Blocking
    <3> QED BY <1>1, <1>2, <2>1, <2>3, <2>4, <3>2, <3>3, NoResult, I2cKept
  <2>5. CASE ~(tx.count < tx.size)
    <3>1. tx' \in Handles /\ tx'.size = tx.size /\ tx'.count = tx.count + 1 /\ tx'.busy = FALSE
      <4>1. tx' = [tx EXCEPT !.count = @ + 1, !.busy = FALSE]
        <5>1. (tx.count < tx.size) = FALSE
          BY <2>5
        <5> QED BY <2>1, <5>1
      <4> QED BY <1>2, <4>1, FillCounts DEF HandleType
    <3>2. HandleType' /\ CallType'
      BY <1>1, <2>1, <2>5, <3>1 DEF HandleType, CallType
    <3>3. I2cInv'
      BY <1>1, <1>2, <1>3, <2>1, <2>3, <2>5, <3>1 DEF Control, I2cInv, I2cExpected, Blocking
    <3> QED BY <1>1, <1>2, <2>1, <2>3, <2>5, <3>2, <3>3, NoResult, I2cKept
  <2> QED BY <2>4, <2>5
<1> QED BY <1>4, <1>5, <1>6

LEMMA FullITStep ==
  ASSUME IInv, FullIT
  PROVE  IInv'
<1> USE DEF IInv
<1>1. pc = "it_full" /\ isr = "idle" /\ dev = "i2c"
  BY Whose DEF FullIT, ThreadAt, MayRun
<1>2. /\ tx.busy /\ ~rx.busy /\ tx.count <= tx.size /\ tx.size < MaxSize /\ en = {} /\ cl.kind = "it" /\ due <= 0
  BY <1>1 DEF Control, I2cInv, I2cExpected, Blocking
<1>3. "it" \notin Reads
  BY DEF Reads
<1>4. CASE abrt
  BY <1>1, <1>4, FailITStep DEF FullIT
<1>5. CASE ~abrt
  <2>1. en' = {"tx"} /\ pc' = "it_tx" /\ UNCHANGED <<dev, tx, rx, line, due, isr, cl, ret>>
    BY <1>2, <1>5 DEF FullIT, handle, line
  <2>2. LineType' /\ Balance' /\ HandleType' /\ CallType'
    BY <2>1, SameLine DEF HandleType, CallType
  <2>3. I2cInv'
    BY <1>1, <1>2, <1>3, <2>1 DEF Control, I2cInv, I2cExpected, Blocking
  <2> QED BY <1>1, <1>2, <2>1, <2>2, <2>3, NoResult, I2cKept
<1> QED BY <1>4, <1>5

\* No handler comes between the two interrupts, so INT_MASK is as it was read.
LEMMA MaskSteps ==
  ASSUME IInv, ReadMask \/ WriteMask
  PROVE  IInv'
<1> USE DEF IInv
<1>1. pc \in {"it_tx", "it_both", "it_abrt"} /\ isr = "idle" /\ dev = "i2c"
  BY Whose DEF ReadMask, WriteMask, ThreadAt, MayRun
<1>2. /\ pc \in {"it_tx", "it_both"} /\ en = {"tx"} /\ cl.kind = "it" /\ due <= 0
      /\ tx.busy /\ ~rx.busy /\ tx.count <= tx.size /\ tx.size < MaxSize
  BY <1>1 DEF Control, I2cInv, I2cExpected, Blocking
<1>3. "it" \notin Reads
  BY DEF Reads
<1>4. UNCHANGED <<dev, tx, rx, line, due, isr, cl>>
  BY DEF ReadMask, WriteMask, handle, line
<1>5. /\ ret' \in BOOLEAN
      /\ \/ pc' = "it_both" /\ en' = en
         \/ pc' = "idle" /\ en' = {"tx", "abrt"}
  <2>1. CASE ReadMask
    <3>1. pc' = IF "tx" \in en THEN "it_both" ELSE "it_abrt"
      BY <2>1 DEF ReadMask
    <3>2. "tx" \in en
      BY <1>2
    <3>3. en' = en /\ ret' = ret /\ ret \in BOOLEAN
      BY <2>1 DEF ReadMask, CallType
    <3>4. pc' = "it_both"
      BY <3>1, <3>2
    <3> QED BY <3>3, <3>4
  <2>2. CASE WriteMask
    BY <1>2, <2>2 DEF WriteMask
  <2> QED BY <2>1, <2>2
<1>6. LineType' /\ Balance' /\ HandleType' /\ CallType'
  BY <1>2, <1>4, <1>5, SameLine DEF HandleType, CallType
<1>7. I2cInv'
  BY <1>1, <1>2, <1>3, <1>4, <1>5 DEF Control, I2cInv, I2cExpected, Blocking
<1>8. pc' # "poll" /\ cl'.kind = "it"
  BY <1>2, <1>4, <1>5
<1> QED BY <1>1, <1>4, <1>6, <1>7, <1>8, NoResult, I2cKept

\* One more READ command is queued: the handle still expects its frame.
LEMMA AskOneStep ==
  ASSUME IInv, dev = "i2c", ~Full, rx.busy, tx.busy, AskOne, cl.kind = "it",
         UNCHANGED <<dev, rx, rxf, shift, ndf, bus, abrt, out>>
  PROVE  /\ LineType' /\ Balance' /\ tx' \in Handles
         /\ tx'.busy => tx'.count < rx.size
         /\ due' <= (IF tx'.busy THEN tx'.count ELSE rx.size) - rx.count
<1> USE DEF IInv
<1>1. /\ tx.count < rx.size /\ due <= tx.count - rx.count
      /\ tx.count \in Nat /\ rx.count \in Nat /\ rx.size \in Nat /\ rx.size <= MaxSize /\ MaxSize \in Nat
  BY Limits DEF Control, I2cInv, I2cExpected, HandleType, Handles
<1>2. Len(txf) < Room
  BY Limits DEF Full, LineType
<1>3. LineType' /\ Balance' /\ due' <= due + 1 /\ due \in Nat /\ due' \in Nat
  <2>1. (tx.count >= rx.size - 1) \in BOOLEAN /\ Put("r", tx.count >= rx.size - 1)
    BY DEF AskOne
  <2>2. LineType' /\ Balance' /\ due' = IF ~abrt THEN due + 1 ELSE due
    BY <1>2, <2>1, PutStep
  <2>3. due \in Nat /\ due' \in Nat
    BY <2>2 DEF LineType
  <2> QED BY <2>2, <2>3
<1>4. CASE tx.count < rx.size - 1
  <2>1. tx' = [tx EXCEPT !.count = @ + 1]
    BY <1>4 DEF AskOne
  <2>2. tx.count + 1 \in 0 .. MaxSize
    BY <1>1
  <2>3. tx' \in Handles
    BY <2>1, <2>2 DEF HandleType, Handles
  <2>4. tx'.count = tx.count + 1
    BY <2>1 DEF HandleType, Handles
  <2>5. tx'.busy
    BY <2>1 DEF HandleType, Handles
  <2> QED BY <1>1, <1>3, <1>4, <2>3, <2>4, <2>5
<1>5. CASE ~(tx.count < rx.size - 1)
  <2>1. tx' = [tx EXCEPT !.busy = FALSE]
    BY <1>5 DEF AskOne
  <2>2. tx' \in Handles
    BY <2>1 DEF HandleType, Handles
  <2>3. ~tx'.busy
    BY <2>1 DEF HandleType, Handles
  <2> QED BY <1>1, <1>3, <1>5, <2>2, <2>3
<1> QED BY <1>4, <1>5

LEMMA AskITStep ==
  ASSUME IInv, AskIT
  PROVE  IInv'
<1> USE DEF IInv
<1>1. pc = "it_ask" /\ isr = "idle" /\ dev = "i2c"
  BY Whose DEF AskIT, ThreadAt, MayRun
<1>2. rx.busy /\ en = {} /\ cl.kind = "it"
  BY <1>1 DEF Control, I2cInv
<1>3. CASE Full \/ ~tx.busy
  <2>1. /\ en' = en \cup {"rx"} /\ ret' = TRUE /\ pc' = "idle"
        /\ UNCHANGED <<dev, tx, rx, line, due, isr, cl>>
    BY <1>3 DEF AskIT, handle, line
  <2>2. LineType' /\ Balance' /\ HandleType' /\ CallType'
    BY <2>1, SameLine DEF HandleType, CallType
  <2>3. I2cExpected' = I2cExpected
    BY <1>2, <2>1 DEF I2cExpected
  <2>4. I2cInv'
    BY <1>1, <1>2, <2>1, <2>3 DEF Control, I2cInv, Blocking
  <2> QED BY <1>1, <1>2, <2>1, <2>2, <2>4, NoResult, I2cKept
<1>4. CASE ~(Full \/ ~tx.busy) /\ tx.count < rx.size - 1 /\ abrt
  BY <1>1, <1>4, FailITStep DEF AskIT
<1>5. CASE ~(Full \/ ~tx.busy) /\ ~(tx.count < rx.size - 1 /\ abrt)
  <2>1. AskOne /\ UNCHANGED <<dev, rx, rxf, shift, ndf, bus, abrt, out, en, isr, pc, cl, ret>>
    BY <1>5 DEF AskIT
  <2>2. /\ LineType' /\ Balance' /\ tx' \in Handles
        /\ tx'.busy => tx'.count < rx.size
        /\ due' <= (IF tx'.busy THEN tx'.count ELSE rx.size) - rx.count
    BY <1>1, <1>2, <1>5, <2>1, AskOneStep
  <2>3. HandleType' /\ CallType'
    BY <2>1, <2>2 DEF HandleType, CallType
  <2>4. due' <= I2cExpected'
    BY <1>2, <2>1, <2>2 DEF I2cExpected
  <2>5. I2cInv'
    BY <1>1, <1>2, <2>1, <2>2, <2>4 DEF Control, I2cInv, Blocking
  <2> QED BY <1>1, <1>2, <2>1, <2>2, <2>3, <2>5, NoResult, I2cKept
<1> QED BY <1>3, <1>4, <1>5

-----------------------------------------------------------------------------
(* The interrupt handler of the I2C driver. *)

LEMMA I2cPassSteps ==
  ASSUME IInv, EarlyHandler = FALSE, I2cEnter \/ I2cTx \/ I2cRx
  PROVE  IInv'
<1> USE DEF IInv
<1>1. dev = "i2c" /\ UNCHANGED <<dev, tx, rx, line, due, en, pc, cl, ret>>
  BY Whose DEF I2cEnter, I2cTx, I2cRx, handle, thread, line
<1>2. pc = "idle" /\ cl.kind = "it"
  BY <1>1 DEF I2cEnter, I2cTx, I2cRx, Pending, Control, I2cInv
<1>3. LineType' /\ Balance' /\ HandleType' /\ CallType'
  BY <1>1, SameLine DEF HandleType, CallType
<1>4. /\ isr' \in {"i2c_abort", "i2c_fill", "i2c_rx", "i2c_take", "idle"}
      /\ isr' = "i2c_fill" => "tx" \in en
      /\ isr' = "i2c_take" => "rx" \in en
  BY DEF I2cEnter, I2cTx, I2cRx
<1>5. I2cExpected' = I2cExpected
  BY <1>1 DEF I2cExpected
<1>6. I2cInv'
  BY <1>1, <1>2, <1>4, <1>5 DEF Control, I2cInv, Blocking
<1> QED BY <1>1, <1>2, <1>3, <1>6, NoResult, I2cKept

LEMMA I2cAbortStep ==
  ASSUME IInv, I2cAbort
  PROVE  IInv'
<1> USE DEF IInv
<1>1. isr = "i2c_abort" /\ isr' = "i2c_tx" /\ dev = "i2c" /\ UNCHANGED <<dev, pc, cl, ret>>
  BY Whose DEF I2cAbort, thread
<1>2. pc = "idle" /\ cl.kind = "it" /\ CallType' /\ rx.count <= rx.size
  BY <1>1 DEF Control, I2cInv, CallType
<1>3. "it" \notin Reads
  BY DEF Reads
<1>4. CASE "abrt" \in en /\ abrt
  <2>1. /\ Abandoned /\ en' = {} /\ out' = out
        /\ tx' = [tx EXCEPT !.busy = FALSE] /\ rx' = [rx EXCEPT !.busy = FALSE]
    BY <1>4 DEF I2cAbort
  <2>2. LineType' /\ Balance' /\ due' = 0
    BY <1>1, <2>1, AbandonedStep
  <2>3. tx' \in Handles /\ rx' \in Handles /\ ~tx'.busy /\ ~rx'.busy /\ rx'.count = rx.count /\ rx'.size = rx.size
    BY <2>1 DEF HandleType, Handles
  <2>4. HandleType'
    BY <2>1, <2>3 DEF HandleType
  <2>5. I2cInv'
    BY <1>1, <1>2, <1>3, <2>1, <2>2, <2>3 DEF Control, I2cInv, I2cExpected, Blocking
  <2> QED BY <1>1, <1>2, <2>2, <2>4, <2>5, NoResult, I2cKept
<1>5. CASE ~("abrt" \in en /\ abrt)
  <2>1. UNCHANGED <<tx, rx, line, due, en>>
    BY <1>5 DEF I2cAbort, handle, line
  <2>2. LineType' /\ Balance' /\ HandleType'
    BY <1>1, <2>1, SameLine DEF HandleType
  <2>3. I2cExpected' = I2cExpected
    BY <1>1, <2>1 DEF I2cExpected
  <2>4. I2cInv'
    BY <1>1, <1>2, <2>1, <2>3 DEF Control, I2cInv, Blocking
  <2> QED BY <1>1, <1>2, <2>2, <2>4, NoResult, I2cKept
<1> QED BY <1>4, <1>5

LEMMA I2cFillStep ==
  ASSUME IInv, I2cFill
  PROVE  IInv'
<1> USE DEF IInv
<1>1. isr = "i2c_fill" /\ dev = "i2c" /\ UNCHANGED <<dev, rx, out, pc, cl, ret>>
  BY Whose DEF I2cFill, thread, handle, line
<1>2. /\ pc = "idle" /\ cl.kind = "it" /\ CallType' /\ "tx" \in en
      /\ tx.busy /\ ~rx.busy /\ tx.count <= tx.size /\ tx.size < MaxSize /\ due <= 0
      /\ tx.count \in Nat /\ tx.size \in Nat /\ "rx" \notin en
  BY <1>1 DEF Control, I2cInv, CallType, I2cExpected, Blocking, HandleType, Handles
<1>3. "it" \notin Reads
  BY DEF Reads
<1>4. CASE Full
  <2>1. isr' = "i2c_rx" /\ UNCHANGED <<tx, line, due, en>>
    BY <1>4 DEF I2cFill, handle, line
  <2>2. LineType' /\ Balance' /\ HandleType'
    BY <1>1, <2>1, SameLine DEF HandleType
  <2>3. I2cInv'
    BY <1>1, <1>2, <1>3, <2>1 DEF Control, I2cInv, I2cExpected, Blocking
  <2> QED BY <1>1, <1>2, <2>2, <2>3, NoResult, I2cKept
<1>5. CASE ~Full /\ tx.count < tx.size /\ abrt
  <2>1. /\ Abandoned /\ isr' = "i2c_rx" /\ en' = en \ {"tx", "abrt"}
        /\ tx' = [tx EXCEPT !.count = @ + 1, !.busy = FALSE]
    BY <1>5 DEF I2cFill
  <2>2. LineType' /\ Balance' /\ due' = 0
    BY <1>1, <2>1, AbandonedStep
  <2>3. tx' \in Handles /\ tx'.busy = FALSE
    BY <1>2, <2>1, FillCounts DEF HandleType
  <2>4. HandleType'
    BY <1>1, <2>1, <2>3 DEF HandleType
  <2>5. I2cInv'
    BY <1>1, <1>2, <1>3, <2>1, <2>2, <2>3 DEF Control, I2cInv, I2cExpected, Blocking
  <2> QED BY <1>1, <1>2, <2>2, <2>4, <2>5, NoResult, I2cKept
<1>6. CASE ~Full /\ ~(tx.count < tx.size /\ abrt)
  <2>1. /\ Put("w", tx.count >= tx.size)
        /\ tx' = [tx EXCEPT !.count = @ + 1, !.busy = tx.count < tx.size]
        /\ IF tx.count < tx.size THEN UNCHANGED <<isr, en>>
           ELSE isr' = "i2c_rx" /\ en' = en \ {"tx", "abrt"}
        /\ UNCHANGED <<rxf, shift, ndf, bus, abrt>>
    BY <1>6 DEF I2cFill
  <2>2. Len(txf) < Room
    BY <1>6, Limits DEF Full, LineType
  <2>3. LineType' /\ Balance' /\ due' = due
    <3>1. (tx.count >= tx.size) \in BOOLEAN
      OBVIOUS
    <3> QED BY <1>1, <2>1, <2>2, <3>1, PutStep
  <2>4. CASE tx.count < tx.size
    <3>1. tx' \in Handles /\ tx'.size = tx.size /\ tx'.count = tx.count + 1 /\ tx'.busy = TRUE
      <4>1. tx' = [tx EXCEPT !.count = @ + 1, !.busy = TRUE]
        BY <2>1, <2>4
      <4> QED BY <1>2, <4>1, FillCounts DEF HandleType
    <3>2. HandleType'
      BY <1>1, <2>1, <2>4, <3>1 DEF HandleType
    <3>3. I2cInv'
      BY <1>1, <1>2, <1>3, <2>1, <2>3, <2>4, <3>1 DEF Control, I2cInv, I2cExpected, Blocking
    <3> QED BY <1>1, <1>2, <2>3, <3>2, <3>3, NoResult, I2cKept
  <2>5. CASE ~(tx.count < tx.size)
    <3>1. tx' \in Handles /\ tx'.size = tx.size /\ tx'.count = tx.count + 1 /\ tx'.busy = FALSE
      <4>1. tx' = [tx EXCEPT !.count = @ + 1, !.busy = FALSE]
        <5>1. (tx.count < tx.size) = FALSE
          BY <2>5
        <5> QED BY <2>1, <5>1
      <4> QED BY <1>2, <4>1, FillCounts DEF HandleType
    <3>2. HandleType'
      BY <1>1, <2>1, <2>5, <3>1 DEF HandleType
    <3>3. I2cInv'
      BY <1>1, <1>2, <1>3, <2>1, <2>3, <2>5, <3>1 DEF Control, I2cInv, I2cExpected, Blocking
    <3> QED BY <1>1, <1>2, <2>3, <3>2, <3>3, NoResult, I2cKept
  <2> QED BY <2>4, <2>5
<1> QED BY <1>4, <1>5, <1>6

\* A frame in the FIFO was due, so the transfer is not over.
LEMMA I2cTakeStep ==
  ASSUME IInv, I2cTake
  PROVE  IInv'
<1> USE DEF IInv
<1>1. isr = "i2c_take" /\ dev = "i2c"
      /\ UNCHANGED <<dev, tx, txf, shift, ndf, bus, abrt, out, owed, pc, cl, ret>>
  BY Whose DEF I2cTake, thread
<1>2. /\ pc = "idle" /\ cl.kind = "it" /\ CallType' /\ (tx.busy => rx.busy)
      /\ due <= I2cExpected /\ rx.count <= rx.size
  BY <1>1 DEF Control, I2cInv, CallType
<1>3. "it" \notin Reads
  BY DEF Reads
<1>4. CASE rxf = 0
  <2>1. isr' = "i2c_ask" /\ UNCHANGED <<rx, rxf, due, en>>
    BY <1>4 DEF I2cTake
  <2>2. LineType' /\ Balance' /\ HandleType'
    BY <1>1, <2>1, SameLine DEF HandleType, line
  <2>3. I2cExpected' = I2cExpected
    BY <1>1, <2>1 DEF I2cExpected
  <2>4. I2cInv'
    BY <1>1, <1>2, <2>1, <2>3 DEF Control, I2cInv, Blocking
  <2> QED BY <1>1, <1>2, <2>2, <2>4, NoResult, I2cKept
<1>5. CASE rxf # 0
  <2>1. /\ Taken(1) /\ isr' = isr
        /\ rx' = [rx EXCEPT !.count = @ + 1, !.busy = rx.busy /\ rx.count + 1 < rx.size]
        /\ en' = IF rx.count + 1 < rx.size THEN en ELSE en \ {"rx"}
    BY <1>5 DEF I2cTake
  <2>2. rxf > 0
    BY <1>5, Limits DEF LineType
  <2>3. LineType' /\ Balance' /\ due > 0 /\ due' = due - 1 /\ due \in Nat
    <3>1. LineType' /\ Balance' /\ due > 0 /\ due' = due - 1
      BY <1>1, <2>1, <2>2, TakeStep DEF IsUart
    <3> QED BY <3>1 DEF LineType
  <2>4. rx.busy
    BY <1>1, <1>2, <1>3, <2>3 DEF I2cExpected
  <2>5. /\ rx.count < rx.size /\ rx.count \in Nat /\ rx.size \in Nat /\ tx.count \in Nat
        /\ tx.busy => tx.count < rx.size
        /\ due <= (IF tx.busy THEN tx.count ELSE rx.size) - rx.count
    BY <1>1, <1>2, <2>4 DEF Control, I2cInv, I2cExpected, HandleType, Handles
  <2>6. /\ rx' \in Handles /\ rx'.size = rx.size /\ rx'.count = rx.count + 1 /\ rx'.count <= rx'.size
        /\ rx'.busy = (rx.count + 1 < rx.size)
    <3>1. (rx.busy /\ rx.count + 1 < rx.size) = (rx.count + 1 < rx.size)
      BY <2>4
    <3>2. rx' = [rx EXCEPT !.count = @ + 1, !.busy = rx.count + 1 < rx.size]
      BY <2>1, <3>1
    <3> QED BY <2>5, <3>2, RxCounts DEF HandleType
  <2>7. HandleType'
    BY <1>1, <2>1, <2>6 DEF HandleType
  <2>8. CASE rx.count + 1 < rx.size
    <3>1. rx'.busy /\ en' = en /\ rx'.count < rx'.size
      BY <2>1, <2>6, <2>8
    <3>2. due' <= I2cExpected'
      BY <1>1, <2>3, <2>5, <2>6, <3>1 DEF I2cExpected
    <3>3. I2cInv'
      BY <1>1, <1>2, <2>1, <2>4, <2>5, <2>6, <3>1, <3>2 DEF Control, I2cInv, Blocking
    <3> QED BY <1>1, <1>2, <2>3, <2>7, <3>3, NoResult, I2cKept
  <2>9. CASE ~(rx.count + 1 < rx.size)
    <3>1. ~rx'.busy /\ en' = en \ {"rx"}
      BY <2>1, <2>6, <2>9
    <3>2. ~tx.busy /\ due' = 0
      BY <2>3, <2>5, <2>9
    <3>3. "tx" \notin en
      BY <1>1, <2>4 DEF Control, I2cInv
    <3>4. I2cInv'
      BY <1>1, <1>2, <1>3, <2>1, <2>6, <3>1, <3>2, <3>3 DEF Control, I2cInv, I2cExpected, Blocking
    <3> QED BY <1>1, <1>2, <2>3, <2>7, <3>4, NoResult, I2cKept
  <2> QED BY <2>8, <2>9
<1> QED BY <1>4, <1>5

LEMMA I2cAskStep ==
  ASSUME IInv, I2cAsk
  PROVE  IInv'
<1> USE DEF IInv
<1>1. isr = "i2c_ask" /\ dev = "i2c"
      /\ UNCHANGED <<dev, rx, rxf, shift, ndf, bus, abrt, out, en, pc, cl, ret>>
  BY Whose DEF I2cAsk, thread
<1>2. /\ pc = "idle" /\ cl.kind = "it" /\ CallType' /\ (tx.busy => rx.busy) /\ due <= I2cExpected
  BY <1>1 DEF Control, I2cInv, CallType
<1>3. CASE Full \/ ~tx.busy
  <2>1. isr' = "idle" /\ UNCHANGED <<tx, txf, owed, due>>
    BY <1>3 DEF I2cAsk
  <2>2. LineType' /\ Balance' /\ HandleType'
    BY <1>1, <2>1, SameLine DEF HandleType, line
  <2>3. I2cExpected' = I2cExpected
    BY <1>1, <2>1 DEF I2cExpected
  <2>4. I2cInv'
    BY <1>1, <1>2, <2>1, <2>3 DEF Control, I2cInv, Blocking
  <2> QED BY <1>1, <1>2, <2>2, <2>4, NoResult, I2cKept
<1>4. CASE ~(Full \/ ~tx.busy)
  <2>1. AskOne /\ isr' = isr
    BY <1>4 DEF I2cAsk
  <2>2. rx.busy
    BY <1>2, <1>4
  <2>3. /\ LineType' /\ Balance' /\ tx' \in Handles
        /\ tx'.busy => tx'.count < rx.size
        /\ due' <= (IF tx'.busy THEN tx'.count ELSE rx.size) - rx.count
    BY <1>1, <1>2, <1>4, <2>1, <2>2, AskOneStep
  <2>4. HandleType'
    BY <1>1, <2>3 DEF HandleType
  <2>5. due' <= I2cExpected'
    BY <1>1, <2>2, <2>3 DEF I2cExpected
  <2>6. "tx" \notin en
    BY <1>1, <2>2 DEF Control, I2cInv
  <2>7. I2cInv'
    BY <1>1, <1>2, <2>1, <2>2, <2>3, <2>5, <2>6 DEF Control, I2cInv, Blocking
  <2> QED BY <1>1, <1>2, <2>3, <2>4, <2>7, NoResult, I2cKept
<1> QED BY <1>3, <1>4

-----------------------------------------------------------------------------
(* The theorems. *)

LEMMA InitHolds ==
  ASSUME Init PROVE IInv
<1>1. /\ dev \in Ports /\ tx = Idle /\ rx = Idle
      /\ txf = <<>> /\ rxf = 0 /\ shift = NoCmd /\ ndf = 0 /\ bus = "free" /\ abrt = FALSE
      /\ en = {} /\ isr = "idle" /\ pc = "idle" /\ cl = NoCall /\ ret = FALSE
      /\ out = 0 /\ owed = 0 /\ due = 0
  BY DEF Init
<1>2. Depth \in Nat /\ MaxSize \in Nat /\ Room \in Nat
  BY Limits
<1>3. LineType
  <2>1. txf \in Seq(Cmds) /\ Len(txf) = 0
    BY <1>1
  <2>2. rxf \in 0 .. Depth /\ ndf \in 0 .. MaxSize
    BY <1>1, <1>2
  <2>3. abrt \in BOOLEAN /\ ~abrt
    BY <1>1
  <2> QED BY <1>1, <1>2, <2>1, <2>2, <2>3 DEF LineType
<1>4. Idle \in Handles /\ ~Idle.busy /\ Idle.count = 0 /\ Idle.size = 0
  BY <1>2 DEF Idle, Handles
<1>5. cl \in [kind : CallKinds, left : Nat, got : Nat] /\ cl.kind = "none"
  BY <1>1, CallIs DEF NoCall, CallKinds
<1>6. HandleType /\ CallType
  BY <1>1, <1>4, <1>5 DEF HandleType, CallType
<1>7. Written = 0 /\ Wanted = 0
  BY <1>1, CountIdle DEF LineIdle
<1>8. Balance
  BY <1>1, <1>7 DEF Balance
<1>9. UartInv
  BY <1>1, <1>4 DEF UartInv
<1>10. SpiInv
  BY <1>1, <1>4 DEF SpiInv, SpiExpected, Asking
<1>11. I2cInv
  BY <1>1, <1>4 DEF I2cInv, I2cExpected, Blocking
<1>12. ResultInv
  BY <1>1, <1>5 DEF ResultInv, ChecksAtEnd
<1> QED BY <1>1, <1>3, <1>6, <1>8, <1>9, <1>10, <1>11, <1>12 DEF IInv, Control

LEMMA Inductive ==
  ASSUME IInv, Waits = TRUE, Flow = TRUE, EarlyHandler = FALSE, [Next]_vars
  PROVE  IInv'
<1>1. CASE UNCHANGED vars
  <2>1. UNCHANGED <<dev, tx, rx, line, due, out, en, isr, pc, cl, ret, txf>>
    BY <1>1 DEF vars, handle, thread, line
  <2>2. LineType' /\ Balance' /\ OnLine' = OnLine /\ (LineIdle' <=> LineIdle)
    BY <2>1, SameLine DEF IInv
  <2>3. ResultInv'
    BY <2>1, <2>2 DEF IInv, Control, ResultInv, Accounted, line
  <2> QED BY <2>1, <2>2, <2>3, DriversKept DEF handle, thread
<1>2. CASE Load \/ Done \/ ReadsByItself \/ PeerSends \/ Refused
  BY <1>2, LoadStep, DoneStep, ReadsStep, PeerStep, RefusedStep
<1>3. CASE UartCalls \/ UartThread \/ UartIsr
  BY <1>3, UartCallSteps, UartBlockingSteps, UartEnterSteps, UartTxSteps, UartFillStep, UartRxStep
     DEF UartThread, UartIsr
<1>4. CASE SpiCalls \/ SpiThread \/ SpiIsr
  BY <1>4, SpiCallSteps, SpiPrefixStep, SlaveFillsStep, SpiSendSteps, SpiTakeSteps, SpiIsrSteps DEF SpiThread
<1>5. CASE I2cCalls
  BY <1>5, I2cCallStep, I2cTransmitITStep, I2cReceiveITStep DEF I2cCalls
<1>6. CASE I2cThread
  BY <1>6, AddressSentStep, WriteOneStep, ReadOneStep, TakeAllStep, LastOneStep, DrainStep, WaitStep,
     PollStep, PolledStep, FillITStep, FullITStep, MaskSteps, AskITStep DEF I2cThread
<1>7. CASE I2cIsr
  BY <1>7, I2cPassSteps, I2cAbortStep, I2cFillStep, I2cTakeStep, I2cAskStep DEF I2cIsr
<1> QED BY <1>1, <1>2, <1>3, <1>4, <1>5, <1>6, <1>7 DEF Next, Calls, Thread, Isr

LEMMA Invariant ==
  ASSUME Waits = TRUE, Flow = TRUE, EarlyHandler = FALSE PROVE Spec => []IInv
<1>1. Init => IInv
  BY InitHolds
<1>2. IInv /\ [Next]_vars => IInv'
  BY Inductive
<1> QED BY <1>1, <1>2, PTL DEF Spec

\* The handles keep to their buffers, whatever the sizes of the transfers and of
\* the FIFOs: a receive interrupt of I2C takes no frame beyond u32_RxSize,
\* because no more READ commands are queued (driver_uart.c:60,
\* driver_spi_master.c:20, driver_i2c.c:97).  The I2C handler does not come between
\* the two lines that enable its interrupts (driver_i2c.c:553): left with TX_EMPTY
\* it could send a frame beyond the buffer.
THEOREM TypeCorrect ==
  ASSUME Waits = TRUE, Flow = TRUE, EarlyHandler = FALSE PROVE Spec => []TypeOK
<1>1. IInv => TypeOK
  <2>1. ASSUME IInv PROVE rx.count <= rx.size /\ (dev # "i2c" => tx.count <= tx.size)
    BY <2>1, Whose DEF IInv, Control, UartInv, SpiInv, I2cInv
  <2>2. ASSUME IInv, rx.busy PROVE rx.count < rx.size
    BY <2>2, Whose DEF IInv, Control, UartInv, SpiInv, I2cInv
  <2> QED BY <2>1, <2>2 DEF IInv, TypeOK, LineType, HandleType, CallType
<1> QED BY <1>1, Invariant, PTL

\* For callers that wait for the line, and masters that stop their clock, no
\* driver disables its controller over a frame, and none is lost: what is owed
\* is in the FIFO or on the line, what is due has come or been asked for
\* (driver_spi_master.c:1062, driver_i2c.c:497).
THEOREM NothingIsLost ==
  ASSUME Waits = TRUE, Flow = TRUE, EarlyHandler = FALSE PROVE Spec => []NothingLost
<1>1. IInv => NothingLost
  BY DEF IInv, NothingLost, Balance, Written, Wanted
<1> QED BY <1>1, Invariant, PTL

\* A blocking write that returns true has had all of its frames acknowledged,
\* though the device may refuse any of them at any time
\* (i2c_master_transmit and i2c_sensor_write, driver_i2c.c:361 and 831).  It is so
\* only while no earlier i2c_master_transmit_IT has been left with TX_ABRT enabled,
\* which EarlyHandler = FALSE says (driver_i2c.c:553).
THEOREM SuccessIsReal ==
  ASSUME Waits = TRUE, Flow = TRUE, EarlyHandler = FALSE PROVE Spec => []TrueMeansDone
<1>1. IInv => TrueMeansDone
  <2>1. ASSUME IInv, pc = "idle", ret, cl.kind \in {"transmit", "sensor_write"} PROVE out = cl.got
    <3>1. dev = "i2c"
      BY <2>1 DEF IInv, CallType
    <3> QED BY <2>1, <3>1 DEF IInv, Control, ResultInv, Accounted, ChecksAtEnd
  <2> QED BY <2>1 DEF TrueMeansDone
<1> QED BY <1>1, Invariant, PTL
=============================================================================
