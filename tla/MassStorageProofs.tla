------------------------- MODULE MassStorageProofs --------------------------
(* Theorems about MassStorage for disks of any size and any number of       *)
(* commands, as long as the bus is not reset inside a transfer.             *)
EXTENDS MassStorage, TLAPS

Total == Blocks * PerBlock

(***************************************************************************)
(* The inductive invariant                                                 *)
(***************************************************************************)
Flags == [rx : BOOLEAN, tx : BOOLEAN, usb : BOOLEAN]

DeviceTyped ==
  /\ disk \in [Packet -> Tags]
  /\ writing \in BOOLEAN /\ wptr \in 0 .. Total /\ wcnt \in 0 .. Total
  /\ reading \in BOOLEAN /\ rptr \in 0 .. Total /\ rcnt \in 0 .. Total
  /\ cbw \in Tags
HandlerTyped ==
  /\ isr \in {"idle", "rxflags", "rx", "answer", "first", "tx", "usb"}
  /\ stat \in Flags
PortsTyped ==
  /\ rx \in [kind : Kinds, tag : Tags] /\ tx \in [kind : Kinds, tag : Tags]
  /\ irq \in Flags /\ txInt \in BOOLEAN
HostTyped ==
  /\ cmd \in [op : Ops, lba : 0 .. Blocks, len : 1 .. Blocks, tag : Tags]
  /\ stage \in {"idle", "out", "in", "status"}
  /\ left \in 0 .. Total /\ want \in [Packet -> Tags]
Typed == DeviceTyped /\ HandlerTyped /\ PortsTyped /\ HostTyped

\* The latched interrupts against what is in the FIFO.
Latches ==
  /\ irq.rx => rx # None
  /\ isr = "rx" /\ stat.rx => ~irq.rx /\ (rx # None \/ irq.usb)
  /\ irq.usb => stage = "idle"
  /\ rx.kind = "none" => rx = None

\* The host asks for what the disk has, and numbers its commands.
Fits ==
  /\ cmd.lba + cmd.len <= Blocks
  /\ cmd.op \in {"inquiry", "ready"} => cmd.lba = 0 /\ cmd.len = 1
  /\ cbw <= cmd.tag

Seen == cbw = cmd.tag                           \* the device has the command
Pos == First(cmd) + Count(cmd) - left           \* the packet the host is at
Csw == [kind |-> "csw", tag |-> cmd.tag]

\* No transfer is under way in the device.
Quiet ==
  /\ ~writing /\ wcnt = 0 /\ ~reading /\ rcnt = 0 /\ tx = None
  /\ isr \notin {"answer", "first"} /\ disk = want

IdleSound ==
  stage = "idle" => Quiet /\ rx.kind \notin {"cbw", "data"} /\ rx.tag <= cmd.tag

\* The command is in the FIFO.
UnseenSound ==
  stage # "idle" /\ ~Seen =>
    /\ Quiet /\ rx = [kind |-> "cbw", tag |-> cmd.tag]
    /\ stage = CASE cmd.op = "write" -> "out" [] cmd.op = "ready" -> "status" [] OTHER -> "in"
    /\ left = IF cmd.op = "inquiry" THEN 1 ELSE Count(cmd)

AnswerSound ==
  stage # "idle" /\ Seen /\ cmd.op \in {"ready", "inquiry"} =>
    /\ ~writing /\ wcnt = 0 /\ ~reading /\ rcnt = 0 /\ disk = want /\ rx = None
    /\ isr # "first"
    /\ isr # "answer" => stage = "status" /\ tx = Csw
    /\ isr = "answer" => /\ cmd.op = "inquiry"
                         /\ \/ tx = None /\ stage = "status"
                            \/ tx.kind = "info" /\ stage = "in" /\ left = 1

\* Pointer and count against the packet the host is at: the packet in the FIFO,
\* if there is one, is that one.
ReadSound ==
  stage # "idle" /\ Seen /\ cmd.op = "read" =>
    /\ ~writing /\ wcnt = 0 /\ disk = want /\ rx = None /\ isr # "answer"
    /\ stage = IF left = 0 THEN "status" ELSE "in"
    /\ left <= Count(cmd)
    /\ isr = "first" => reading /\ tx = None /\ left = Count(cmd)
    /\ ~reading => rcnt = 0 /\ left = 0 /\ tx = Csw
    /\ reading =>
         /\ rptr + rcnt = First(cmd) + Count(cmd)
         /\ \/ tx = None /\ rcnt = left
            \/ tx = [kind |-> "data", tag |-> want[Pos]] /\ left = rcnt + 1

\* The same for a write: the packet in the FIFO is all the disk lacks.
WriteSound ==
  stage # "idle" /\ Seen /\ cmd.op = "write" =>
    /\ ~reading /\ rcnt = 0 /\ isr \notin {"answer", "first"}
    /\ stage = IF left = 0 THEN "status" ELSE "out"
    /\ left <= Count(cmd)
    /\ ~writing => wcnt = 0 /\ left = 0 /\ rx = None /\ tx = Csw /\ disk = want
    /\ writing =>
         /\ tx = None
         /\ wptr + wcnt = First(cmd) + Count(cmd)
         /\ \/ rx = None /\ wcnt = left /\ wcnt > 0 /\ disk = want
            \/ /\ rx = [kind |-> "data", tag |-> cmd.tag] /\ wcnt = left + 1
               /\ want = [disk EXCEPT ![wptr] = cmd.tag]

Sound == IdleSound /\ UnseenSound /\ AnswerSound /\ ReadSound /\ WriteSound
IInv == Typed /\ Latches /\ Fits /\ Sound

-----------------------------------------------------------------------------
(* Sizes and records. *)

\* A transfer of at least one block inside of the disk, counted in packets.
LEMMA Sizes ==
  ASSUME NEW lba \in Nat, NEW len \in Nat \ {0}, lba + len <= Blocks
  PROVE  /\ lba * PerBlock \in Nat /\ len * PerBlock \in Nat \ {0}
         /\ lba * PerBlock + len * PerBlock <= Total
<1>1. Blocks \in Nat /\ PerBlock \in Nat /\ PerBlock > 0
  BY MassStorageAssumption
<1>2. len * PerBlock > 0
  BY <1>1
<1>3. (lba + len) * PerBlock <= Blocks * PerBlock
  BY <1>1
<1>4. (lba + len) * PerBlock = lba * PerBlock + len * PerBlock
  BY <1>1
<1> QED BY <1>1, <1>2, <1>3, <1>4 DEF Total

\* The disk has packets, and the counters do not wrap on it.
LEMMA TotalIs ==
  /\ Total \in Nat \ {0} /\ Packet = 0 .. Total - 1
  /\ Cycle \in Nat /\ 2 * Total < Cycle
  /\ Tags = 0 .. MaxTag /\ MaxTag \in Nat /\ Blocks \in Nat
<1>1. Blocks \in Nat \ {0} /\ PerBlock \in Nat \ {0} /\ Cycle \in Nat /\ Cycle > 2 * Blocks * PerBlock
  BY MassStorageAssumption
<1>2. Blocks * PerBlock \in Nat \ {0} /\ 2 * Blocks * PerBlock = 2 * (Blocks * PerBlock)
  BY <1>1
<1> QED BY <1>1, <1>2, MassStorageAssumption DEF Total, Packet, Tags

LEMMA CommandFits ==
  ASSUME HostTyped, Fits
  PROVE  /\ First(cmd) \in Nat /\ Count(cmd) \in Nat \ {0}
         /\ First(cmd) + Count(cmd) <= Total
<1>1. cmd.lba \in Nat /\ cmd.len \in Nat \ {0} /\ cmd.lba + cmd.len <= Blocks
  BY MassStorageAssumption DEF HostTyped, Fits
<1> QED BY <1>1, Sizes DEF First, Count

\* Typed says what TypeOK says, one conjunct for each actor.
LEMMA TypedIs == Typed <=> TypeOK
<1>1. ASSUME NEW S, NEW x, NEW y, NEW z
      PROVE  /\ {x, y} \subseteq S <=> x \in S /\ y \in S
             /\ {x, y, z} \subseteq S <=> x \in S /\ y \in S /\ z \in S
  OBVIOUS
<1> QED BY <1>1
        DEF Typed, TypeOK, DeviceTyped, HandlerTyped, PortsTyped, HostTyped, Flags, Total

LEMMA NonePacket ==
  /\ None \in [kind : Kinds, tag : Tags]
  /\ \A kind \in Kinds, tag \in Tags : kind # "none" => [kind |-> kind, tag |-> tag] # None
<1>1. None \in [kind : Kinds, tag : Tags]
  BY TotalIs DEF None, Kinds
<1>2. ASSUME NEW kind, NEW tag, kind # "none" PROVE [kind |-> kind, tag |-> tag] # None
  BY <1>2 DEF None
<1> QED BY <1>1, <1>2

LEMMA NoneTag ==
  ASSUME HostTyped
  PROVE  cmd.tag \in Nat /\ None.kind = "none" /\ None.tag = 0 /\ None.tag <= cmd.tag
<1>1. cmd.tag \in 0 .. MaxTag
  BY TotalIs DEF HostTyped
<1> QED BY <1>1, TotalIs DEF None

-----------------------------------------------------------------------------
(* Steps that preserve IInv. *)

LEMMA InitSound == Init => IInv
<1> SUFFICES ASSUME Init PROVE IInv
  OBVIOUS
<1>1. Typed
  <2>1. DeviceTyped
    <3>1. 0 \in Tags /\ 0 \in 0 .. Total
      BY TotalIs
    <3> QED BY <3>1 DEF Init, DeviceTyped
  <2>2. HandlerTyped /\ PortsTyped
    BY NonePacket DEF Init, HandlerTyped, PortsTyped, Flags, NoIrq
  <2>3. NoCmd \in [op : Ops, lba : 0 .. Blocks, len : 1 .. Blocks, tag : Tags]
    BY TotalIs, MassStorageAssumption DEF NoCmd, Ops
  <2>4. HostTyped
    BY <2>3, TotalIs DEF Init, HostTyped
  <2> QED BY <2>1, <2>2, <2>4 DEF Typed
<1>2. Latches /\ Fits
  BY TotalIs, MassStorageAssumption DEF Init, Latches, Fits, NoIrq, NoCmd
<1>3. Sound
  BY <1>1, NoneTag
     DEF Init, Typed, Sound, IdleSound, UnseenSound, AnswerSound, ReadSound, WriteSound, Quiet
<1> QED BY <1>1, <1>2, <1>3 DEF IInv

\* A step of the handler that only looks at the flags.
LEMMA LookKeeps ==
  ASSUME IInv, UNCHANGED <<device, rx, tx, host>>,
         HandlerTyped', irq' \in Flags, txInt' \in BOOLEAN, Latches',
         isr \notin {"answer", "first"}, isr' \notin {"answer", "first"}
  PROVE  IInv'
<1>1. UNCHANGED <<disk, writing, wptr, wcnt, reading, rptr, rcnt, cbw, rx, tx, cmd, stage, left, want>>
  BY DEF device, host
<1>2. Typed'
  BY <1>1 DEF IInv, Typed, DeviceTyped, PortsTyped, HostTyped
<1>3. Fits' /\ Seen' = Seen /\ Quiet' = Quiet /\ Pos' = Pos /\ Csw' = Csw
  BY <1>1 DEF IInv, Fits, Seen, Quiet, Pos, Csw, First, Count
<1>4. IdleSound' /\ UnseenSound'
  BY <1>1, <1>3 DEF IInv, Sound, IdleSound, UnseenSound, Count
<1>5. AnswerSound' /\ ReadSound' /\ WriteSound'
  BY <1>1, <1>3 DEF IInv, Sound, AnswerSound, ReadSound, WriteSound, First, Count
<1> QED BY <1>2, <1>3, <1>4, <1>5 DEF IInv, Sound

LEMMA LookStep ==
  ASSUME IInv,
         ReadTxFlags \/ ReadRxFlags \/ NoRx \/ EmptyRx \/ NothingToSend \/ UsbStatus
  PROVE  IInv'
<1>1. /\ UNCHANGED <<device, rx, tx, host>>
      /\ isr \notin {"answer", "first"} /\ isr' \notin {"answer", "first"}
  BY DEF ReadTxFlags, ReadRxFlags, NoRx, EmptyRx, NothingToSend, UsbStatus
<1>2. HandlerTyped' /\ irq' \in Flags /\ txInt' \in BOOLEAN
  <2>1. HandlerTyped /\ irq \in Flags /\ txInt \in BOOLEAN
    BY DEF IInv, Typed, PortsTyped
  <2>2. CASE ReadTxFlags
    BY <2>1, <2>2 DEF HandlerTyped, Flags, ReadTxFlags
  <2>3. CASE ReadRxFlags
    BY <2>1, <2>3 DEF HandlerTyped, Flags, ReadRxFlags
  <2>4. CASE NoRx \/ EmptyRx \/ NothingToSend
    BY <2>1, <2>4 DEF HandlerTyped, NoRx, EmptyRx, NothingToSend
  <2>5. CASE UsbStatus
    BY <2>1, <2>5 DEF HandlerTyped, Flags, UsbStatus, NoIrq
  <2> QED BY <2>2, <2>3, <2>4, <2>5
<1>3. Latches'
  BY DEF IInv, Typed, HandlerTyped, PortsTyped, Flags, NoIrq, Latches, host,
         ReadTxFlags, ReadRxFlags, NoRx, EmptyRx, NothingToSend, UsbStatus
<1> QED BY <1>1, <1>2, <1>3, LookKeeps

(***************************************************************************)
(* Steps of the host.                                                      *)
(***************************************************************************)
LEMMA CommandStep ==
  ASSUME IInv, NEW op \in Ops, NEW lba \in 0 .. Blocks - 1, NEW len \in 1 .. Blocks,
         Command(op, lba, len)
  PROVE  IInv'
<1> DEFINE c == [op |-> op, lba |-> lba, len |-> len, tag |-> cmd.tag + 1]
<1>1. /\ stage = "idle" /\ rx = None /\ ~irq.usb /\ cmd.tag < MaxTag
      /\ lba + len <= Blocks
      /\ op \in {"inquiry", "ready"} => lba = 0 /\ len = 1
      /\ cmd' = c
      /\ stage' = CASE op = "write" -> "out" [] op = "ready" -> "status" [] OTHER -> "in"
      /\ left' = IF op = "inquiry" THEN 1 ELSE Count(c)
      /\ rx' = [kind |-> "cbw", tag |-> c.tag]
      /\ irq' = [irq EXCEPT !.rx = TRUE]
      /\ UNCHANGED <<device, handler, tx, txInt, want>>
  BY DEF Command
<1>2. c.tag \in Tags /\ c.tag > cmd.tag /\ cmd.tag \in Nat /\ Blocks \in Nat
  <2>1. cmd.tag \in 0 .. MaxTag
    BY TotalIs DEF IInv, Typed, HostTyped
  <2> QED BY <1>1, <2>1, TotalIs
<1>3. HostTyped' /\ Fits'
  <2>1. cmd' \in [op : Ops, lba : 0 .. Blocks, len : 1 .. Blocks, tag : Tags]
    BY <1>1, <1>2
  <2>2. stage' \in {"idle", "out", "in", "status"}
    BY <1>1 DEF Ops
  <2>3. Fits'
    <3>1. cbw' = cbw /\ cbw \in Nat /\ cbw <= cmd.tag
      BY <1>1, TotalIs DEF IInv, Typed, DeviceTyped, Fits, device
    <3>2. cbw <= c.tag
      BY <1>2, <3>1, TotalIs
    <3> QED BY <1>1, <3>1, <3>2 DEF Fits
  <2>4. left' \in 0 .. Total
    <3>1. Count(c) \in Nat /\ Count(c) <= Total /\ 1 <= Total /\ Total \in Nat
      <4>1. len * PerBlock \in Nat /\ lba * PerBlock \in Nat /\ lba * PerBlock + len * PerBlock <= Total
        <5>1. lba \in Nat /\ len \in Nat \ {0}
          BY <1>2
        <5> QED BY <1>1, <5>1, Sizes
      <4> QED BY <4>1, TotalIs DEF Count
    <3> QED BY <1>1, <3>1
  <2> QED BY <1>1, <2>1, <2>2, <2>3, <2>4 DEF IInv, Typed, HostTyped
<1>4. Typed'
  <2>1. rx' \in [kind : Kinds, tag : Tags] /\ irq' \in Flags
    BY <1>1, <1>2 DEF IInv, Typed, PortsTyped, Flags, Kinds
  <2> QED BY <1>1, <1>3, <2>1 DEF IInv, Typed, DeviceTyped, HandlerTyped, PortsTyped, device, handler
<1>5. Quiet /\ Quiet'
  BY <1>1 DEF IInv, Sound, IdleSound, Quiet, device, handler
<1>6. rx' # None
  BY <1>1 DEF None
<1>7. Latches'
  BY <1>1, <1>6 DEF IInv, Typed, PortsTyped, Flags, Latches, handler
<1>8. stage' # "idle" /\ ~Seen'
  <2>1. cbw' = cbw /\ cbw \in Nat /\ cbw <= cmd.tag
    BY <1>1, TotalIs DEF IInv, Typed, DeviceTyped, Fits, device
  <2>2. cmd'.tag > cmd.tag
    BY <1>1, <1>2
  <2>3. ~Seen'
    BY <1>2, <2>1, <2>2 DEF Seen
  <2> QED BY <1>1, <2>3 DEF Ops
<1>9. Sound'
  BY <1>1, <1>5, <1>8 DEF Sound, IdleSound, UnseenSound, AnswerSound, ReadSound, WriteSound, Count
<1> QED BY <1>3, <1>4, <1>7, <1>9 DEF IInv

LEMMA StrayStep ==
  ASSUME IInv, Stray
  PROVE  IInv'
<1>1. /\ stage = "idle" /\ rx = None /\ ~irq.usb
      /\ \E t \in 0 .. cmd.tag : rx' = [kind |-> "other", tag |-> t]
      /\ irq' = [irq EXCEPT !.rx = TRUE]
      /\ UNCHANGED <<device, handler, tx, txInt, host>>
  BY DEF Stray
<1>2. rx' \in [kind : Kinds, tag : Tags] /\ rx' # None
  BY <1>1, TotalIs DEF IInv, Typed, HostTyped, Kinds, None
<1>3. Typed' /\ Fits'
  BY <1>1, <1>2 DEF IInv, Typed, DeviceTyped, HandlerTyped, PortsTyped, HostTyped, Flags,
                    Fits, device, handler, host
<1>4. Latches'
  BY <1>1, <1>2 DEF IInv, Typed, PortsTyped, Flags, Latches, handler, host
<1>5. Sound'
  BY <1>1 DEF IInv, Sound, IdleSound, UnseenSound, AnswerSound, ReadSound, WriteSound, Quiet,
              device, handler, host
<1> QED BY <1>3, <1>4, <1>5 DEF IInv

LEMMA SendDataStep ==
  ASSUME IInv, SendData
  PROVE  IInv'
<1>1. /\ stage = "out" /\ rx = None
      /\ rx' = [kind |-> "data", tag |-> cmd.tag]
      /\ irq' = [irq EXCEPT !.rx = TRUE]
      /\ left' = left - 1
      /\ stage' = IF left = 1 THEN "status" ELSE "out"
      /\ want' = [want EXCEPT ![Pos] = cmd.tag]
      /\ UNCHANGED <<device, handler, tx, txInt, cmd>>
  BY DEF SendData, Pos
<1>2. cmd.op = "write" /\ Seen /\ writing
  BY <1>1 DEF IInv, Typed, HostTyped, Ops, Sound, UnseenSound, AnswerSound, ReadSound, WriteSound, None
<1>3. /\ ~reading /\ rcnt = 0 /\ isr \notin {"answer", "first"}
      /\ left > 0 /\ left <= Count(cmd) /\ left = wcnt /\ tx = None /\ disk = want
      /\ wptr + wcnt = First(cmd) + Count(cmd)
  BY <1>1, <1>2, TotalIs DEF IInv, Typed, HostTyped, DeviceTyped, Sound, WriteSound, None
<1>4. Pos = wptr /\ wptr \in Packet
  <2>1. wptr \in Nat /\ wcnt \in Nat /\ left \in Nat
    BY TotalIs DEF IInv, Typed, DeviceTyped, HostTyped
  <2>2. /\ First(cmd) \in Nat /\ Count(cmd) \in Nat
        /\ First(cmd) + Count(cmd) <= Total
    BY CommandFits DEF IInv, Typed
  <2> QED BY <1>3, <2>1, <2>2, TotalIs DEF Pos
<1>5. rx' \in [kind : Kinds, tag : Tags] /\ rx' # None
  BY <1>1, TotalIs DEF IInv, Typed, HostTyped, Kinds, None
<1>6. Typed' /\ Fits'
  <2>1. want' \in [Packet -> Tags]
    BY <1>1, <1>4 DEF IInv, Typed, HostTyped
  <2>2. left' \in 0 .. Total
    BY <1>1, <1>3, TotalIs DEF IInv, Typed, HostTyped
  <2> QED BY <1>1, <1>5, <2>1, <2>2
          DEF IInv, Typed, DeviceTyped, HandlerTyped, PortsTyped, HostTyped, Flags, Fits,
              device, handler
<1>7. Latches'
  BY <1>1, <1>2, <1>5 DEF IInv, Typed, PortsTyped, Flags, Latches, handler
<1>8. WriteSound'
  <2>1. stage' = IF left' = 0 THEN "status" ELSE "out"
    BY <1>1, <1>3, TotalIs DEF IInv, Typed, HostTyped
  <2>2. left' <= Count(cmd)' /\ wcnt' = left' + 1
    BY <1>1, <1>3, TotalIs, CommandFits DEF IInv, Typed, HostTyped, Count, device
  <2>3. want' = [disk' EXCEPT ![wptr'] = cmd'.tag]
    BY <1>1, <1>3, <1>4 DEF device
  <2>4. wptr' + wcnt' = First(cmd)' + Count(cmd)'
    BY <1>1, <1>3 DEF device, First, Count
  <2> QED BY <1>1, <1>2, <1>3, <2>1, <2>2, <2>3, <2>4 DEF WriteSound, device, handler
<1>9. stage' # "idle" /\ Seen' /\ cmd'.op = "write"
  BY <1>1, <1>2 DEF Seen, device
<1>10. Sound'
  BY <1>8, <1>9 DEF Sound, IdleSound, UnseenSound, AnswerSound, ReadSound
<1> QED BY <1>6, <1>7, <1>10 DEF IInv

LEMMA ReadDataStep ==
  ASSUME IInv, ReadData
  PROVE  IInv'
<1>1. /\ stage = "in" /\ tx # None /\ tx' = None
      /\ irq' = [irq EXCEPT !.tx = TRUE]
      /\ left' = left - 1
      /\ stage' = IF left = 1 THEN "status" ELSE "in"
      /\ UNCHANGED <<device, handler, rx, txInt, cmd, want>>
  BY DEF ReadData, Sent
<1>2. Seen /\ cmd.op \in {"inquiry", "read"}
  BY <1>1 DEF IInv, Typed, HostTyped, Ops, Sound, UnseenSound, AnswerSound, WriteSound, Quiet
<1>3. left > 0 /\ left \in 0 .. Total /\ left - 1 \in 0 .. Total
  <2>1. left \in 0 .. Total
    BY DEF IInv, Typed, HostTyped
  <2>2. left # 0
    BY <1>1, <1>2 DEF IInv, Sound, AnswerSound, ReadSound, Csw
  <2> QED BY <2>1, <2>2, TotalIs
<1>4. Typed' /\ Fits'
  BY <1>1, <1>3, NonePacket
     DEF IInv, Typed, DeviceTyped, HandlerTyped, PortsTyped, HostTyped, Flags, Fits, device, handler
<1>5. Latches'
  BY <1>1, <1>2 DEF IInv, Typed, PortsTyped, Flags, Latches, handler
<1>6. stage' # "idle" /\ Seen' /\ cmd' = cmd
  BY <1>1, <1>2 DEF Seen, device
<1>7. CASE cmd.op = "inquiry"
  <2>1. AnswerSound'
    BY <1>1, <1>2, <1>7 DEF IInv, Sound, AnswerSound, Csw, device, handler
  <2> QED BY <1>4, <1>5, <1>6, <1>7, <2>1
          DEF IInv, Sound, IdleSound, UnseenSound, ReadSound, WriteSound
<1>8. CASE cmd.op = "read"
  <2>1. reading /\ rcnt = left - 1 /\ isr # "first" /\ left <= Count(cmd)
    <3>1. reading
      BY <1>1, <1>2, <1>3, <1>8 DEF IInv, Sound, ReadSound
    <3>2. left = rcnt + 1 /\ isr # "first" /\ left <= Count(cmd)
      BY <1>1, <1>2, <1>8, <3>1 DEF IInv, Sound, ReadSound
    <3> QED BY <3>1, <3>2, <1>3, TotalIs DEF IInv, Typed, DeviceTyped
  <2>2. left' <= Count(cmd)'
    BY <1>1, <1>3, <2>1, CommandFits, TotalIs DEF IInv, Typed, Count
  <2>3. stage' = IF left' = 0 THEN "status" ELSE "in"
    BY <1>1, <1>3, TotalIs
  <2>4. ReadSound'
    BY <1>1, <1>2, <1>8, <2>1, <2>2, <2>3
       DEF IInv, Sound, ReadSound, First, Count, device, handler
  <2> QED BY <1>4, <1>5, <1>6, <1>8, <2>4
          DEF IInv, Sound, IdleSound, UnseenSound, AnswerSound, WriteSound
<1> QED BY <1>2, <1>7, <1>8

LEMMA ReadStatusStep ==
  ASSUME IInv, ReadStatus
  PROVE  IInv'
<1>1. /\ stage = "status" /\ tx # None /\ tx' = None /\ stage' = "idle"
      /\ irq' = [irq EXCEPT !.tx = TRUE]
      /\ UNCHANGED <<device, handler, rx, txInt, cmd, left, want>>
  BY DEF ReadStatus, Sent
<1>2. Seen
  BY <1>1 DEF IInv, Sound, UnseenSound, Quiet
<1>4. ~writing /\ wcnt = 0 /\ ~reading /\ rcnt = 0 /\ isr \notin {"answer", "first"}
      /\ disk = want /\ rx = None
  <2>1. CASE cmd.op \in {"ready", "inquiry"}
    BY <1>1, <1>2, <2>1 DEF IInv, Sound, AnswerSound
  <2>2. CASE cmd.op = "read"
    <3>1. left = 0 /\ left <= Count(cmd) /\ Count(cmd) # 0
      BY <1>1, <1>2, <2>2, CommandFits DEF IInv, Typed, Sound, ReadSound
    <3>2. ~reading
      BY <1>1, <1>2, <2>2, <3>1, TotalIs DEF IInv, Typed, DeviceTyped, Sound, ReadSound
    <3> QED BY <1>2, <1>1, <2>2, <3>1, <3>2 DEF IInv, Sound, ReadSound
  <2>3. CASE cmd.op = "write"
    BY <1>1, <1>2, <2>3 DEF IInv, Sound, WriteSound
  <2> QED BY <2>1, <2>2, <2>3 DEF IInv, Typed, HostTyped, Ops
<1>5. Typed' /\ Fits'
  BY <1>1, NonePacket
     DEF IInv, Typed, DeviceTyped, HandlerTyped, PortsTyped, HostTyped, Flags, Fits, device, handler
<1>6. Latches'
  BY <1>1 DEF IInv, Typed, PortsTyped, Flags, Latches, handler
<1>7. rx'.tag <= cmd'.tag /\ rx'.kind = "none"
  BY <1>1, <1>4, NoneTag DEF IInv, Typed
<1>8. Sound'
  BY <1>1, <1>4, <1>7 DEF Sound, IdleSound, UnseenSound, AnswerSound, ReadSound, WriteSound, Quiet,
                          None, device, handler
<1> QED BY <1>5, <1>6, <1>8 DEF IInv

\* A bus reset at a point where it does not cut off a transfer.
LEMMA BusResetStep ==
  ASSUME IInv, BusReset, ~ResetsInside
  PROVE  IInv'
<1>1. /\ stage = "idle" \/ ~Seen
      /\ rx' = None /\ tx' = None /\ txInt' = FALSE
      /\ irq' = [NoIrq EXCEPT !.usb = TRUE]
      /\ stage' = "idle"
      /\ UNCHANGED <<device, handler, cmd, left, want>>
  BY DEF BusReset, Seen
<1>2. Quiet
  BY <1>1 DEF IInv, Sound, IdleSound, UnseenSound
<1>3. irq' = [rx |-> FALSE, tx |-> FALSE, usb |-> TRUE]
  BY <1>1 DEF NoIrq
<1>4. PortsTyped'
  <2>1. irq' \in Flags
    BY <1>3 DEF Flags
  <2> QED BY <1>1, <2>1, NonePacket DEF PortsTyped
<1>5. Typed' /\ Fits'
  BY <1>1, <1>4 DEF IInv, Typed, DeviceTyped, HandlerTyped, HostTyped, Fits, device, handler
<1>6. Latches'
  BY <1>1, <1>3 DEF Latches
<1>7. rx'.tag <= cmd'.tag /\ rx'.kind = "none"
  BY <1>1, NoneTag DEF IInv, Typed
<1>8. Sound'
  BY <1>1, <1>2, <1>7 DEF Sound, IdleSound, UnseenSound, AnswerSound, ReadSound, WriteSound, Quiet,
                          None, device, handler
<1> QED BY <1>5, <1>6, <1>8 DEF IInv

(***************************************************************************)
(* Steps of the handler.                                                   *)
(***************************************************************************)
\* What is in the FIFO when the handler has seen the interrupt of a packet.
LEMMA PacketSeen ==
  ASSUME IInv, isr = "rx", stat.rx
  PROVE  /\ ~irq.rx
         /\ writing => /\ stage # "idle" /\ Seen /\ cmd.op = "write"
                       /\ rx = [kind |-> "data", tag |-> cmd.tag]
         /\ rx.kind = "cbw" => /\ stage # "idle" /\ ~Seen /\ Quiet
                               /\ rx = [kind |-> "cbw", tag |-> cmd.tag]
<1>1. ~irq.rx /\ (rx # None \/ irq.usb) /\ (irq.usb => stage = "idle")
  BY DEF IInv, Latches
<1>2. ASSUME writing
      PROVE  stage # "idle" /\ Seen /\ cmd.op = "write"
  BY <1>2 DEF IInv, Typed, HostTyped, Ops, Sound, IdleSound, UnseenSound, AnswerSound, ReadSound, Quiet
<1>3. ASSUME writing
      PROVE  rx = [kind |-> "data", tag |-> cmd.tag]
  BY <1>1, <1>2, <1>3 DEF IInv, Sound, WriteSound
<1>4. ASSUME rx.kind = "cbw"
      PROVE  stage # "idle" /\ ~Seen
  BY <1>4 DEF IInv, Typed, HostTyped, Ops, Sound, IdleSound, AnswerSound, ReadSound, WriteSound, None
<1>5. ASSUME rx.kind = "cbw"
      PROVE  Quiet /\ rx = [kind |-> "cbw", tag |-> cmd.tag]
  BY <1>4, <1>5 DEF IInv, Sound, UnseenSound
<1> QED BY <1>1, <1>2, <1>3, <1>4, <1>5

\* A packet of a write reaches the disk; behind the last one goes the status.
LEMMA RecvDataStep ==
  ASSUME IInv, RecvData
  PROVE  IInv'
<1>1. /\ isr = "rx" /\ stat.rx /\ writing /\ isr' = "tx" /\ rx' = None
      /\ disk' = IF wptr \in Packet THEN [disk EXCEPT ![wptr] = rx.tag] ELSE disk
      /\ wptr' = wptr + 1 /\ wcnt' = Minus1(wcnt)
      /\ IF wcnt = 1 THEN SendCSW(cbw) /\ writing' = FALSE ELSE UNCHANGED <<tx, writing>>
      /\ UNCHANGED <<reading, rptr, rcnt, cbw, txInt, stat, irq, host>>
  BY DEF RecvData, Flush
<1>2. /\ ~irq.rx /\ stage # "idle" /\ Seen /\ cmd.op = "write"
      /\ rx = [kind |-> "data", tag |-> cmd.tag]
  BY <1>1, PacketSeen
<1>3. /\ ~reading /\ rcnt = 0 /\ left <= Count(cmd)
      /\ stage = IF left = 0 THEN "status" ELSE "out"
      /\ tx = None /\ wptr + wcnt = First(cmd) + Count(cmd)
      /\ wcnt = left + 1 /\ want = [disk EXCEPT ![wptr] = cmd.tag]
  BY <1>1, <1>2 DEF IInv, Sound, WriteSound, None
<1>4. /\ wptr \in Nat /\ wcnt \in Nat /\ left \in Nat /\ wptr < Total /\ wcnt > 0 /\ wcnt <= Total
      /\ wptr \in Packet /\ cmd.tag \in Tags
  <2>1. wptr \in 0 .. Total /\ wcnt \in 0 .. Total /\ left \in 0 .. Total /\ cmd.tag \in Tags
    BY DEF IInv, Typed, DeviceTyped, HostTyped
  <2>2. /\ First(cmd) \in Nat /\ Count(cmd) \in Nat
        /\ First(cmd) + Count(cmd) <= Total
    BY CommandFits DEF IInv, Typed
  <2> QED BY <1>3, <2>1, <2>2, TotalIs
<1>5. wcnt' = left /\ disk' = want
  <2>1. Minus1(wcnt) = wcnt - 1
    BY <1>4, TotalIs DEF Minus1
  <2> QED BY <1>1, <1>2, <1>3, <1>4, <2>1
<1>6. /\ cmd' = cmd /\ stage' = stage /\ left' = left /\ want' = want
      /\ Seen' /\ First(cmd)' = First(cmd) /\ Count(cmd)' = Count(cmd)
  BY <1>1, <1>2 DEF host, Seen, First, Count
<1>7. /\ left = 0 => ~writing' /\ tx' = Csw
      /\ left # 0 => writing' /\ tx' = None
  <2>1. CASE left = 0
    <3>1. wcnt = 1 /\ cbw = cmd.tag
      BY <1>2, <1>3, <2>1 DEF Seen
    <3> QED BY <1>1, <1>3, <2>1, <3>1 DEF SendCSW, Loads, Csw
  <2>2. CASE left # 0
    <3>1. wcnt # 1
      BY <1>3, <1>4, <2>2
    <3> QED BY <1>1, <1>3, <2>2, <3>1
  <2> QED BY <2>1, <2>2
<1>8. DeviceTyped' /\ HandlerTyped'
  <2>1. disk' \in [Packet -> Tags] /\ wptr' \in 0 .. Total /\ wcnt' \in 0 .. Total /\ writing' \in BOOLEAN
    <3>1. disk' \in [Packet -> Tags] /\ left \in 0 .. Total
      BY <1>5 DEF IInv, Typed, HostTyped
    <3>2. wptr' \in 0 .. Total
      BY <1>1, <1>4, TotalIs
    <3>3. writing' \in BOOLEAN
      BY <1>1 DEF IInv, Typed, DeviceTyped
    <3> QED BY <1>5, <3>1, <3>2, <3>3
  <2> QED BY <1>1, <2>1 DEF IInv, Typed, DeviceTyped, HandlerTyped
<1>9. Typed' /\ Fits'
  <2>1. tx' \in [kind : Kinds, tag : Tags]
    BY <1>4, <1>7, NonePacket DEF Csw, Kinds
  <2>2. PortsTyped'
    BY <1>1, <2>1, NonePacket DEF IInv, Typed, PortsTyped
  <2> QED BY <1>1, <1>6, <1>8, <2>2 DEF IInv, Typed, HostTyped, Fits
<1>10. Latches'
  BY <1>1, <1>2, <1>6 DEF IInv, Latches
<1>11. WriteSound'
  <2>1. wptr' + wcnt' = First(cmd)' + Count(cmd)'
    BY <1>1, <1>3, <1>4, <1>5, <1>6
  <2>2. Csw' = Csw /\ (left # 0 => wcnt' > 0)
    BY <1>4, <1>5, <1>6 DEF Csw
  <2> QED BY <1>1, <1>3, <1>5, <1>6, <1>7, <2>1, <2>2 DEF WriteSound
<1>12. Sound'
  BY <1>2, <1>6, <1>11 DEF Sound, IdleSound, UnseenSound, AnswerSound, ReadSound
<1> QED BY <1>9, <1>10, <1>12 DEF IInv

LEMMA RecvOtherStep ==
  ASSUME IInv, RecvOther
  PROVE  IInv'
<1>1. /\ isr = "rx" /\ stat.rx /\ ~writing /\ rx # None /\ rx.kind # "cbw"
      /\ isr' = "tx" /\ rx' = None /\ cbw' = rx.tag
      /\ UNCHANGED <<disk, writing, wptr, wcnt, reading, rptr, rcnt, tx, txInt, stat, irq, host>>
  BY DEF RecvOther, Flush
<1>2. ~irq.rx
  BY <1>1, PacketSeen
<1>3. stage = "idle"
  BY <1>1 DEF IInv, Typed, HostTyped, Ops, Sound, UnseenSound, AnswerSound, ReadSound, WriteSound
<1>4. rx.tag \in Tags /\ rx.tag <= cmd.tag
  BY <1>3 DEF IInv, Typed, PortsTyped, Sound, IdleSound
<1>5. Typed' /\ Fits'
  BY <1>1, <1>4, NonePacket
     DEF IInv, Typed, DeviceTyped, HandlerTyped, PortsTyped, HostTyped, Fits, host
<1>6. Latches'
  BY <1>1, <1>2, <1>3 DEF IInv, Latches, host
<1>7. rx'.tag <= cmd'.tag /\ rx'.kind = "none"
  BY <1>1, NoneTag DEF IInv, Typed, host
<1>8. Sound'
  BY <1>1, <1>3, <1>7 DEF IInv, Sound, IdleSound, UnseenSound, AnswerSound, ReadSound, WriteSound,
                          Quiet, None, host
<1> QED BY <1>5, <1>6, <1>8 DEF IInv

\* What the commands have in common: the device and the host are then at the
\* same command.
LEMMA CommandTaken ==
  ASSUME IInv, NEW op \in Ops, RecvCommand(op), isr' \in {"answer", "first", "tx"}
  PROVE  /\ stage # "idle" /\ stage' # "idle" /\ Quiet /\ Seen' /\ cmd.op = op /\ cmd'.op = op
         /\ rx' = None /\ Latches' /\ HandlerTyped' /\ HostTyped' /\ Fits'
         /\ cbw' = cmd.tag /\ cbw' \in Tags /\ rx' \in [kind : Kinds, tag : Tags]
         /\ First(cmd)' = First(cmd) /\ Count(cmd)' = Count(cmd) /\ Csw' = Csw
         /\ stage' = CASE op = "write" -> "out" [] op = "ready" -> "status" [] OTHER -> "in"
         /\ left' = (IF op = "inquiry" THEN 1 ELSE Count(cmd)) /\ rx.tag = cmd.tag
<1>1. /\ isr = "rx" /\ stat.rx /\ ~writing /\ rx.kind = "cbw" /\ cmd.op = op
      /\ cbw' = rx.tag /\ rx' = None /\ UNCHANGED <<stat, irq, cmd, stage, left, want>>
  BY DEF RecvCommand, Flush, host
<1>2. /\ ~irq.rx /\ stage # "idle" /\ ~Seen /\ Quiet
      /\ rx = [kind |-> "cbw", tag |-> cmd.tag]
  BY <1>1, PacketSeen
<1>3. cbw' = cmd.tag /\ cmd.tag \in Tags /\ cmd.tag <= cmd.tag
  BY <1>1, <1>2, TotalIs DEF IInv, Typed, HostTyped
<1>4. First(cmd)' = First(cmd) /\ Count(cmd)' = Count(cmd) /\ Csw' = Csw
  BY <1>1 DEF First, Count, Csw
<1>5. HandlerTyped' /\ HostTyped' /\ Fits' /\ Latches'
  BY <1>1, <1>2, <1>3 DEF IInv, Typed, HandlerTyped, HostTyped, Fits, Latches
<1>6. /\ stage' = CASE op = "write" -> "out" [] op = "ready" -> "status" [] OTHER -> "in"
      /\ left' = IF op = "inquiry" THEN 1 ELSE Count(cmd)
  BY <1>1, <1>2 DEF IInv, Sound, UnseenSound
<1> QED BY <1>1, <1>2, <1>3, <1>4, <1>5, <1>6, NonePacket DEF Seen

LEMMA RecvAnswerStep ==
  ASSUME IInv, RecvInquiry \/ RecvReady
  PROVE  IInv'
<1>1. PICK op \in {"inquiry", "ready"} : RecvCommand(op) /\ isr' = IF op = "inquiry" THEN "answer" ELSE "tx"
  BY DEF RecvInquiry, RecvReady
<1>2. UNCHANGED <<disk, writing, wptr, wcnt, reading, rptr, rcnt, txInt>> /\ op \in Ops
  BY DEF RecvInquiry, RecvReady, Ops
<1>3. /\ stage # "idle" /\ stage' # "idle" /\ Quiet /\ Seen' /\ cmd.op = op /\ cmd'.op = op
      /\ rx' = None /\ Latches' /\ HandlerTyped' /\ HostTyped' /\ Fits'
      /\ cbw' = cmd.tag /\ cbw' \in Tags /\ rx' \in [kind : Kinds, tag : Tags] /\ rx.tag = cmd.tag
      /\ stage' = IF op = "ready" THEN "status" ELSE "in"
      /\ op = "inquiry" => left' = 1
  BY <1>1, <1>2, CommandTaken
<1>4. tx' = IF op = "inquiry" THEN [kind |-> "info", tag |-> cmd.tag] ELSE Csw
  BY <1>1, <1>3 DEF RecvInquiry, RecvReady, RecvCommand, SendCSW, Loads, Csw, Quiet
<1>5. Csw' = Csw /\ irq' = irq /\ want' = want
  BY <1>1 DEF RecvCommand, Flush, Csw, host
<1>6. Typed'
  <2>1. tx' \in [kind : Kinds, tag : Tags]
    BY <1>3, <1>4 DEF Kinds, Csw
  <2> QED BY <1>2, <1>3, <1>5, <2>1 DEF IInv, Typed, DeviceTyped, PortsTyped
<1>7. AnswerSound'
  BY <1>1, <1>2, <1>3, <1>4, <1>5 DEF AnswerSound, Quiet
<1>8. Sound'
  BY <1>1, <1>3, <1>7 DEF Sound, IdleSound, UnseenSound, ReadSound, WriteSound
<1> QED BY <1>3, <1>6, <1>8 DEF IInv

LEMMA RecvWriteStep ==
  ASSUME IInv, RecvWrite
  PROVE  IInv'
<1>1. /\ RecvCommand("write") /\ isr' = "tx"
      /\ writing' = TRUE /\ wptr' = First(cmd) /\ wcnt' = Count(cmd)
      /\ UNCHANGED <<disk, reading, rptr, rcnt, tx, txInt>>
  BY DEF RecvWrite
<1>2. /\ stage # "idle" /\ stage' # "idle" /\ Quiet /\ Seen' /\ cmd.op = "write" /\ cmd'.op = "write"
      /\ rx' = None /\ Latches' /\ HandlerTyped' /\ HostTyped' /\ Fits'
      /\ cbw' \in Tags /\ rx' \in [kind : Kinds, tag : Tags]
      /\ First(cmd)' = First(cmd) /\ Count(cmd)' = Count(cmd)
      /\ stage' = "out" /\ left' = Count(cmd)
  BY <1>1, CommandTaken DEF Ops
<1>3. /\ First(cmd) \in Nat /\ Count(cmd) \in Nat \ {0}
      /\ First(cmd) + Count(cmd) <= Total
  BY CommandFits DEF IInv, Typed
<1>4. want' = want /\ irq' = irq
  BY <1>1 DEF RecvCommand, Flush, host
<1>5. Typed'
  <2>1. wptr' \in 0 .. Total /\ wcnt' \in 0 .. Total
    BY <1>1, <1>3, TotalIs
  <2> QED BY <1>1, <1>2, <1>4, <2>1 DEF IInv, Typed, DeviceTyped, PortsTyped
<1>6. WriteSound'
  BY <1>1, <1>2, <1>3, <1>4 DEF WriteSound, Quiet
<1>7. Sound'
  BY <1>2, <1>6 DEF Sound, IdleSound, UnseenSound, AnswerSound, ReadSound
<1> QED BY <1>2, <1>5, <1>7 DEF IInv

\* The count that READ(10) adds to is zero.
LEMMA RecvReadStep ==
  ASSUME IInv, RecvRead
  PROVE  IInv'
<1>1. /\ RecvCommand("read") /\ isr' = "first"
      /\ reading' = TRUE /\ rptr' = First(cmd) /\ rcnt' = (rcnt + Count(cmd)) % Cycle
      /\ UNCHANGED <<disk, writing, wptr, wcnt, tx, txInt>>
  BY DEF RecvRead
<1>2. /\ stage # "idle" /\ stage' # "idle" /\ Quiet /\ Seen' /\ cmd.op = "read" /\ cmd'.op = "read"
      /\ rx' = None /\ Latches' /\ HandlerTyped' /\ HostTyped' /\ Fits'
      /\ cbw' \in Tags /\ rx' \in [kind : Kinds, tag : Tags]
      /\ First(cmd)' = First(cmd) /\ Count(cmd)' = Count(cmd)
      /\ stage' = "in" /\ left' = Count(cmd)
  BY <1>1, CommandTaken DEF Ops
<1>3. /\ First(cmd) \in Nat /\ Count(cmd) \in Nat \ {0}
      /\ First(cmd) + Count(cmd) <= Total
  BY CommandFits DEF IInv, Typed
<1>4. want' = want /\ irq' = irq
  BY <1>1 DEF RecvCommand, Flush, host
<1>5. rcnt' = Count(cmd)
  BY <1>1, <1>2, <1>3, TotalIs DEF Quiet
<1>6. Typed'
  <2>1. rptr' \in 0 .. Total /\ rcnt' \in 0 .. Total
    BY <1>1, <1>3, <1>5, TotalIs
  <2> QED BY <1>1, <1>2, <1>4, <2>1 DEF IInv, Typed, DeviceTyped, PortsTyped
<1>7. ReadSound'
  BY <1>1, <1>2, <1>3, <1>4, <1>5 DEF ReadSound, Quiet
<1>8. Sound'
  BY <1>2, <1>7 DEF Sound, IdleSound, UnseenSound, AnswerSound, WriteSound
<1> QED BY <1>2, <1>6, <1>8 DEF IInv

\* The handler fills the empty FIFO while packets of a read are left.
LEMMA PacketStep ==
  ASSUME IInv, FirstPacket \/ NextPacket
  PROVE  IInv'
<1>1. /\ isr \in {"first", "tx"} /\ isr' \in {"tx", "usb"} /\ tx = None
      /\ tx' = [kind |-> "data", tag |-> IF rptr \in Packet THEN disk[rptr] ELSE 0]
      /\ rptr' = rptr + 1 /\ rcnt' = Minus1(rcnt) /\ txInt' \in BOOLEAN
      /\ UNCHANGED <<disk, writing, wptr, wcnt, reading, cbw, stat, rx, irq, host>>
  BY DEF FirstPacket, NextPacket, LoadsFromDisk, Loads, IInv, Typed, PortsTyped
<1>2. stage # "idle" /\ Seen /\ cmd.op = "read" /\ reading
  <2>1. isr = "first" \/ reading
    BY DEF FirstPacket, NextPacket
  <2>2. stage # "idle" /\ Seen
    BY <2>1 DEF IInv, Sound, IdleSound, UnseenSound, Quiet
  <2>3. cmd.op = "read"
    BY <2>1, <2>2 DEF IInv, Typed, HostTyped, Ops, Sound, AnswerSound, WriteSound
  <2> QED BY <2>1, <2>2, <2>3 DEF IInv, Sound, ReadSound
<1>3. /\ ~writing /\ wcnt = 0 /\ disk = want /\ rx = None
      /\ stage = IF left = 0 THEN "status" ELSE "in"
      /\ left <= Count(cmd) /\ rptr + rcnt = First(cmd) + Count(cmd) /\ rcnt = left
  BY <1>1, <1>2 DEF IInv, Sound, ReadSound, None
<1>4. /\ rptr \in Nat /\ rcnt \in Nat /\ left \in Nat /\ rcnt > 0 /\ rcnt <= Total
      /\ rptr \in Packet /\ Pos = rptr /\ rptr + 1 <= Total
  <2>1. rptr \in 0 .. Total /\ rcnt \in 0 .. Total /\ left \in 0 .. Total
    BY DEF IInv, Typed, DeviceTyped, HostTyped
  <2>2. /\ First(cmd) \in Nat /\ Count(cmd) \in Nat \ {0}
        /\ First(cmd) + Count(cmd) <= Total
    BY CommandFits DEF IInv, Typed
  <2>3. rcnt > 0
    <3>1. CASE FirstPacket
      BY <1>2, <1>3, <2>2, <3>1 DEF FirstPacket, IInv, Sound, ReadSound
    <3>2. CASE NextPacket
      BY <3>2 DEF NextPacket
    <3> QED BY <3>1, <3>2
  <2> QED BY <1>3, <2>1, <2>2, <2>3, TotalIs DEF Pos
<1>5. rcnt' = rcnt - 1
  BY <1>1, <1>4, TotalIs DEF Minus1
<1>6. tx' = [kind |-> "data", tag |-> want[Pos]] /\ want[Pos] \in Tags
  BY <1>1, <1>3, <1>4 DEF IInv, Typed, HostTyped
<1>7. /\ cmd' = cmd /\ stage' = stage /\ left' = left /\ want' = want
      /\ Seen' /\ First(cmd)' = First(cmd) /\ Count(cmd)' = Count(cmd) /\ Pos' = Pos
  BY <1>1, <1>2 DEF host, Seen, First, Count, Pos
<1>8. Typed' /\ Fits'
  <2>1. tx' \in [kind : Kinds, tag : Tags]
    BY <1>6 DEF Kinds
  <2>2. rptr' \in 0 .. Total /\ rcnt' \in 0 .. Total
    BY <1>1, <1>4, <1>5, TotalIs
  <2> QED BY <1>1, <1>7, <2>1, <2>2
          DEF IInv, Typed, DeviceTyped, HandlerTyped, PortsTyped, HostTyped, Fits
<1>9. Latches'
  BY <1>1, <1>7 DEF IInv, Latches
<1>10. ReadSound'
  <2>1. rptr' + rcnt' = First(cmd)' + Count(cmd)' /\ left' = rcnt' + 1
    BY <1>1, <1>3, <1>4, <1>5, <1>7
  <2> QED BY <1>1, <1>2, <1>3, <1>6, <1>7, <2>1 DEF ReadSound
<1>11. Sound'
  BY <1>2, <1>7, <1>10 DEF Sound, IdleSound, UnseenSound, AnswerSound, WriteSound
<1> QED BY <1>8, <1>9, <1>11 DEF IInv

\* The status goes behind an answer, and behind the last packet of a read.
LEMMA StatusStep ==
  ASSUME IInv, Answered \/ ReadEnds
  PROVE  IInv'
<1>1. /\ isr \in {"answer", "tx"} /\ isr' \in {"tx", "usb"} /\ tx = None
      /\ tx' = [kind |-> "csw", tag |-> cbw] /\ reading' \in BOOLEAN /\ txInt' \in BOOLEAN
      /\ UNCHANGED <<disk, writing, wptr, wcnt, rptr, rcnt, cbw, stat, rx, irq, host>>
  BY DEF Answered, ReadEnds, SendCSW, Loads, device, IInv, Typed, DeviceTyped, PortsTyped
<1>2. /\ cmd' = cmd /\ stage' = stage /\ left' = left /\ want' = want /\ cbw' = cbw
      /\ First(cmd)' = First(cmd) /\ Count(cmd)' = Count(cmd) /\ Csw' = Csw /\ Seen' = Seen
  BY <1>1 DEF host, First, Count, Csw, Seen
<1>3. Typed' /\ Fits'
  <2>1. tx' \in [kind : Kinds, tag : Tags]
    BY <1>1 DEF IInv, Typed, DeviceTyped, Kinds
  <2> QED BY <1>1, <1>2, <2>1
          DEF IInv, Typed, DeviceTyped, HandlerTyped, PortsTyped, HostTyped, Fits
<1>4. Latches'
  BY <1>1, <1>2 DEF IInv, Latches
<1>5. stage # "idle" /\ Seen
  BY DEF Answered, ReadEnds, IInv, Sound, IdleSound, UnseenSound, Quiet
<1>6. CASE Answered
  <2>1. isr = "answer" /\ reading' = reading
    BY <1>6 DEF Answered, device
  <2>2. cmd.op \in {"ready", "inquiry"}
    BY <1>5, <2>1 DEF IInv, Typed, HostTyped, Ops, Sound, ReadSound, WriteSound
  <2>3. stage = "status"
    BY <1>1, <1>5, <2>1, <2>2 DEF IInv, Sound, AnswerSound, None
  <2>4. AnswerSound'
    BY <1>1, <1>2, <1>5, <2>1, <2>2, <2>3 DEF IInv, Sound, AnswerSound, Csw, Seen
  <2> QED BY <1>2, <1>3, <1>4, <1>5, <2>2, <2>4
          DEF IInv, Sound, IdleSound, UnseenSound, ReadSound, WriteSound
<1>7. CASE ReadEnds
  <2>1. isr = "tx" /\ reading /\ rcnt = 0 /\ reading' = FALSE
    BY <1>7 DEF ReadEnds
  <2>2. cmd.op = "read"
    BY <1>5, <2>1 DEF IInv, Typed, HostTyped, Ops, Sound, AnswerSound, WriteSound
  <2>3. left = 0
    BY <1>1, <1>5, <2>1, <2>2 DEF IInv, Sound, ReadSound, None
  <2>4. ReadSound'
    BY <1>1, <1>2, <1>5, <2>1, <2>2, <2>3 DEF IInv, Sound, ReadSound, Csw, Seen
  <2> QED BY <1>2, <1>3, <1>4, <1>5, <2>2, <2>4
          DEF IInv, Sound, IdleSound, UnseenSound, AnswerSound, WriteSound
<1> QED BY <1>6, <1>7

LEMMA NextSound == ASSUME ~ResetsInside, IInv, [Next]_vars PROVE IInv'
<1>1. CASE UNCHANGED vars
  <2>1. UNCHANGED <<disk, writing, wptr, wcnt, reading, rptr, rcnt, cbw, isr, stat, rx, tx, irq, txInt,
                    cmd, stage, left, want>>
    BY <1>1 DEF vars, device, handler, host
  <2>2. Typed' /\ Latches' /\ Fits'
    BY <2>1 DEF IInv, Typed, DeviceTyped, HandlerTyped, PortsTyped, HostTyped, Latches, Fits
  <2>3. Sound'
    BY <2>1 DEF IInv, Sound, IdleSound, UnseenSound, AnswerSound, ReadSound, WriteSound, Quiet, Seen,
                Pos, Csw, First, Count
  <2> QED BY <2>2, <2>3 DEF IInv
<1>2. CASE Host
  BY <1>2, CommandStep, StrayStep, BusResetStep DEF Host
<1>3. CASE Bus
  BY <1>3, SendDataStep, ReadDataStep, ReadStatusStep DEF Bus
<1>4. CASE Handler
  BY <1>4, LookStep, RecvDataStep, RecvOtherStep, RecvAnswerStep, RecvWriteStep, RecvReadStep,
     PacketStep, StatusStep DEF Handler, Recv, Send
<1> QED BY <1>1, <1>2, <1>3, <1>4 DEF Next

LEMMA AlwaysSound == ASSUME ~ResetsInside PROVE Spec => []IInv
<1>1. IInv /\ [Next]_vars => IInv'
  BY NextSound
<1> QED BY <1>1, InitSound, PTL DEF Spec

-----------------------------------------------------------------------------
(* The properties. *)

\* Every variable keeps its type: in particular no counter of usb_mass_storage.c
\* falls below zero or exceeds the disk, and no pointer leaves it.
THEOREM TypeCorrect == ASSUME ~ResetsInside PROVE Spec => []TypeOK
<1>1. IInv => TypeOK
  BY TypedIs DEF IInv
<1> QED BY <1>1, AlwaysSound, PTL

\* What Endpoint1_Handler loads into the FIFO is what the host is waiting for,
\* for disks of any size and commands in any order.
THEOREM AlwaysInStep == ASSUME ~ResetsInside PROVE Spec => []InStep
<1>1. IInv => InStep
  <2> SUFFICES ASSUME IInv, tx # None PROVE InStep
    BY DEF InStep
  <2>1. stage # "idle" /\ Seen
    BY DEF IInv, Sound, IdleSound, UnseenSound, Quiet
  <2>2. CASE cmd.op \in {"ready", "inquiry"}
    BY <2>1, <2>2 DEF IInv, Sound, AnswerSound, InStep, Csw
  <2>3. CASE cmd.op = "read"
    <3>1. CASE ~reading
      BY <2>1, <2>3, <3>1 DEF IInv, Sound, ReadSound, InStep, Csw
    <3>2. CASE reading
      <4>1. tx = [kind |-> "data", tag |-> want[Pos]] /\ left = rcnt + 1 /\ rcnt \in Nat
        BY <2>1, <2>3, <3>2, TotalIs DEF IInv, Typed, DeviceTyped, Sound, ReadSound
      <4>2. stage = "in"
        BY <2>1, <2>3, <4>1 DEF IInv, Sound, ReadSound
      <4> QED BY <2>3, <4>1, <4>2 DEF InStep, Pos
    <3> QED BY <3>1, <3>2
  <2>4. CASE cmd.op = "write"
    <3>1. left = 0 /\ tx = Csw
      BY <2>1, <2>4 DEF IInv, Typed, DeviceTyped, Sound, WriteSound
    <3> QED BY <2>1, <2>4, <3>1 DEF IInv, Sound, WriteSound, InStep, Csw
  <2> QED BY <2>2, <2>3, <2>4 DEF IInv, Typed, HostTyped, Ops
<1> QED BY <1>1, AlwaysSound, PTL

\* The disk of WRITE(10) is what the host has written, but for the packet in the
\* FIFO, and all of it when the status is sent.
THEOREM DiskIsWritten == ASSUME ~ResetsInside PROVE Spec => []DiskHoldsWhatWasWritten
<1>1. IInv => DiskHoldsWhatWasWritten
  <2> SUFFICES ASSUME IInv PROVE DiskHoldsWhatWasWritten
    OBVIOUS
  <2>1. CASE disk = want
    BY <2>1 DEF DiskHoldsWhatWasWritten
  <2>2. CASE disk # want
    <3>1. stage # "idle" /\ Seen /\ cmd.op = "write"
      BY <2>2 DEF IInv, Typed, HostTyped, Ops, Sound, IdleSound, UnseenSound, AnswerSound, ReadSound, Quiet
    <3>2. writing /\ tx = None /\ rx.kind = "data" /\ want = [disk EXCEPT ![wptr] = cmd.tag]
      BY <2>2, <3>1 DEF IInv, Typed, DeviceTyped, Sound, WriteSound
    <3>3. \A p \in Packet : p # wptr => want[p] = disk[p]
      BY <3>2 DEF IInv, Typed, DeviceTyped
    <3> QED BY <3>2, <3>3 DEF DiskHoldsWhatWasWritten, None
  <2> QED BY <2>1, <2>2
<1> QED BY <1>1, AlwaysSound, PTL
=============================================================================
