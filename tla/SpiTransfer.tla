----------------------------- MODULE SpiTransfer -----------------------------
(***************************************************************************)
(* The buffers of one SPI transaction of spis.nim: where fullTrans, readTrans *)
(* and writeTrans put what is sent and what is received, by lengths that are  *)
(* counted in bits, where the driver looks for them, and what getData and     *)
(* getSmallData give back.  Byte i of either direction is the number i.       *)
(***************************************************************************)
EXTENDS Integers, Sequences

CONSTANT MaxBytes       \* bound: bytes of a transfer in either direction

ASSUME MaxBytesAssumption == MaxBytes \in Nat

Bits == 0 .. 8 * MaxBytes
Unset == -1             \* the default of txlength and rxlength

Least(a, b) == IF a < b THEN a ELSE b
BytesOf(bits) == (bits + 7) \div 8
Given(n) == [i \in 1 .. n |-> i]
Blank(n) == [i \in 1 .. n |-> 0]

\* The transfer begins with byte 1 of the buffer and leaves what it does not reach.
Filled(buffer, n) == [i \in DOMAIN buffer |-> IF i <= n THEN i ELSE buffer[i]]

NoTrans == [length |-> 0, rxlength |-> 0, useTx |-> FALSE, useRx |-> FALSE,
            txInline |-> Blank(4), txSeq |-> <<>>, rxInline |-> Blank(4), rxSeq |-> <<>>]

VARIABLES
    halfDuplex,     \* HALFDUPLEX is in the flags of the device
    dma,            \* the bus has a DMA channel
    trn,            \* the SpiTrans
    spiPc,          \* "new", "made", "done" or "raised"
    asked,          \* history: the bytes given and the lengths asked for
    sent,           \* the bytes that were on the wire to the device
    overrun         \* has the driver written behind the receive buffer?

spiVars == <<halfDuplex, dma, trn, spiPc, asked, sent, overrun>>

SpiInit ==
    /\ halfDuplex \in BOOLEAN /\ dma \in BOOLEAN
    /\ trn = NoTrans
    /\ spiPc = "new"
    /\ asked = [bytes |-> 0, tx |-> 0, rx |-> 0]
    /\ sent = <<>>
    /\ overrun = FALSE

-----------------------------------------------------------------------------
(* fullTrans *)

\* Up to 32 bits are kept in the transaction itself.
Small(bits) == bits \in 1 .. 32

\* Mutation of ReceiveBytes: the bits behind the last whole byte get no room.
ReceiveBytesDown(bits) == bits \div 8

ReceiveBytes(bits) == bits \div 8 + (IF bits % 8 > 0 THEN 1 ELSE 0)

\* The sequence tx_data that tx_buffer points to.
TxBuffer(bits, n) == IF bits <= 32 THEN <<>> ELSE Given(n)

\* Mutation of RxLength: the default is not looked at.
RxLengthAsGiven(rxlength, length) == rxlength

\* As many bits as are sent, unless the caller says otherwise.
RxLength(rxlength, length) == IF rxlength < 0 THEN length ELSE rxlength

MadeTrans(n, txlength, rxlength) ==
    LET length == IF txlength < 0 THEN 8 * n ELSE txlength
        rx == RxLength(rxlength, length)
    IN  [length |-> length,
         rxlength |-> rx,
         useTx |-> Small(length),
         useRx |-> Small(rx),
         txInline |-> IF length <= 32 THEN Filled(Blank(4), n) ELSE Blank(4),
         txSeq |-> TxBuffer(length, n),
         rxInline |-> Blank(4),
         rxSeq |-> IF rx <= 32 THEN <<>> ELSE Blank(ReceiveBytes(rx))]

\* The assertion fails, or the copy of more than four bytes leaves the array.
FullTransRaises(n, txlength) ==
    \/ txlength > 8 * n
    \/ n > 4 /\ txlength \in 0 .. 32

MakeTrans(n, txlength, rxlength) ==
    /\ spiPc = "new"
    /\ asked' = [bytes |-> n, tx |-> txlength, rx |-> rxlength]
    /\ IF FullTransRaises(n, txlength)
       THEN spiPc' = "raised" /\ UNCHANGED trn
       ELSE spiPc' = "made" /\ trn' = MadeTrans(n, txlength, rxlength)
    /\ UNCHANGED <<halfDuplex, dma, sent, overrun>>

FullTrans(n, txlength, rxlength) == MakeTrans(n, txlength, rxlength)

WriteTrans(n, txlength) == MakeTrans(n, txlength, 0)

\* A full duplex device has to be sent as many bits as it is to answer.
ReadTrans(rxlength) ==
    IF halfDuplex
    THEN MakeTrans(0, 0, rxlength)
    ELSE MakeTrans(IF rxlength < 0 THEN 0 ELSE BytesOf(rxlength), rxlength, rxlength)

-----------------------------------------------------------------------------
(* The driver, in poll and transmit. *)

\* tx_data and tx_buffer are one word: bytes in the first are an address in the second.
HasTx == trn.useTx \/ trn.txSeq # <<>> \/ trn.txInline # Blank(4)
HasRx == trn.useRx \/ trn.rxSeq # <<>>

\* check_trans_valid: a full duplex device answers no more bits than it is sent, a half
\* duplex one with DMA does not do both, and a phase of no bits has no buffer.
Refuses ==
    \/ ~ halfDuplex /\ trn.rxlength > trn.length
    \/ halfDuplex /\ dma /\ HasTx /\ HasRx
    \/ trn.length = 0 /\ HasTx

\* In full duplex no length to receive means the length that is sent, without a buffer.
Checked == IF ~ halfDuplex /\ trn.rxlength = 0 THEN [trn EXCEPT !.rxlength = trn.length] ELSE trn

Transmit ==
    /\ spiPc = "made"
    /\ ~ Refuses
    /\ LET source == IF trn.useTx THEN trn.txInline ELSE trn.txSeq
           came == IF HasRx THEN BytesOf(trn.rxlength) ELSE 0
       IN  /\ sent' = SubSeq(source, 1, Least(BytesOf(trn.length), Len(source)))
           /\ trn' = IF trn.useRx THEN [Checked EXCEPT !.rxInline = Filled(@, came)]
                                  ELSE [Checked EXCEPT !.rxSeq = Filled(@, came)]
           /\ overrun' = (came > (IF trn.useRx THEN 4 ELSE Len(trn.rxSeq)))
    /\ spiPc' = "done"
    /\ UNCHANGED <<halfDuplex, dma, asked>>

TransmitRaises ==
    /\ spiPc = "made"
    /\ Refuses
    /\ spiPc' = "raised"
    /\ UNCHANGED <<halfDuplex, dma, trn, asked, sent, overrun>>

-----------------------------------------------------------------------------

SpiNext ==
    \/ \E n \in 0 .. MaxBytes, txlength \in {Unset} \union Bits, rxlength \in {Unset} \union Bits :
            FullTrans(n, txlength, rxlength)
    \/ \E n \in 0 .. MaxBytes, txlength \in {Unset} \union Bits : WriteTrans(n, txlength)
    \/ \E rxlength \in {Unset} \union Bits : ReadTrans(rxlength)
    \/ Transmit
    \/ TransmitRaises

-----------------------------------------------------------------------------

\* 32 bits exactly are looked for in the sequence, which is empty then.
GetData == IF trn.rxlength < 32 THEN trn.rxInline ELSE trn.rxSeq

SpiTypeOK ==
    /\ halfDuplex \in BOOLEAN /\ dma \in BOOLEAN
    /\ trn \in [length : Bits, rxlength : Bits, useTx : BOOLEAN, useRx : BOOLEAN,
                txInline : Seq(0 .. MaxBytes), txSeq : Seq(1 .. MaxBytes),
                rxInline : Seq(0 .. MaxBytes), rxSeq : Seq(0 .. MaxBytes)]
    /\ spiPc \in {"new", "made", "done", "raised"}
    /\ asked \in [bytes : 0 .. MaxBytes, tx : Bits \union {Unset}, rx : Bits \union {Unset}]
    /\ sent \in Seq(0 .. MaxBytes)
    /\ overrun \in BOOLEAN

\* What is on the wire is what the caller gave, in the number of bits it asked for,
\* whether the bytes were kept in the transaction or beside it.  The receive buffer holds
\* all that comes, the last broken byte too, and getData returns it from its first byte
\* on: except for exactly 32 bits.
TransferIsExact ==
    spiPc = "done" =>
        LET toSend == IF asked.tx = Unset THEN 8 * asked.bytes ELSE asked.tx
            toReceive == IF asked.rx = Unset THEN toSend ELSE asked.rx
            came == BytesOf(toReceive)
        IN  /\ sent = Given(BytesOf(toSend))
            /\ ~ overrun
            /\ toReceive # 32 => Len(GetData) >= came /\ SubSeq(GetData, 1, came) = Given(came)
=============================================================================
