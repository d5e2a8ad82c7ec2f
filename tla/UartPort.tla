------------------------------ MODULE UartPort ------------------------------
(***************************************************************************)
(* read and write of uarts.nim over the driver's ring buffer.  read asks how  *)
(* many bytes there are, makes a buffer of that size, and then asks for size  *)
(* bytes: what arrives in between is copied too.                              *)
(***************************************************************************)
EXTENDS Naturals, Sequences

CONSTANTS
    UartBytes,      \* bound: bytes the other end sends
    RingSize,       \* rx_sz of uart_driver_install
    UartMayFail     \* can a call of the driver return an error?

ASSUME UartAssumption == UartBytes \in Nat /\ RingSize \in Nat \ {0}

VARIABLES
    uartPc,     \* the task: "closed", "idle", inside read "reading", or "raised" from it
    arrived,    \* bytes that came over the line; byte i is the number i
    accepted,   \* history: the bytes the ring had room for, in order
    ring,       \* the driver's ring buffer
    size,       \* the argument of read
    buff,       \* the bytes uart_read_bytes has copied
    avail,      \* the length of the buffer they are copied to
    delivered,  \* history: what read has returned, joined
    spilled     \* history: were bytes copied behind the buffer?

uartVars == <<uartPc, arrived, accepted, ring, size, buff, avail, delivered, spilled>>

UartInit ==
    /\ uartPc = "closed"
    /\ arrived = 0
    /\ accepted = <<>> /\ ring = <<>> /\ buff = <<>> /\ delivered = <<>>
    /\ size = 0 /\ avail = 0
    /\ spilled = FALSE

-----------------------------------------------------------------------------

\* The driver drops a byte the ring has no room for.
ByteArrives ==
    /\ uartPc # "closed" /\ arrived < UartBytes
    /\ arrived' = arrived + 1
    /\ IF Len(ring) < RingSize
       THEN ring' = Append(ring, arrived') /\ accepted' = Append(accepted, arrived')
       ELSE UNCHANGED <<ring, accepted>>
    /\ UNCHANGED <<uartPc, size, buff, avail, delivered, spilled>>

\* uart_param_config, uart_set_pin and uart_driver_install; one that fails raises, and the
\* port stays as it was.
NewUart ==
    /\ uartPc = "closed"
    /\ uartPc' = "idle"
    /\ UNCHANGED <<arrived, accepted, ring, size, buff, avail, delivered, spilled>>

-----------------------------------------------------------------------------
(* read *)

\* uart_get_buffered_data_len: with nothing there read returns at once.
MeasureAvailable(n) ==
    /\ uartPc = "idle"
    /\ ring # <<>>
    /\ size' = n
    /\ avail' = Len(ring)
    /\ buff' = <<>>
    /\ uartPc' = "reading"
    /\ UNCHANGED <<arrived, accepted, ring, delivered, spilled>>

\* uart_read_bytes goes on until it has size bytes or the ticks are over.
CopyBytes ==
    /\ uartPc = "reading"
    /\ Len(buff) < size
    /\ \E n \in 1 .. Len(ring) :
        /\ Len(buff) + n <= size
        /\ buff' = buff \o SubSeq(ring, 1, n)
        /\ ring' = SubSeq(ring, n + 1, Len(ring))
    /\ spilled' = (spilled \/ Len(buff') > avail)
    /\ UNCHANGED <<uartPc, arrived, accepted, size, avail, delivered>>

\* Mutation of ReadReturns: the buffer as it is, without the slice.
ReadReturnsBuffer ==
    /\ uartPc = "reading"
    /\ size = Len(buff) \/ ring = <<>>
    /\ uartPc' = "idle"
    /\ delivered' = delivered \o [i \in 1 .. avail |-> IF i <= Len(buff) THEN buff[i] ELSE 0]
    /\ UNCHANGED <<arrived, accepted, ring, size, buff, avail, spilled>>

\* The slice of what was read raises, an IndexDefect, when that is more than the buffer.
ReadReturns ==
    /\ uartPc = "reading"
    /\ size = Len(buff) \/ ring = <<>>
    /\ IF Len(buff) <= avail
       THEN uartPc' = "idle" /\ delivered' = delivered \o buff
       ELSE uartPc' = "raised" /\ UNCHANGED delivered
    /\ UNCHANGED <<arrived, accepted, ring, size, buff, avail, spilled>>

\* A negative result raises before anything is copied.
ReadRaises ==
    /\ UartMayFail
    /\ uartPc = "reading" /\ buff = <<>>
    /\ uartPc' = "idle"
    /\ UNCHANGED <<arrived, accepted, ring, size, buff, avail, delivered, spilled>>

-----------------------------------------------------------------------------

UartNext ==
    \/ NewUart \/ ByteArrives \/ CopyBytes \/ ReadReturns \/ ReadRaises
    \/ \E n \in 0 .. UartBytes : MeasureAvailable(n)

-----------------------------------------------------------------------------

UartTypeOK ==
    /\ uartPc \in {"closed", "idle", "reading", "raised"}
    /\ arrived \in 0 .. UartBytes
    /\ accepted \in Seq(1 .. UartBytes)
    /\ ring \in Seq(1 .. UartBytes) /\ Len(ring) <= RingSize
    /\ size \in 0 .. UartBytes
    /\ buff \in Seq(1 .. UartBytes)
    /\ avail \in 0 .. RingSize
    /\ delivered \in Seq(0 .. UartBytes)
    /\ spilled \in BOOLEAN

\* Until bytes were copied behind the buffer, the reads return what the ring accepted, in
\* order, each byte once and no other, a read that fails losing none.  And bytes go behind
\* the buffer only when the caller asked for more than there was and more came meanwhile.
ReadIsExact ==
    /\ ~ spilled => delivered \o (IF uartPc = "reading" THEN buff ELSE <<>>) \o ring = accepted
    /\ spilled => Len(buff) > avail /\ size > avail
=============================================================================
