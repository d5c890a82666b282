---------------------------------- MODULE Uart ----------------------------------
(* One UART (uart.c): a ring of characters received and one of characters to   *)
(* send, between the main program and the interrupt service routine, which may *)
(* come between any two steps of it; and of the chip its holding register, its *)
(* receive FIFO and the enable bit of the transmit interrupt.  (The receive    *)
(* interrupt is always enabled.)  uart0_isr and uart1_isr are the same.        *)
EXTENDS Naturals, Sequences

CONSTANTS RxSize, TxSize,    \* slots of the rings (RX_SIZE 128, TX_SIZE 64)
          FifoSize,          \* characters the receive FIFO of the chip can hold
          Char

ASSUME UartAssumption == /\ RxSize \in 2..256
                         /\ TxSize \in 2..256
                         /\ FifoSize \in Nat \ {0}
                         /\ Char # {}

VARIABLES rx_buf, rx_get, rx_put,   \* the ring of characters received
          tx_buf, tx_get, tx_put,   \* the ring of characters to send
          ier,                      \* the transmit interrupt is enabled
          pc, c, get,               \* main program: where it is, its locals
          isr,                      \* where the interrupt routine is
          thr, fifo                 \* the chip: holding register, receive FIFO
rx == <<rx_buf, rx_get, rx_put>>
tx == <<tx_buf, tx_get, tx_put>>
main == <<pc, c, get>>
vars == <<rx, tx, ier, main, isr, thr, fifo>>

(* "write": in uart_write, its buffer pointers read; "chip": the holding       *)
(* register was seen empty; "store", "advance": the character goes into the    *)
(* ring; "enable": the interrupt is about to be enabled; "read": in uart_read. *)
PC == {"idle", "write", "chip", "store", "advance", "enable", "read"}

SuccNoWrap(i, size) == i + 1
Succ(i, size) == IF i + 1 = size THEN 0 ELSE i + 1

(* The rings are static memory, all of one value.                              *)
Blank == CHOOSE ch \in Char : TRUE
Init == /\ rx_buf = [i \in 0..RxSize-1 |-> Blank]
        /\ tx_buf = [i \in 0..TxSize-1 |-> Blank]
        /\ rx_get = 0 /\ rx_put = 0 /\ tx_get = 0 /\ tx_put = 0
        /\ ier = FALSE
        /\ pc = "idle" /\ c = Blank /\ get = 0
        /\ isr = "none"
        /\ thr = <<>> /\ fifo = <<>>

-------------------------------------------------------------------------------
(* uart_write.                                                                 *)
At(where) == isr = "none" /\ pc = where
Return == pc' = "idle" /\ c' = Blank /\ get' = 0     \* the locals are gone

Write(ch) == /\ At("idle")
             /\ c' = ch
             /\ get' = tx_get
             /\ pc' = "write"
             /\ UNCHANGED <<rx, tx, ier, isr, thr, fifo>>

(* The ring is full: wait for the interrupt to take a character.               *)
WaitStale == /\ At("write")
             /\ tx_put # get
             /\ Succ(tx_put, TxSize) = get
             /\ UNCHANGED vars
Wait == /\ At("write")
        /\ tx_put # get
        /\ Succ(tx_put, TxSize) = get
        /\ get' = tx_get
        /\ UNCHANGED <<rx, tx, ier, pc, c, isr, thr, fifo>>

(* It was empty, and the chip has room; or the character goes into the ring.   *)
Decide == /\ At("write")
          /\ tx_put = get \/ Succ(tx_put, TxSize) # get
          /\ pc' = IF tx_put = get /\ thr = <<>> THEN "chip" ELSE "store"
          /\ UNCHANGED <<rx, tx, ier, c, get, isr, thr, fifo>>

ToChip == /\ At("chip")
          /\ thr' = <<c>>
          /\ Return
          /\ UNCHANGED <<rx, tx, ier, isr, fifo>>

StoreAtGet == /\ At("store")
              /\ tx_buf' = [tx_buf EXCEPT ![get] = c]
              /\ pc' = "advance"
              /\ UNCHANGED <<rx, tx_get, tx_put, ier, c, get, isr, thr, fifo>>
Store == /\ At("store")
         /\ tx_buf' = [tx_buf EXCEPT ![tx_put] = c]
         /\ pc' = "advance"
         /\ UNCHANGED <<rx, tx_get, tx_put, ier, c, get, isr, thr, fifo>>

Advance == /\ At("advance")
           /\ tx_put' = Succ(tx_put, TxSize)
           /\ pc' = "enable"
           /\ UNCHANGED <<rx, tx_buf, tx_get, ier, c, get, isr, thr, fifo>>

(* |= reads and writes the register: a routine between the two can only clear  *)
(* the bit that is being set.                                                  *)
EnableFirst == /\ At("enable")
               /\ ier' = (ier \/ Succ(get, TxSize) = tx_put)
               /\ Return
               /\ UNCHANGED <<rx, tx, isr, thr, fifo>>
Enable == /\ At("enable")
          /\ ier' = TRUE
          /\ Return
          /\ UNCHANGED <<rx, tx, isr, thr, fifo>>

(* uart_read, after uart_read_test.                                            *)
Read == /\ At("idle")
        /\ rx_put # rx_get
        /\ c' = rx_buf[rx_get]
        /\ pc' = "read"
        /\ UNCHANGED <<rx, tx, ier, get, isr, thr, fifo>>

ReadAdvance == /\ At("read")
               /\ rx_get' = Succ(rx_get, RxSize)
               /\ Return
               /\ UNCHANGED <<rx_buf, rx_put, tx, ier, isr, thr, fifo>>

(* uart_init again, for another baud rate; it disables the interrupts.         *)
Reinit == /\ At("idle")
          /\ rx_get' = 0 /\ rx_put' = 0 /\ tx_get' = 0 /\ tx_put' = 0
          /\ ier' = FALSE
          /\ UNCHANGED <<rx_buf, tx_buf, main, isr, thr, fifo>>

-------------------------------------------------------------------------------
(* The interrupt routine: the main program stands still until it returns.      *)
Interrupt == /\ isr = "none"
             /\ fifo # <<>> \/ (ier /\ thr = <<>>)
             /\ isr' = "rx"
             /\ UNCHANGED <<rx, tx, ier, main, thr, fifo>>

RoomIgnored == Succ(rx_put, RxSize) \in 0..RxSize-1
RoomToReceive == Succ(rx_put, RxSize) # rx_get
IsrReceive == /\ isr = "rx"
              /\ fifo # <<>>
              /\ fifo' = Tail(fifo)
              /\ IF RoomToReceive
                   THEN /\ rx_buf' = [rx_buf EXCEPT ![rx_put] = Head(fifo)]
                        /\ rx_put' = Succ(rx_put, RxSize)
                   ELSE UNCHANGED <<rx_buf, rx_put>>
              /\ UNCHANGED <<rx_get, tx, ier, main, isr, thr>>

IsrReceived == /\ isr = "rx"
               /\ fifo = <<>>
               /\ isr' = "tx"
               /\ UNCHANGED <<rx, tx, ier, main, thr, fifo>>

IsrSend == /\ isr = "tx"
           /\ thr = <<>>
           /\ tx_put # tx_get
           /\ thr' = <<tx_buf[tx_get]>>
           /\ tx_get' = Succ(tx_get, TxSize)
           /\ UNCHANGED <<rx, tx_buf, tx_put, ier, main, isr, fifo>>

IsrReturn == /\ isr = "tx"
             /\ thr # <<>> \/ tx_put = tx_get
             /\ ier' = (ier /\ thr # <<>>)
             /\ isr' = "none"
             /\ UNCHANGED <<rx, tx, main, thr, fifo>>

(* The chip.  No character arrives faster than the routine empties the FIFO.   *)
Shift == /\ thr # <<>>
         /\ thr' = <<>>
         /\ UNCHANGED <<rx, tx, ier, main, isr, fifo>>
Arrive(ch) == /\ Len(fifo) < FifoSize
              /\ isr = "rx" => fifo = <<>>
              /\ fifo' = Append(fifo, ch)
              /\ UNCHANGED <<rx, tx, ier, main, isr, thr>>

Writing == Wait \/ Decide \/ ToChip \/ Store \/ Advance \/ Enable
Isr == Interrupt \/ IsrReceive \/ IsrReceived \/ IsrSend \/ IsrReturn
Next == \/ \E ch \in Char : Write(ch) \/ Arrive(ch)
        \/ Writing \/ Read \/ ReadAdvance \/ Reinit \/ Isr \/ Shift

(* A character takes many times as long to arrive or to leave as a turn of the *)
(* routine's loops: it leaves them, and leaves the main program its time.      *)
Fairness == SF_vars(Writing) /\ WF_vars(Shift)
            /\ WF_vars(Isr) /\ SF_vars(IsrReceived)
Spec == Init /\ [][Next]_vars /\ Fairness

-------------------------------------------------------------------------------
(* What a ring holds, oldest first.                                            *)
Count(from, to, size) == IF from <= to THEN to - from ELSE to + size - from
Slot(from, i, size)   == IF from + i - 1 < size THEN from + i - 1 ELSE from + i - 1 - size
Ring(buf, from, to, size) ==
    [i \in 1..Count(from, to, size) |-> buf[Slot(from, i, size)]]

TypeOK == /\ rx_buf \in [0..RxSize-1 -> Char] /\ tx_buf \in [0..TxSize-1 -> Char]
          /\ rx_get \in 0..RxSize-1 /\ rx_put \in 0..RxSize-1
          /\ tx_get \in 0..TxSize-1 /\ tx_put \in 0..TxSize-1 /\ get \in 0..TxSize-1
          /\ ier \in BOOLEAN /\ pc \in PC /\ isr \in {"none", "rx", "tx"}
          /\ c \in Char
          /\ thr \in Seq(Char) /\ Len(thr) <= 1
          /\ fifo \in Seq(Char) /\ Len(fifo) <= FifoSize

(* Whatever the interrupt comes between, the characters written leave in the   *)
(* order of the writes, each once: also those that uart_write puts into the    *)
(* chip past the ring, and none overwrites another in the holding register.    *)
(* Only uart_init drops any.                                                   *)
Sending == INSTANCE Channel WITH q <- thr \o Ring(tx_buf, tx_get, tx_put, TxSize),
                                 Overrun <- FALSE, Capacity <- TxSize
SendsInOrder == Sending!Init /\ [][Sending!Next \/ Reinit]_(Sending!vars)

(* The characters received are read in order, each once, and one is lost only  *)
(* when RX_SIZE-1 are waiting to be read.  The one that uart_read holds in its *)
(* local is the oldest of them until rx_get moves.                             *)
Unread == LET ring == Ring(rx_buf, rx_get, rx_put, RxSize)
          IN  IF pc = "read" THEN <<c>> \o SubSeq(ring, 2, Len(ring)) ELSE ring
Receiving == INSTANCE Channel WITH q <- Unread \o fifo,
                                   Overrun <- TRUE, Capacity <- RxSize - 1
ReceivesInOrder == Receiving!Init /\ [][Receiving!Next \/ Reinit]_(Receiving!vars)

(* Characters in the ring are never left there with the transmit interrupt     *)
(* off, but for the moment before uart_write enables it.                       *)
InterruptArmed == tx_put # tx_get /\ isr = "none" => ier \/ pc = "enable"

(* uart_write returns, although it waits in a loop while the ring is full.     *)
WriteReturns == pc = "write" ~> pc = "idle"
===============================================================================
