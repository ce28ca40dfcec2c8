--------------------------------- MODULE Spi0 ---------------------------------
(***************************************************************************)
(* The transfers of the SPI part of bcm2835.c: bytes go into a transmit    *)
(* FIFO, the controller exchanges each for one of the slave, which comes   *)
(* into a receive FIFO, and stops while that one is full.                  *)
(*                                                                         *)
(* The controller is external, modelled from how the code uses it: TXD     *)
(* says that there is room to transmit, RXD that there is something to     *)
(* read, and DONE, with TA set, that everything has been transmitted.      *)
(*                                                                         *)
(* A byte is its direction, the number of its call and its place.          *)
(***************************************************************************)
EXTENDS Integers, Sequences

CONSTANTS
  SPI_FIFO_SIZE,
  MaxSpiBytes, \* bound: bytes of a call
  MaxSpiCalls  \* bound: calls

(* bcm2835_spi_write stores two bytes after one look at TXD.               *)
ASSUME SpiAssumption ==
  SPI_FIFO_SIZE \in Nat \ {0, 1} /\ MaxSpiBytes \in Nat \ {0, 1} /\ MaxSpiCalls \in Nat

VARIABLES
  spi, \* the program: its place, the call and its locals
  cs   \* the controller, with the bytes the slave has got

spiVars == <<spi, cs>>

SpiByte == {"out", "in"} \X (1..MaxSpiCalls) \X (1..MaxSpiBytes)
SpiBytes(dir, call, n) == [k \in 1..n |-> <<dir, call, k>>]

SpiTypeOK ==
  /\ spi.pc \in {"idle", "send", "receive", "done"}
  /\ spi.op \in {"none", "transfer", "transfernb", "transfern", "writenb", "write"}
  /\ spi.call \in 0..MaxSpiCalls /\ spi.len \in 0..MaxSpiBytes
  /\ spi.tx_cnt \in 0..spi.len /\ spi.rx_cnt \in 0..spi.len
  /\ spi.tbuf \in Seq(SpiByte) \* tbuf, buf or the value
  /\ spi.rbuf \in Seq(SpiByte) \* rbuf or the result
  /\ cs.TA \in BOOLEAN /\ cs.slave \in Seq(SpiByte)
  /\ cs.tx \in Seq(SpiByte) /\ Len(cs.tx) <= SPI_FIFO_SIZE
  /\ cs.rx \in Seq(SpiByte) /\ Len(cs.rx) <= SPI_FIFO_SIZE

SpiInit ==
  /\ spi = [pc |-> "idle", op |-> "none", call |-> 0, len |-> 0,
            tx_cnt |-> 0, rx_cnt |-> 0, tbuf |-> <<>>, rbuf |-> <<>>]
  /\ cs = [TA |-> FALSE, tx |-> <<>>, rx |-> <<>>, slave |-> <<>>]

TXD == Len(cs.tx) < SPI_FIFO_SIZE
RXD == cs.rx # <<>>
SpiDONE == cs.TA /\ cs.tx = <<>>

(* The controller: a byte out for a byte in.                               *)
Exchange ==
  /\ cs.TA /\ cs.tx # <<>> /\ Len(cs.rx) < SPI_FIFO_SIZE
  /\ LET reply == <<"in", spi.call, Len(cs.slave) + 1>>
     IN  cs' = [cs EXCEPT !.tx = Tail(@), !.rx = Append(@, reply),
                          !.slave = Append(@, Head(cs.tx))]
  /\ UNCHANGED spi

-----------------------------------------------------------------------------
(* The program *)

SpiAt(pc) == spi.pc = pc

(* The start of every call: both FIFOs are cleared, then TA is set.        *)
SpiBegin(op, n) ==
  /\ SpiAt("idle") /\ spi.call < MaxSpiCalls
  /\ LET call == spi.call + 1
     IN  spi' = [pc |-> "send", op |-> op, call |-> call, len |-> n, tx_cnt |-> 0,
                 rx_cnt |-> 0, tbuf |-> SpiBytes("out", call, n), rbuf |-> <<>>]
  /\ cs' = [TA |-> TRUE, tx |-> <<>>, rx |-> <<>>, slave |-> <<>>]

SpiGoes(pc) == spi' = [spi EXCEPT !.pc = pc] /\ UNCHANGED cs

(* n bytes into the FIFO, without looking at TXD again after the first.    *)
Put(n, pc) ==
  /\ TXD /\ spi.tx_cnt + n <= spi.len
  /\ cs' = [cs EXCEPT !.tx = @ \o SubSeq(spi.tbuf, spi.tx_cnt + 1, spi.tx_cnt + n)]
  /\ spi' = [spi EXCEPT !.tx_cnt = @ + n, !.pc = pc]

(* A byte of the slave goes into rbuf.  In transfern rbuf is tbuf.         *)
Get(pc) ==
  /\ spi.rx_cnt < spi.len
  /\ cs' = [cs EXCEPT !.rx = Tail(@)]
  /\ spi' = [spi EXCEPT !.pc = pc, !.rx_cnt = @ + 1, !.rbuf = Append(@, Head(cs.rx)),
                        !.tbuf = IF spi.op = "transfern"
                                   THEN [@ EXCEPT ![spi.rx_cnt + 1] = Head(cs.rx)] ELSE @]

Discard == RXD /\ cs' = [cs EXCEPT !.rx = Tail(@)] /\ UNCHANGED spi

SpiReturn ==
  /\ SpiDONE
  /\ spi' = [spi EXCEPT !.pc = "idle"] /\ cs' = [cs EXCEPT !.TA = FALSE]

bcm2835_spi_transfer ==
  \/ SpiBegin("transfer", 1)
  \/ /\ spi.op = "transfer"
     /\ \/ SpiAt("send") /\ Put(1, "receive")
        \/ SpiAt("receive") /\ SpiDONE /\ Get("done")
        \/ SpiAt("done") /\ SpiReturn

(* Two loops in one: bytes go out as long as there is room, come in as     *)
(* long as there are some, until all have gone out and come in.            *)
bcm2835_spi_transfernb ==
  \/ \E n \in 0..MaxSpiBytes, op \in {"transfernb", "transfern"} : SpiBegin(op, n)
  \/ /\ spi.op \in {"transfernb", "transfern"}
     /\ \/ SpiAt("send") /\ Put(1, "send")
        \/ SpiAt("send") /\ (~TXD \/ spi.tx_cnt = spi.len) /\ SpiGoes("receive")
        \/ SpiAt("receive") /\ RXD /\ Get("receive")
        \/ SpiAt("receive") /\ (~RXD \/ spi.rx_cnt = spi.len)
             /\ SpiGoes(IF spi.tx_cnt < spi.len \/ spi.rx_cnt < spi.len
                          THEN "send" ELSE "done")
        \/ SpiAt("done") /\ SpiReturn

(* A byte out, then whatever has come in is read, lest the controller      *)
(* stops; and so on while it is waited for DONE.                           *)
bcm2835_spi_writenb ==
  \/ \E n \in 0..MaxSpiBytes : SpiBegin("writenb", n)
  \/ /\ spi.op = "writenb"
     /\ \/ SpiAt("send") /\ Put(1, "receive")
        \/ SpiAt("send") /\ spi.tx_cnt = spi.len /\ SpiGoes("done")
        \/ SpiAt("receive") /\ Discard
        \/ SpiAt("receive") /\ ~RXD /\ SpiGoes("send")
        \/ SpiAt("done") /\ ~SpiDONE /\ Discard
        \/ SpiAt("done") /\ SpiReturn

(* Two bytes out, and what comes in stays in the FIFO.                     *)
bcm2835_spi_write ==
  \/ SpiBegin("write", 2)
  \/ /\ spi.op = "write"
     /\ \/ SpiAt("send") /\ Put(2, "done")
        \/ SpiAt("done") /\ SpiReturn

SpiProgram ==
  bcm2835_spi_transfer \/ bcm2835_spi_transfernb \/ bcm2835_spi_writenb
    \/ bcm2835_spi_write

SpiNext == SpiProgram \/ Exchange

SpiFairness ==
  WF_spiVars(spi.pc # "idle" /\ SpiProgram) /\ WF_spiVars(Exchange)

-----------------------------------------------------------------------------
(* Properties *)

(* bcm2835.c:754-934: when a call returns, the slave has got its bytes, in *)
(* order and none of an earlier call, although transfern overwrites the    *)
(* buffer it still sends from; and the buffer has what the slave answered, *)
(* although bcm2835_spi_write leaves answers in the FIFO.                  *)
SpiExchanges ==
  SpiAt("idle") /\ spi.op # "none" =>
    /\ cs.slave = SpiBytes("out", spi.call, spi.len)
    /\ spi.rbuf = IF spi.op \in {"writenb", "write"} THEN <<>>
                  ELSE SpiBytes("in", spi.call, spi.len)

(* bcm2835.c:809-827, 852-870: the program does not wait for a controller  *)
(* that has stopped because nobody reads.                                  *)
SpiReturns == spi.op # "none" ~> SpiAt("idle")
=============================================================================
