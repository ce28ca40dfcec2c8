-------------------------------- MODULE AuxSpi --------------------------------
(***************************************************************************)
(* The transfers of the auxiliary SPI part of bcm2835.c.  The FIFOs of     *)
(* this controller hold words of up to three bytes, it says BUSY while a   *)
(* word is on its way, and no call but bcm2835_aux_spi_transfer clears     *)
(* them.                                                                   *)
(*                                                                         *)
(* The controller is external: every word that is sent is exchanged for    *)
(* one of the slave, and it stops while the receive FIFO is full.  What a  *)
(* read of an empty FIFO returns is not specified.                         *)
(*                                                                         *)
(* A word is its direction, the number of its call, its place, and the     *)
(* number of its bytes.                                                    *)
(***************************************************************************)
EXTENDS Integers, Sequences

CONSTANTS
  WORD_BYTES,  \* bytes of a word: MIN(tx_len, 3)
  AUX_FIFO_SIZE,
  MaxAuxBytes, \* bound: bytes of a call
  MaxAuxCalls  \* bound: calls

(* bcm2835_aux_spi_write has two bytes.                                    *)
ASSUME AuxAssumption ==
  /\ WORD_BYTES \in Nat \ {0} /\ AUX_FIFO_SIZE \in Nat \ {0}
  /\ MaxAuxBytes \in Nat \ {0, 1} /\ MaxAuxCalls \in Nat

VARIABLES
  aux, \* the program: its place, the call and its locals
  spi1 \* the controller, with the words the slave has got

auxVars == <<aux, spi1>>

Garbage == <<"none", 0, 0, 0>>
AuxWord ==
  ({"out", "in"} \X (1..MaxAuxCalls) \X (1..MaxAuxBytes) \X (1..MaxAuxBytes))
    \cup {Garbage}

Smaller(a, b) == IF a < b THEN a ELSE b
WordsOf(n) == (n + WORD_BYTES - 1) \div WORD_BYTES

(* The words of n bytes: all are full but for the last.                    *)
AuxWords(dir, call, n) ==
  [k \in 1..WordsOf(n) |->
     <<dir, call, k, Smaller(WORD_BYTES, n - WORD_BYTES * (k - 1))>>]

AuxTypeOK ==
  /\ aux.pc \in {"idle", "send", "receive", "settle", "busy"}
  /\ aux.op \in {"none", "write", "writenb", "transfernb", "transfer"}
  /\ aux.call \in 0..MaxAuxCalls /\ aux.len \in 0..MaxAuxBytes
  /\ aux.tx_len \in 0..aux.len /\ aux.rx_len \in 0..aux.len
  /\ aux.rx \in Seq(AuxWord)
  /\ aux.found \in BOOLEAN \* the call found words of an earlier one
  /\ spi1.tx \in Seq(AuxWord) /\ Len(spi1.tx) <= AUX_FIFO_SIZE
  /\ spi1.rx \in Seq(AuxWord) /\ Len(spi1.rx) <= AUX_FIFO_SIZE
  /\ spi1.slave \in Seq(AuxWord)

AuxInit ==
  /\ aux = [pc |-> "idle", op |-> "none", call |-> 0, len |-> 0, tx_len |-> 0,
            rx_len |-> 0, rx |-> <<>>, found |-> FALSE]
  /\ spi1 = [tx |-> <<>>, rx |-> <<>>, slave |-> <<>>]

TX_FULL == Len(spi1.tx) = AUX_FIFO_SIZE
RX_EMPTY == spi1.rx = <<>>
BUSY == spi1.tx # <<>>

Shift ==
  /\ BUSY /\ Len(spi1.rx) < AUX_FIFO_SIZE
  /\ LET word == Head(spi1.tx)
     IN  spi1' = [tx |-> Tail(spi1.tx), rx |-> Append(spi1.rx, [word EXCEPT ![1] = "in"]),
                  slave |-> Append(spi1.slave, word)]
  /\ UNCHANGED aux

-----------------------------------------------------------------------------
(* The program *)

AuxAt(pc) == aux.pc = pc

(* Only the control registers are written: the FIFOs stay as they are.     *)
AuxBegin(op, n) ==
  /\ AuxAt("idle") /\ aux.call < MaxAuxCalls
  /\ aux' = [pc |-> "send", op |-> op, call |-> aux.call + 1, len |-> n, tx_len |-> n,
             rx_len |-> n, rx |-> <<>>, found |-> BUSY \/ ~RX_EMPTY]
  /\ spi1' = [spi1 EXCEPT !.slave = <<>>]

AuxGoes(pc) == aux' = [aux EXCEPT !.pc = pc] /\ UNCHANGED spi1

(* The next word goes to TXHOLD, the last to IO; a full FIFO takes none.   *)
PutWord(pc) ==
  LET count == Smaller(aux.tx_len, WORD_BYTES)
      word  == <<"out", aux.call, WordsOf(aux.len) - WordsOf(aux.tx_len) + 1, count>>
  IN  /\ aux.tx_len > 0
      /\ spi1' = [spi1 EXCEPT !.tx = IF TX_FULL THEN @ ELSE Append(@, word)]
      /\ aux' = [aux EXCEPT !.pc = pc, !.tx_len = @ - count]

(* A read of IO, which takes as many bytes as are missing of the word.     *)
GetWord(pc) ==
  LET word == IF RX_EMPTY THEN Garbage ELSE Head(spi1.rx)
  IN  /\ aux.rx_len > 0
      /\ spi1' = [spi1 EXCEPT !.rx = IF RX_EMPTY THEN @ ELSE Tail(@)]
      /\ aux' = [aux EXCEPT !.pc = pc, !.rx_len = @ - Smaller(@, WORD_BYTES),
                            !.rx = Append(@, word)]

(* One word, without waiting: its answer stays in the FIFO.                *)
bcm2835_aux_spi_write ==
  \/ AuxBegin("write", Smaller(2, WORD_BYTES))
  \/ aux.op = "write" /\ AuxAt("send") /\ ~TX_FULL /\ PutWord("idle")

mutWritenbKeepsAnswers ==
  \/ \E n \in 0..MaxAuxBytes : AuxBegin("writenb", n)
  \/ /\ aux.op = "writenb"
     /\ \/ AuxAt("send") /\ ~TX_FULL /\ PutWord("busy")
        \/ AuxAt("send") /\ aux.tx_len = 0 /\ AuxGoes("idle")
        \/ AuxAt("busy") /\ ~BUSY /\ AuxGoes("send")

(* Word by word: each is waited for, and its answer is read away.          *)
bcm2835_aux_spi_writenb ==
  \/ \E n \in 0..MaxAuxBytes : AuxBegin("writenb", n)
  \/ /\ aux.op = "writenb"
     /\ \/ AuxAt("send") /\ ~TX_FULL /\ PutWord("busy")
        \/ AuxAt("send") /\ aux.tx_len = 0 /\ AuxGoes("idle")
        \/ /\ AuxAt("busy") /\ ~BUSY
           /\ aux' = [aux EXCEPT !.pc = "send"]
           /\ spi1' = [spi1 EXCEPT !.rx = IF RX_EMPTY THEN @ ELSE Tail(@)]

(* Words out while there is room, in while there are some, and then, while *)
(* the controller is not busy, in without looking whether there are any.   *)
bcm2835_aux_spi_transfernb ==
  \/ \E n \in 0..MaxAuxBytes : AuxBegin("transfernb", n)
  \/ /\ aux.op = "transfernb"
     /\ \/ AuxAt("send") /\ ~TX_FULL /\ PutWord("send")
        \/ AuxAt("send") /\ (TX_FULL \/ aux.tx_len = 0) /\ AuxGoes("receive")
        \/ AuxAt("receive") /\ ~RX_EMPTY /\ GetWord("receive")
        \/ AuxAt("receive") /\ (RX_EMPTY \/ aux.rx_len = 0) /\ AuxGoes("settle")
        \/ AuxAt("settle") /\ ~BUSY /\ GetWord("settle")
        \/ AuxAt("settle") /\ (BUSY \/ aux.rx_len = 0)
             /\ AuxGoes(IF aux.tx_len > 0 \/ aux.rx_len > 0 THEN "send" ELSE "idle")

(* One byte, and bcm2835_aux_spi_reset, which clears the FIFOs.            *)
bcm2835_aux_spi_transfer ==
  \/ AuxBegin("transfer", 1)
  \/ /\ aux.op = "transfer"
     /\ \/ AuxAt("send") /\ PutWord("busy")
        \/ AuxAt("busy") /\ ~BUSY /\ GetWord("receive")
        \/ /\ AuxAt("receive")
           /\ aux' = [aux EXCEPT !.pc = "idle"]
           /\ spi1' = [spi1 EXCEPT !.tx = <<>>, !.rx = <<>>]

AuxProgram ==
  bcm2835_aux_spi_write \/ bcm2835_aux_spi_writenb \/ bcm2835_aux_spi_transfernb
    \/ bcm2835_aux_spi_transfer

AuxNext == AuxProgram \/ Shift

AuxFairness ==
  WF_auxVars(aux.pc # "idle" /\ AuxProgram) /\ WF_auxVars(Shift)

-----------------------------------------------------------------------------
(* Properties *)

(* Nothing of an earlier call was in the FIFOs, and all words of this one  *)
(* fit.                                                                    *)
Sound == ~aux.found /\ (aux.op = "transfernb" => WordsOf(aux.len) <= AUX_FIFO_SIZE)

(* bcm2835.c:997-1200: a sound call has sent its words in their order,     *)
(* has nothing but their answers in its buffer, and leaves nothing behind, *)
(* except for bcm2835_aux_spi_write, whose word and answer are left: the   *)
(* unguarded read of the third loop does no harm then.                     *)
AuxExchanges ==
  AuxAt("idle") /\ aux.op # "none" /\ Sound =>
    \/ aux.op = "write"
    \/ /\ spi1.slave = AuxWords("out", aux.call, aux.len)
       /\ aux.rx = IF aux.op = "writenb" THEN <<>> ELSE AuxWords("in", aux.call, aux.len)
       /\ ~BUSY /\ RX_EMPTY

(* bcm2835.c:1042-1068, 1096-1161: a sound call returns.                   *)
AuxReturns == aux.op # "none" /\ Sound ~> AuxAt("idle")
=============================================================================
