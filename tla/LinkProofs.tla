----------------------------- MODULE LinkProofs -----------------------------
(* The link to the network, for any number of descriptors, frames, peers and *)
(* cache slots: the driver and the rings of the card (drivers/e1000.c), and  *)
(* what the ARP cache answers (net/arp.c).                                   *)
EXTENDS E1000, Arp, FiniteSetTheorems, TLAPS

-----------------------------------------------------------------------------
(* The rings of the network card.  Positions are compared by how far they    *)
(* are ahead of each other; the transmit ring is described by what follows   *)
(* each frame that waits, since it may be full, with head and tail equal.    *)

Ahead(i, j) == IF i <= j THEN j - i ELSE j + Descriptors - i

LEMMA RingArithmetic ==
  ASSUME NEW i \in Ring
  PROVE  /\ Succ(i) \in Ring
         /\ Succ(i) = IF i + 1 = Descriptors THEN 0 ELSE i + 1
<1>1. Descriptors \in Nat \ {0}
  BY NicAssumption
<1>2. (i + 1) % Descriptors = IF i + 1 = Descriptors THEN 0 ELSE i + 1
  BY <1>1, Z3 DEF Ring
<1> QED
  BY <1>1, <1>2 DEF Succ, Ring

LEMMA AheadIsRemainder ==
  ASSUME NEW i \in Ring, NEW j \in Ring
  PROVE  (j + Descriptors - i) % Descriptors = Ahead(i, j)
<1>1. Descriptors \in Nat \ {0}
  BY NicAssumption
<1>2. CASE i <= j
  BY <1>1, <1>2, Z3 DEF Ring, Ahead
<1>3. CASE ~(i <= j)
  BY <1>1, <1>3, Z3 DEF Ring, Ahead
<1> QED
  BY <1>2, <1>3

TxTypeOK ==
  /\ tx \in [Ring -> [frame : Nat, done : BOOLEAN]] /\ wired \in Seq(Nat) /\ submitted \in Nat
  /\ tx_next \in Ring /\ tx_last_submitted \in Ring /\ transmit_pending \in BOOLEAN
RxTypeOK ==
  /\ rx \in [Ring -> [frame : Nat, done : BOOLEAN, bad : BOOLEAN]] /\ rx_next \in Ring
  /\ received_frames \in Seq(Nat) /\ arrived \in Nat /\ dropped \in Nat /\ poll \in Nat
NicTypeOK == TxTypeOK /\ RxTypeOK /\ regs \in [TDH : Ring, TDT : Ring, RDH : Ring, RDT : Ring]

Unsent(i) == ~tx[i].done

\* The frames not yet sent wait in a row of descriptors, from the head to the
\* one before tx_next, in order and each once; with none left the head is at
\* tx_next.
TxRow ==
  /\ Len(wired) <= submitted /\ regs.TDT = tx_next
  /\ \A i \in Ring : Unsent(i) =>
       /\ Len(wired) < tx[i].frame /\ tx[i].frame <= submitted
       /\ tx[i].frame < submitted => Unsent(Succ(i)) /\ tx[Succ(i)].frame = tx[i].frame + 1
       /\ tx[i].frame = submitted => Succ(i) = tx_next
  /\ \A i, j \in Ring : Unsent(i) /\ Unsent(j) /\ tx[i].frame = tx[j].frame => i = j
  /\ Len(wired) = submitted => regs.TDH = tx_next
  /\ Len(wired) < submitted =>
       /\ Unsent(regs.TDH) /\ tx[regs.TDH].frame = Len(wired) + 1
       /\ Unsent(tx_last_submitted) /\ tx[tx_last_submitted].frame = submitted

\* The frames not yet read lie from rx_next up to the head, which never comes
\* up to rx_next from behind since the tail is the descriptor before it; they
\* are in the order of arrival, after everything handed up.
RxRow ==
  /\ Succ(regs.RDT) = rx_next
  /\ \A i \in Ring : rx[i].done <=> Ahead(rx_next, i) < Ahead(rx_next, regs.RDH)
  /\ Cardinality(Unread) = Ahead(rx_next, regs.RDH)
  /\ \A i \in Unread : rx[i].frame <= arrived
  /\ \A i, j \in Unread : Ahead(rx_next, i) < Ahead(rx_next, j) => rx[i].frame < rx[j].frame
  /\ \A k \in 1 .. Len(received_frames) :
       received_frames[k] <= arrived /\ \A i \in Unread : received_frames[k] < rx[i].frame

NicInv == NicTypeOK /\ TxRow /\ RxRow /\ SentAsSubmitted /\ WaitMeansSent /\ ReceivedOnceInOrder

LEMMA NicInvSound == NicInv => RingsSound
<1> SUFFICES ASSUME NicInv
             PROVE  RingRefilled
  BY DEF NicInv, RingsSound
<1>1. PICK h \in Ring, t \in Ring, n \in Ring : h = regs.RDH /\ t = regs.RDT /\ n = rx_next
  BY DEF NicInv, NicTypeOK, TxTypeOK, RxTypeOK
<1>2. Succ(t) = n /\ Cardinality(Unread) = Ahead(n, h)
  BY <1>1 DEF NicInv, RxRow
<1>3. (t + Descriptors - h) % Descriptors = Ahead(h, t)
  BY AheadIsRemainder
<1>4. n = IF t + 1 = Descriptors THEN 0 ELSE t + 1
  BY <1>2, RingArithmetic
<1>5. Ahead(h, t) + Ahead(n, h) = Descriptors - 1
  BY <1>4, NicAssumption DEF Ahead, Ring
<1> QED
  BY <1>1, <1>2, <1>3, <1>5 DEF RingRefilled

LEMMA NicStarts == NicInit => NicInv
<1> SUFFICES ASSUME NicInit
             PROVE  NicInv
  OBVIOUS
<1>1. Descriptors \in Nat /\ Descriptors > 0 /\ 0 \in Ring /\ Descriptors - 1 \in Ring
  BY NicAssumption DEF Ring
<1>2. Succ(Descriptors - 1) = 0
  BY <1>1, RingArithmetic
<1>3. NicTypeOK
  <2>1. wired \in Seq(Nat) /\ received_frames \in Seq(Nat)
    BY DEF NicInit
  <2>2. regs \in [TDH : Ring, TDT : Ring, RDH : Ring, RDT : Ring]
    BY <1>1 DEF NicInit
  <2>3. /\ tx \in [Ring -> [frame : Nat, done : BOOLEAN]]
        /\ rx \in [Ring -> [frame : Nat, done : BOOLEAN, bad : BOOLEAN]]
    BY DEF NicInit
  <2> QED
    BY <1>1, <2>1, <2>2, <2>3, Zenon DEF NicInit, NicTypeOK, TxTypeOK, RxTypeOK
<1>4. TxRow
  BY <1>1 DEF NicInit, TxRow, Unsent
<1>5. Unread = {} /\ Cardinality(Unread) = 0
  BY FS_EmptySet, Zenon DEF NicInit, Unread
<1>6. RxRow
  BY <1>1, <1>2, <1>5 DEF NicInit, RxRow, Ahead, Ring
<1>7. SentAsSubmitted /\ WaitMeansSent /\ ReceivedOnceInOrder
  BY <1>5 DEF NicInit, SentAsSubmitted, WaitMeansSent, ReceivedOnceInOrder
<1> QED
  BY <1>3, <1>4, <1>6, <1>7 DEF NicInv

\* The two rings share nothing but the register file.
LEMMA TxKept ==
  ASSUME NicInv, UNCHANGED <<tx, tx_next, tx_last_submitted, transmit_pending, submitted, wired>>,
         regs'.TDH = regs.TDH, regs'.TDT = regs.TDT
  PROVE  TxTypeOK' /\ TxRow' /\ SentAsSubmitted' /\ WaitMeansSent'
<1>1. TxRow'
  BY DEF NicInv, TxRow, Unsent
<1>2. TxTypeOK'
  BY DEF NicInv, NicTypeOK, TxTypeOK
<1> QED
  BY <1>1, <1>2 DEF NicInv, SentAsSubmitted, WaitMeansSent

LEMMA RxKept ==
  ASSUME NicInv, UNCHANGED <<rx, rx_next, arrived, received_frames, dropped>>,
         regs'.RDH = regs.RDH, regs'.RDT = regs.RDT
  PROVE  RxRow' /\ ReceivedOnceInOrder'
<1>1. Unread' = Unread
  BY DEF Unread
<1>2. RxRow'
  BY <1>1 DEF NicInv, RxRow
<1> QED
  BY <1>1, <1>2 DEF NicInv, ReceivedOnceInOrder

\* The device sends the frame at the head: the oldest that waits.
LEMMA TransmitKeeps ==
  ASSUME NicInv, device_transmit
  PROVE  NicInv'
<1>1. PICK h \in Ring : h = regs.TDH
  BY DEF NicInv, NicTypeOK, TxTypeOK, RxTypeOK
<1>2. /\ h # tx_next
      /\ wired' = Append(wired, tx[h].frame)
      /\ tx' = [tx EXCEPT ![h].done = TRUE]
      /\ regs' = [regs EXCEPT !.TDH = Succ(h)]
      /\ UNCHANGED <<rxVars, tx_next, tx_last_submitted, transmit_pending, submitted, waiter, link>>
  BY <1>1 DEF device_transmit, NicInv, TxRow
<1>3. /\ Len(wired) \in Nat /\ submitted \in Nat /\ Len(wired) < submitted
      /\ Unsent(h) /\ tx[h].frame = Len(wired) + 1
      /\ Unsent(tx_last_submitted) /\ tx[tx_last_submitted].frame = submitted
  <2>1. Len(wired) \in Nat /\ submitted \in Nat
    BY DEF NicInv, NicTypeOK, TxTypeOK, RxTypeOK
  <2>2. Len(wired) # submitted /\ Len(wired) <= submitted
    BY <1>1, <1>2 DEF NicInv, TxRow
  <2>3. Len(wired) < submitted
    BY <2>1, <2>2
  <2> QED
    BY <2>1, <2>3, <1>1 DEF NicInv, TxRow
<1>4. /\ wired' \in Seq(Nat) /\ Len(wired') = Len(wired) + 1
      /\ \A k \in 1 .. Len(wired) : wired'[k] = wired[k]
      /\ wired'[Len(wired) + 1] = Len(wired) + 1
  <2>1. wired \in Seq(Nat) /\ tx[h].frame \in Nat
    BY DEF NicInv, NicTypeOK, TxTypeOK, RxTypeOK
  <2> QED
    BY <2>1, <1>2, <1>3
<1>5. /\ tx' \in [Ring -> [frame : Nat, done : BOOLEAN]]
      /\ \A i \in Ring : tx'[i].frame = tx[i].frame
      /\ \A i \in Ring : i # h => tx'[i] = tx[i]
      /\ tx'[h].done
  BY <1>2, Zenon DEF NicInv, NicTypeOK, TxTypeOK, RxTypeOK
<1>6. Succ(h) \in Ring
  BY RingArithmetic
<1>7. /\ regs' \in [TDH : Ring, TDT : Ring, RDH : Ring, RDT : Ring]
      /\ regs'.TDH = Succ(h) /\ regs'.TDT = regs.TDT /\ regs'.RDH = regs.RDH /\ regs'.RDT = regs.RDT
  BY <1>2, <1>6, Zenon DEF NicInv, NicTypeOK, TxTypeOK, RxTypeOK
<1>8. NicTypeOK'
  BY <1>2, <1>4, <1>5, <1>7, Zenon DEF NicInv, NicTypeOK, TxTypeOK, RxTypeOK, rxVars
<1>9. \A i \in Ring : Unsent(i)' <=> Unsent(i) /\ i # h
  BY <1>5 DEF Unsent
<1>10. ASSUME NEW i \in Ring, Unsent(i), i # h
       PROVE  /\ Len(wired) + 1 < tx[i].frame /\ tx[i].frame <= submitted
              /\ tx[i].frame < submitted =>
                   Succ(i) \in Ring /\ Unsent(Succ(i)) /\ Succ(i) # h /\ tx[Succ(i)].frame = tx[i].frame + 1
              /\ tx[i].frame = submitted => Succ(i) = tx_next
  <2>1. tx[i].frame \in Nat /\ Succ(i) \in Ring
    BY RingArithmetic, Zenon DEF NicInv, NicTypeOK, TxTypeOK, RxTypeOK
  <2>2. /\ Len(wired) < tx[i].frame /\ tx[i].frame <= submitted
        /\ tx[i].frame < submitted => Unsent(Succ(i)) /\ tx[Succ(i)].frame = tx[i].frame + 1
        /\ tx[i].frame = submitted => Succ(i) = tx_next
    BY <1>10 DEF NicInv, TxRow
  <2>3. tx[i].frame # Len(wired) + 1
    BY <1>3, <1>10 DEF NicInv, TxRow
  <2>4. tx[i].frame < submitted => Succ(i) # h
    BY <2>1, <2>2, <1>3
  <2> QED
    BY <2>1, <2>2, <2>3, <2>4, <1>3
<1>11. TxRow'
  <2>1. Len(wired)' <= submitted' /\ regs'.TDT = tx_next'
    BY <1>2, <1>3, <1>4, <1>7 DEF NicInv, TxRow
  <2>2. \A i \in Ring : Unsent(i)' =>
          /\ Len(wired') < tx'[i].frame /\ tx'[i].frame <= submitted'
          /\ tx'[i].frame < submitted' => Unsent(Succ(i))' /\ tx'[Succ(i)].frame = tx'[i].frame + 1
          /\ tx'[i].frame = submitted' => Succ(i) = tx_next'
    BY <1>2, <1>4, <1>5, <1>9, <1>10
  <2>3. \A i, j \in Ring : Unsent(i)' /\ Unsent(j)' /\ tx'[i].frame = tx'[j].frame => i = j
    BY <1>5, <1>9 DEF NicInv, TxRow
  <2>4. ASSUME Len(wired') = submitted'
        PROVE  regs'.TDH = tx_next'
    <3>1. tx[h].frame = submitted
      BY <2>4, <1>2, <1>3, <1>4
    <3> QED
      BY <3>1, <1>2, <1>3, <1>7 DEF NicInv, TxRow
  <2>5. ASSUME Len(wired') < submitted'
        PROVE  /\ Unsent(regs.TDH)' /\ tx'[regs'.TDH].frame = Len(wired') + 1
               /\ Unsent(tx_last_submitted)' /\ tx'[tx_last_submitted'].frame = submitted'
    <3>1. Len(wired) + 1 < submitted
      BY <2>5, <1>2, <1>4
    <3>2. Unsent(Succ(h)) /\ tx[Succ(h)].frame = Len(wired) + 2
      BY <3>1, <1>3 DEF NicInv, TxRow
    <3>3. Succ(h) # h
      BY <3>2, <1>3
    <3>4. tx_last_submitted \in Ring /\ tx_last_submitted # h
      BY <3>1, <1>3 DEF NicInv, NicTypeOK, TxTypeOK, RxTypeOK
    <3>5. Unsent(Succ(h))' /\ Unsent(tx_last_submitted)'
      BY <3>2, <3>3, <3>4, <1>2, <1>3, <1>6, <1>5 DEF Unsent
    <3> QED
      BY <3>2, <3>4, <3>5, <1>2, <1>3, <1>4, <1>5, <1>6, <1>7 DEF Unsent
  <2> QED
    BY <2>1, <2>2, <2>3, <2>4, <2>5 DEF TxRow
<1>12. SentAsSubmitted'
  <2> SUFFICES ASSUME NEW k \in 1 .. Len(wired')
               PROVE  wired'[k] = k
    BY DEF SentAsSubmitted
  <2>1. k \in 1 .. Len(wired) \/ k = Len(wired) + 1
    BY <1>3, <1>4
  <2> QED
    BY <2>1, <1>4 DEF NicInv, SentAsSubmitted
<1>13. WaitMeansSent'
  BY <1>2, <1>3 DEF NicInv, WaitMeansSent
<1>14. RxRow' /\ ReceivedOnceInOrder'
  BY <1>2, <1>7, RxKept DEF rxVars
<1> QED
  BY <1>8, <1>11, <1>12, <1>13, <1>14 DEF NicInv

\* e1000_send_frame puts its frame behind the last one, in a descriptor that
\* does not wait; the ring may become full.
LEMMA SendKeeps ==
  ASSUME NicInv, e1000_send_frame
  PROVE  NicInv'
<1>1. PICK n \in Ring : n = tx_next
  BY DEF NicInv, NicTypeOK, TxTypeOK, RxTypeOK
<1>2. /\ ~Unsent(n)
      /\ submitted' = submitted + 1
      /\ tx' = [tx EXCEPT ![n] = [frame |-> submitted + 1, done |-> FALSE]]
      /\ tx_next' = Succ(n) /\ tx_last_submitted' = n /\ transmit_pending' = TRUE
      /\ regs' = [regs EXCEPT !.TDT = Succ(n)]
      /\ UNCHANGED <<rxVars, wired, waiter, link>>
  BY <1>1 DEF e1000_send_frame, Unsent
<1>3. submitted \in Nat /\ Len(wired) \in Nat /\ Succ(n) \in Ring
  <2>1. submitted \in Nat /\ Len(wired) \in Nat
    BY DEF NicInv, NicTypeOK, TxTypeOK, RxTypeOK
  <2> QED
    BY <2>1, RingArithmetic
<1>4. /\ tx' \in [Ring -> [frame : Nat, done : BOOLEAN]]
      /\ \A i \in Ring : i # n => tx'[i] = tx[i]
      /\ ~tx'[n].done /\ tx'[n].frame = submitted + 1
  <2>0. [frame |-> submitted + 1, done |-> FALSE] \in [frame : Nat, done : BOOLEAN]
    BY <1>3
  <2>1. PICK e \in [frame : Nat, done : BOOLEAN] : e = [frame |-> submitted + 1, done |-> FALSE]
    BY <2>0, Zenon
  <2>2. e.frame = submitted + 1 /\ ~e.done
    BY <2>1
  <2>3. tx' = [tx EXCEPT ![n] = e] /\ tx \in [Ring -> [frame : Nat, done : BOOLEAN]]
    BY <1>2, <2>1 DEF NicInv, NicTypeOK, TxTypeOK, RxTypeOK
  <2> QED
    BY <2>2, <2>3
<1>5. /\ regs' \in [TDH : Ring, TDT : Ring, RDH : Ring, RDT : Ring]
      /\ regs'.TDT = Succ(n) /\ regs'.TDH = regs.TDH /\ regs'.RDH = regs.RDH /\ regs'.RDT = regs.RDT
  BY <1>2, <1>3, Zenon DEF NicInv, NicTypeOK, TxTypeOK, RxTypeOK
<1>6. NicTypeOK'
  BY <1>2, <1>3, <1>4, <1>5, Zenon DEF NicInv, NicTypeOK, TxTypeOK, RxTypeOK, rxVars
<1>7. \A i \in Ring : Unsent(i)' <=> Unsent(i) \/ i = n
  BY <1>2, <1>4 DEF Unsent
<1>8. \A i \in Ring : Unsent(i) =>
        /\ i # n /\ tx'[i].frame = tx[i].frame /\ tx[i].frame \in Nat
        /\ Len(wired) < tx[i].frame /\ tx[i].frame <= submitted
  BY <1>2, <1>4, Zenon DEF NicInv, NicTypeOK, TxTypeOK, RxTypeOK, TxRow
<1>9. TxRow'
  <2>1. Len(wired') <= submitted' /\ regs'.TDT = tx_next'
    BY <1>2, <1>3, <1>5 DEF NicInv, TxRow
  <2>2. ASSUME NEW i \in Ring, Unsent(i)'
        PROVE  /\ Len(wired') < tx'[i].frame /\ tx'[i].frame <= submitted'
               /\ tx'[i].frame < submitted' => Unsent(Succ(i))' /\ tx'[Succ(i)].frame = tx'[i].frame + 1
               /\ tx'[i].frame = submitted' => Succ(i) = tx_next'
    <3>1. CASE i = n
      <4>1. Len(wired) <= submitted
        BY DEF NicInv, TxRow
      <4> QED
        BY <3>1, <4>1, <1>2, <1>3, <1>4
    <3>2. CASE i # n
      <4>1. Unsent(i) /\ Succ(i) \in Ring
        BY <3>2, <2>2, <1>7, RingArithmetic
      <4>2. CASE tx[i].frame < submitted
        <5>1. Unsent(Succ(i)) /\ tx[Succ(i)].frame = tx[i].frame + 1
          BY <4>1, <4>2 DEF NicInv, TxRow
        <5>2. Unsent(Succ(i))' /\ tx'[Succ(i)].frame = tx[i].frame + 1
          BY <4>1, <5>1, <1>7, <1>8
        <5> QED
          BY <4>1, <4>2, <5>2, <1>2, <1>3, <1>8
      <4>3. CASE tx[i].frame = submitted
        <5>1. Succ(i) = n
          BY <4>1, <4>3, <1>1 DEF NicInv, TxRow
        <5>2. Unsent(Succ(i))'
          BY <5>1, <4>1, <1>7
        <5> QED
          BY <4>1, <4>3, <5>1, <5>2, <1>2, <1>3, <1>4, <1>8
      <4> QED
        BY <4>1, <4>2, <4>3, <1>3, <1>8
    <3> QED
      BY <3>1, <3>2
  <2>3. ASSUME NEW i \in Ring, NEW j \in Ring, Unsent(i)', Unsent(j)', tx'[i].frame = tx'[j].frame
        PROVE  i = j
    <3>1. CASE i # n /\ j # n
      <4>1. Unsent(i) /\ Unsent(j)
        BY <3>1, <2>3, <1>7
      <4> QED
        BY <4>1, <2>3, <1>8 DEF NicInv, TxRow
    <3>2. CASE i = n /\ j # n
      <4>1. Unsent(j)
        BY <3>2, <2>3, <1>7
      <4> QED
        BY <3>2, <4>1, <2>3, <1>3, <1>4, <1>8
    <3>3. CASE i # n /\ j = n
      <4>1. Unsent(i)
        BY <3>3, <2>3, <1>7
      <4> QED
        BY <3>3, <4>1, <2>3, <1>3, <1>4, <1>8
    <3> QED
      BY <3>1, <3>2, <3>3
  <2>4. Len(wired') # submitted' /\ Len(wired') < submitted'
    BY <1>2, <1>3 DEF NicInv, TxRow
  <2>5. Unsent(regs.TDH)' /\ tx'[regs'.TDH].frame = Len(wired') + 1
    <3>1. CASE Len(wired) = submitted
      <4>1. regs'.TDH = n
        BY <3>1, <1>1, <1>5 DEF NicInv, TxRow
      <4> QED
        BY <3>1, <4>1, <1>2, <1>4 DEF Unsent
    <3>2. CASE Len(wired) < submitted
      <4>1. regs.TDH \in Ring /\ Unsent(regs.TDH) /\ tx[regs.TDH].frame = Len(wired) + 1
        BY <3>2 DEF NicInv, NicTypeOK, TxTypeOK, RxTypeOK, TxRow
      <4>2. regs.TDH # n /\ tx'[regs.TDH] = tx[regs.TDH]
        BY <4>1, <1>4, <1>8
      <4> QED
        BY <4>1, <4>2, <1>2, <1>5 DEF Unsent
    <3> QED
      BY <3>1, <3>2, <1>3 DEF NicInv, TxRow
  <2>6. Unsent(tx_last_submitted)' /\ tx'[tx_last_submitted'].frame = submitted'
    BY <1>2, <1>4 DEF Unsent
  <2> QED
    BY <2>1, <2>2, <2>3, <2>4, <2>5, <2>6 DEF TxRow
<1>10. SentAsSubmitted' /\ WaitMeansSent'
  BY <1>2 DEF NicInv, SentAsSubmitted, WaitMeansSent
<1>11. RxRow' /\ ReceivedOnceInOrder'
  BY <1>2, <1>5, RxKept DEF rxVars
<1> QED
  BY <1>6, <1>9, <1>10, <1>11 DEF NicInv

\* The last descriptor submitted is the last to be sent: the wait may go by it.
LEMMA WaitKeeps ==
  ASSUME NicInv, e1000_wait_for_transmit
  PROVE  NicInv'
<1>1. /\ UNCHANGED <<rxVars, tx, tx_next, tx_last_submitted, submitted, wired, regs, link>>
      /\ \/ SentUpToLast /\ transmit_pending' = FALSE
         \/ transmit_pending' = transmit_pending
  BY DEF e1000_wait_for_transmit
<1>2. NicTypeOK'
  BY <1>1, Zenon DEF NicInv, NicTypeOK, TxTypeOK, RxTypeOK, rxVars
<1>3. TxRow' /\ SentAsSubmitted'
  BY <1>1 DEF NicInv, TxRow, Unsent, SentAsSubmitted
<1>4. Len(wired) \in Nat /\ submitted \in Nat /\ Len(wired) <= submitted
  BY DEF NicInv, NicTypeOK, TxTypeOK, RxTypeOK, TxRow
<1>5. SentUpToLast => Len(wired) = submitted
  BY <1>4 DEF SentUpToLast, NicInv, WaitMeansSent, TxRow, Unsent
<1>6. WaitMeansSent'
  BY <1>1, <1>5 DEF NicInv, WaitMeansSent
<1>7. RxRow' /\ ReceivedOnceInOrder'
  BY <1>1, RxKept DEF rxVars
<1> QED
  BY <1>2, <1>3, <1>6, <1>7 DEF NicInv

LEMMA AheadFacts ==
  ASSUME NEW n \in Ring, NEW i \in Ring
  PROVE  /\ Ahead(n, i) \in Ring /\ Ahead(n, n) = 0
         /\ \A j \in Ring : Ahead(n, i) = Ahead(n, j) => i = j
         /\ Succ(i) = n => Ahead(n, i) = Descriptors - 1
         /\ Ahead(n, i) < Descriptors - 1 => Ahead(n, Succ(i)) = Ahead(n, i) + 1
         /\ i # n => Ahead(n, i) > 0 /\ Ahead(Succ(n), i) = Ahead(n, i) - 1
         /\ Ahead(Succ(n), n) = Descriptors - 1
<1>1. Descriptors \in Nat \ {0} /\ n \in Nat /\ i \in Nat /\ n < Descriptors /\ i < Descriptors
  BY NicAssumption DEF Ring
<1>2. /\ Succ(i) = (IF i + 1 = Descriptors THEN 0 ELSE i + 1)
      /\ Succ(n) = (IF n + 1 = Descriptors THEN 0 ELSE n + 1)
  BY RingArithmetic
<1>3. Ahead(n, i) \in Ring /\ Ahead(n, n) = 0
  BY <1>1 DEF Ahead, Ring
<1>4. \A j \in Ring : Ahead(n, i) = Ahead(n, j) => i = j
  BY <1>1 DEF Ahead, Ring
<1>5. /\ Succ(i) = n => Ahead(n, i) = Descriptors - 1
      /\ Ahead(n, i) < Descriptors - 1 => Ahead(n, Succ(i)) = Ahead(n, i) + 1
  BY <1>1, <1>2 DEF Ahead
<1>6. /\ i # n => Ahead(n, i) > 0 /\ Ahead(Succ(n), i) = Ahead(n, i) - 1
      /\ Ahead(Succ(n), n) = Descriptors - 1
  BY <1>1, <1>2 DEF Ahead
<1> QED
  BY <1>3, <1>4, <1>5, <1>6

LEMMA AheadDiffers ==
  ASSUME NEW n \in Ring, NEW i \in Ring, NEW j \in Ring, i # j
  PROVE  Ahead(n, i) # Ahead(n, j) /\ Ahead(n, i) \in Ring
  BY NicAssumption DEF Ahead, Ring

LEMMA UnreadFinite == IsFiniteSet(Unread)
<1>1. IsFiniteSet(Ring)
  BY NicAssumption, FS_Interval DEF Ring
<1>2. Unread \subseteq Ring
  BY DEF Unread
<1> QED
  BY <1>1, <1>2, FS_Subset

\* The device fills the descriptor at the head, which nobody has still to read,
\* or drops the frame.
LEMMA FilledKeeps ==
  ASSUME NicInv, NEW h \in Ring, h = regs.RDH, h # regs.RDT,
         NEW b \in BOOLEAN,
         rx' = [rx EXCEPT ![h] = [frame |-> arrived + 1, done |-> TRUE, bad |-> b]],
         regs' = [regs EXCEPT !.RDH = Succ(h)],
         arrived' = arrived + 1, UNCHANGED <<rx_next, received_frames, dropped>>
  PROVE  /\ rx' \in [Ring -> [frame : Nat, done : BOOLEAN, bad : BOOLEAN]]
         /\ RxRow' /\ ReceivedOnceInOrder'
<1>1. PICK n \in Ring, t \in Ring : n = rx_next /\ t = regs.RDT
  BY DEF NicInv, NicTypeOK, TxTypeOK, RxTypeOK
<1>2. arrived \in Nat /\ Succ(t) = n /\ Succ(h) \in Ring
  <2>1. arrived \in Nat /\ Succ(t) = n
    BY <1>1 DEF NicInv, NicTypeOK, TxTypeOK, RxTypeOK, RxRow
  <2> QED
    BY <2>1, RingArithmetic
<1>3. /\ rx' \in [Ring -> [frame : Nat, done : BOOLEAN, bad : BOOLEAN]]
      /\ \A i \in Ring : i # h => rx'[i] = rx[i]
      /\ rx'[h].done /\ rx'[h].frame = arrived + 1
  <2>0. [frame |-> arrived + 1, done |-> TRUE, bad |-> b] \in [frame : Nat, done : BOOLEAN, bad : BOOLEAN]
    BY <1>2
  <2>1. PICK e \in [frame : Nat, done : BOOLEAN, bad : BOOLEAN] :
          e = [frame |-> arrived + 1, done |-> TRUE, bad |-> b]
    BY <2>0, Zenon
  <2>2. e.frame = arrived + 1 /\ e.done
    BY <2>1
  <2>3. rx' = [rx EXCEPT ![h] = e] /\ rx \in [Ring -> [frame : Nat, done : BOOLEAN, bad : BOOLEAN]]
    BY <2>1 DEF NicInv, NicTypeOK, TxTypeOK, RxTypeOK
  <2> QED
    BY <2>2, <2>3
<1>4. regs'.RDH = Succ(h) /\ regs'.RDT = t
  BY <1>1 DEF NicInv, NicTypeOK, TxTypeOK, RxTypeOK
<1>5. Ahead(n, h) \in Ring /\ Ahead(n, t) = Descriptors - 1 /\ Ahead(n, h) # Ahead(n, t)
  <2>1. Ahead(n, h) \in Ring /\ \A j \in Ring : Ahead(n, h) = Ahead(n, j) => h = j
    BY AheadFacts, Zenon
  <2>2. Ahead(n, t) = Descriptors - 1
    BY <1>2, AheadFacts, Zenon
  <2> QED
    BY <1>1, <2>1, <2>2
<1>6. Ahead(n, h) < Descriptors - 1 /\ Ahead(n, Succ(h)) = Ahead(n, h) + 1
  <2>1. Ahead(n, h) < Descriptors - 1
    BY <1>5, NicAssumption DEF Ring
  <2> QED
    BY <2>1, AheadFacts
<1>7. \A i \in Ring : rx[i].done <=> Ahead(n, i) < Ahead(n, h)
  BY <1>1 DEF NicInv, RxRow
<1>8. Unread' = Unread \cup {h} /\ h \notin Unread
  <2>1. ~(Ahead(n, h) < Ahead(n, h))
    BY <1>5 DEF Ring
  <2>2. ~rx[h].done
    BY <1>7, <2>1
  <2> QED
    BY <2>2, <1>3 DEF Unread
<1>9. Cardinality(Unread') = Cardinality(Unread) + 1 /\ Cardinality(Unread) = Ahead(n, h)
  <2>1. Cardinality(Unread) = Ahead(n, h)
    BY <1>1 DEF NicInv, RxRow
  <2>2. Cardinality(Unread \cup {h}) = Cardinality(Unread) + 1
    BY <1>8, UnreadFinite, FS_AddElement, Zenon
  <2> QED
    BY <2>1, <2>2, <1>8
<1>10. \A i \in Ring : rx'[i].done <=> Ahead(n, i) < Ahead(n, Succ(h))
  <2> SUFFICES ASSUME NEW i \in Ring
               PROVE  rx'[i].done <=> Ahead(n, i) < Ahead(n, Succ(h))
    OBVIOUS
  <2>1. CASE i = h
    BY <2>1, <1>3, <1>5, <1>6 DEF Ring
  <2>2. CASE i # h
    <3>1. Ahead(n, i) # Ahead(n, h) /\ Ahead(n, i) \in Ring
      BY <2>2, AheadDiffers, Zenon
    <3>2. Ahead(n, i) < Ahead(n, h) <=> Ahead(n, i) < Ahead(n, Succ(h))
      BY <3>1, <1>5, <1>6 DEF Ring
    <3> QED
      BY <2>2, <3>2, <1>3, <1>7
  <2> QED
    BY <2>1, <2>2
<1>11. \A i \in Unread : /\ i # h /\ i \in Ring /\ rx'[i] = rx[i] /\ rx[i].frame \in Nat /\ rx[i].frame <= arrived
                         /\ Ahead(n, i) < Ahead(n, h)
  <2>1. \A i \in Unread : i # h /\ i \in Ring /\ Ahead(n, i) < Ahead(n, h)
    BY <1>8, <1>7 DEF Unread
  <2> QED
    BY <2>1, <1>3, Zenon DEF NicInv, NicTypeOK, TxTypeOK, RxTypeOK, RxRow
<1>12. \A i \in Unread' : rx'[i].frame <= arrived'
  BY <1>2, <1>3, <1>8, <1>11
<1>13. ASSUME NEW i \in Unread', NEW j \in Unread', Ahead(n, i) < Ahead(n, j)
       PROVE  rx'[i].frame < rx'[j].frame
  <2>1. CASE i \in Unread /\ j \in Unread
    BY <2>1, <1>13, <1>1, <1>11 DEF NicInv, RxRow
  <2>2. CASE i \in Unread /\ j = h
    BY <2>2, <1>2, <1>3, <1>11
  <2>3. CASE i = h
    <3>1. CASE j \in Unread
      <4>1. Ahead(n, j) \in Ring /\ Ahead(n, j) < Ahead(n, h)
        BY <3>1, <1>11, AheadFacts, Zenon
      <4> QED
        BY <4>1, <2>3, <1>13, <1>5 DEF Ring
    <3>2. CASE j = h
      BY <3>2, <2>3, <1>13, <1>5 DEF Ring
    <3> QED
      BY <3>1, <3>2, <1>8
  <2> QED
    BY <2>1, <2>2, <2>3, <1>8
<1>14. ASSUME NEW k \in 1 .. Len(received_frames)
       PROVE  received_frames[k] <= arrived' /\ \A i \in Unread' : received_frames[k] < rx'[i].frame
  <2>1. received_frames[k] \in Nat /\ received_frames[k] <= arrived
    <3>1. received_frames \in Seq(Nat)
      BY DEF NicInv, NicTypeOK, TxTypeOK, RxTypeOK
    <3>2. received_frames[k] <= arrived
      BY DEF NicInv, RxRow
    <3> QED
      BY <3>1, <3>2
  <2>2. \A i \in Unread : received_frames[k] < rx[i].frame
    BY DEF NicInv, RxRow
  <2> QED
    BY <2>1, <2>2, <1>2, <1>3, <1>8, <1>11
<1>15. RxRow'
  BY <1>1, <1>2, <1>4, <1>6, <1>9, <1>10, <1>12, <1>13, <1>14 DEF RxRow
<1>16. ReceivedOnceInOrder'
  <2>1. Cardinality(Unread) \in Nat /\ Len(received_frames) \in Nat /\ dropped \in Nat
    BY <1>5, <1>9 DEF NicInv, NicTypeOK, TxTypeOK, RxTypeOK, Ring
  <2> QED
    BY <2>1, <1>2, <1>9 DEF NicInv, ReceivedOnceInOrder
<1> QED
  BY <1>3, <1>15, <1>16

LEMMA ReceiveKeeps ==
  ASSUME NicInv, device_receive
  PROVE  NicInv'
<1>1. PICK h \in Ring : h = regs.RDH
  BY DEF NicInv, NicTypeOK, TxTypeOK, RxTypeOK
<1>2. arrived \in Nat /\ arrived' = arrived + 1 /\ UNCHANGED <<txVars, rx_next, received_frames, link, poll>>
  BY DEF device_receive, NicInv, NicTypeOK, TxTypeOK, RxTypeOK
<1>3. CASE h # regs.RDT
  <2>1. PICK b \in BOOLEAN : rx' = [rx EXCEPT ![h] = [frame |-> arrived + 1, done |-> TRUE, bad |-> b]]
    BY <1>1, <1>3, Zenon DEF device_receive
  <2>2. regs' = [regs EXCEPT !.RDH = Succ(h)] /\ UNCHANGED dropped
    BY <1>1, <1>3 DEF device_receive
  <2>3. /\ rx' \in [Ring -> [frame : Nat, done : BOOLEAN, bad : BOOLEAN]]
        /\ RxRow' /\ ReceivedOnceInOrder'
    BY <1>1, <1>2, <1>3, <2>1, <2>2, FilledKeeps, Zenon
  <2>4. Succ(h) \in Ring
    BY RingArithmetic
  <2>5. /\ regs' \in [TDH : Ring, TDT : Ring, RDH : Ring, RDT : Ring]
        /\ regs'.TDH = regs.TDH /\ regs'.TDT = regs.TDT
    BY <2>2, <2>4, Zenon DEF NicInv, NicTypeOK, TxTypeOK, RxTypeOK
  <2>6. TxTypeOK' /\ TxRow' /\ SentAsSubmitted' /\ WaitMeansSent'
    BY <1>2, <2>5, TxKept DEF txVars
  <2>7. RxTypeOK'
    <3>1. rx_next' = rx_next /\ received_frames' = received_frames /\ poll' = poll /\ dropped' = dropped
      BY <1>2, <2>2
    <3>2. /\ rx_next \in Ring /\ received_frames \in Seq(Nat) /\ poll \in Nat /\ dropped \in Nat
          /\ arrived' \in Nat
      BY <1>2 DEF NicInv, NicTypeOK, RxTypeOK
    <3> QED
      BY <2>3, <3>1, <3>2, Zenon DEF RxTypeOK
  <2>8. NicTypeOK'
    BY <2>5, <2>6, <2>7 DEF NicTypeOK
  <2> QED
    BY <2>3, <2>6, <2>8 DEF NicInv
<1>4. CASE h = regs.RDT
  <2>1. dropped' = dropped + 1 /\ UNCHANGED <<rx, regs>>
    BY <1>1, <1>4 DEF device_receive
  <2>2. TxTypeOK' /\ TxRow' /\ SentAsSubmitted' /\ WaitMeansSent'
    BY <1>2, <2>1, TxKept DEF txVars
  <2>3. NicTypeOK'
    BY <1>2, <2>1, <2>2 DEF NicInv, NicTypeOK, RxTypeOK
  <2>4. Unread' = Unread
    BY <2>1 DEF Unread
  <2>5. \A i \in Unread : rx[i].frame \in Nat /\ rx[i].frame <= arrived'
    <3>1. \A i \in Unread : rx[i].frame \in Nat /\ rx[i].frame <= arrived
      BY DEF NicInv, NicTypeOK, TxTypeOK, RxTypeOK, RxRow, Unread
    <3> QED
      BY <3>1, <1>2
  <2>6. \A k \in 1 .. Len(received_frames) : received_frames[k] <= arrived'
    <3>1. received_frames \in Seq(Nat) /\ \A k \in 1 .. Len(received_frames) : received_frames[k] <= arrived
      BY DEF NicInv, NicTypeOK, TxTypeOK, RxTypeOK, RxRow
    <3> QED
      BY <3>1, <1>2
  <2>7. RxRow'
    BY <1>2, <2>1, <2>4, <2>5, <2>6 DEF NicInv, RxRow
  <2>8. Cardinality(Unread) \in Nat /\ Len(received_frames) \in Nat /\ dropped \in Nat
    BY UnreadFinite, FS_CardinalityType DEF NicInv, NicTypeOK, TxTypeOK, RxTypeOK
  <2>9. ReceivedOnceInOrder'
    BY <2>8, <1>2, <2>1, <2>4 DEF NicInv, ReceivedOnceInOrder
  <2> QED
    BY <2>2, <2>3, <2>7, <2>9 DEF NicInv
<1> QED
  BY <1>3, <1>4

\* The driver reads the descriptor at rx_next, the oldest unread, and makes it
\* the tail.
LEMMA TakenKeeps ==
  ASSUME NicInv, NEW n \in Ring, n = rx_next, rx[n].done,
         NEW f \in Seq(Nat), f = Append(received_frames, rx[n].frame),
         NEW b \in BOOLEAN,
         received_frames' = (IF b THEN received_frames ELSE f),
         dropped' = (IF b THEN dropped + 1 ELSE dropped),
         rx' = [rx EXCEPT ![n].done = FALSE],
         regs' = [regs EXCEPT !.RDT = n], rx_next' = Succ(n), arrived' = arrived
  PROVE  /\ rx' \in [Ring -> [frame : Nat, done : BOOLEAN, bad : BOOLEAN]]
         /\ RxRow' /\ ReceivedOnceInOrder'
<1>1. PICK h \in Ring : h = regs.RDH
  BY DEF NicInv, NicTypeOK
<1>2. Succ(n) \in Ring
  BY RingArithmetic
<1>3. /\ rx' \in [Ring -> [frame : Nat, done : BOOLEAN, bad : BOOLEAN]]
      /\ \A i \in Ring : i # n => rx'[i] = rx[i]
      /\ ~rx'[n].done
  BY Zenon DEF NicInv, NicTypeOK, RxTypeOK
<1>4. regs'.RDH = h /\ regs'.RDT = n
  BY <1>1 DEF NicInv, NicTypeOK
<1>5. \A i \in Ring : rx[i].done <=> Ahead(n, i) < Ahead(n, h)
  BY <1>1 DEF NicInv, RxRow
<1>6. Ahead(n, n) = 0 /\ Ahead(n, h) \in Ring /\ 0 < Ahead(n, h) /\ h # n
  <2>1. Ahead(n, n) = 0 /\ Ahead(n, h) \in Ring
    BY AheadFacts, Zenon
  <2>2. 0 < Ahead(n, h)
    BY <2>1, <1>5
  <2> QED
    BY <2>1, <2>2
<1>7. Ahead(Succ(n), h) = Ahead(n, h) - 1 /\ Ahead(Succ(n), n) = Descriptors - 1
  BY <1>6, AheadFacts, Zenon
<1>8. Unread' = Unread \ {n} /\ n \in Unread
  BY <1>3 DEF Unread
<1>9. Cardinality(Unread') = Cardinality(Unread) - 1 /\ Cardinality(Unread) = Ahead(n, h)
  <2>1. Cardinality(Unread) = Ahead(n, h)
    BY <1>1 DEF NicInv, RxRow
  <2>2. Cardinality(Unread \ {n}) = Cardinality(Unread) - 1
    BY <1>8, UnreadFinite, FS_RemoveElement, Zenon
  <2> QED
    BY <2>1, <2>2, <1>8
<1>10. ASSUME NEW i \in Ring
       PROVE  rx'[i].done <=> Ahead(Succ(n), i) < Ahead(Succ(n), h)
  <2>1. CASE i = n
    BY <2>1, <1>3, <1>6, <1>7, NicAssumption DEF Ring
  <2>2. CASE i # n
    <3>1. Ahead(Succ(n), i) = Ahead(n, i) - 1 /\ Ahead(n, i) \in Ring
      BY <2>2, AheadFacts, Zenon
    <3>2. Ahead(n, i) < Ahead(n, h) <=> Ahead(Succ(n), i) < Ahead(Succ(n), h)
      BY <3>1, <1>6, <1>7 DEF Ring
    <3> QED
      BY <2>2, <3>2, <1>3, <1>5
  <2> QED
    BY <2>1, <2>2
<1>11. ASSUME NEW i \in Unread'
       PROVE  /\ i \in Unread /\ i \in Ring /\ rx'[i] = rx[i] /\ rx[i].frame \in Nat /\ rx[i].frame <= arrived
              /\ rx[n].frame < rx[i].frame
              /\ Ahead(Succ(n), i) = Ahead(n, i) - 1 /\ Ahead(n, i) \in Ring
  <2>1. i # n /\ i \in Unread /\ i \in Ring
    BY <1>8 DEF Unread
  <2>2. Ahead(Succ(n), i) = Ahead(n, i) - 1 /\ Ahead(n, i) \in Ring /\ Ahead(n, i) > 0
    BY <2>1, AheadFacts, Zenon
  <2>3. rx'[i] = rx[i] /\ rx[i].frame \in Nat /\ rx[i].frame <= arrived
    BY <2>1, <1>3 DEF NicInv, NicTypeOK, RxTypeOK, RxRow
  <2>4. Ahead(n, n) < Ahead(n, i)
    BY <2>2, <1>6 DEF Ring
  <2>5. rx[n].frame < rx[i].frame
    BY <2>1, <2>4, <1>8 DEF NicInv, RxRow
  <2> QED
    BY <2>1, <2>2, <2>3, <2>5
<1>12. ASSUME NEW i \in Unread', NEW j \in Unread', Ahead(Succ(n), i) < Ahead(Succ(n), j)
       PROVE  rx'[i].frame < rx'[j].frame
  <2>1. Ahead(n, i) < Ahead(n, j)
    BY <1>11, <1>12 DEF Ring
  <2>2. rx[i].frame < rx[j].frame
    BY <2>1, <1>11 DEF NicInv, RxRow
  <2> QED
    BY <2>2, <1>11
<1>13. received_frames \in Seq(Nat) /\ rx[n].frame \in Nat /\ arrived \in Nat /\ dropped \in Nat
  BY DEF NicInv, NicTypeOK, RxTypeOK
<1>14. /\ Len(f) = Len(received_frames) + 1 /\ f[Len(received_frames) + 1] = rx[n].frame
       /\ \A k \in 1 .. Len(received_frames) : f[k] = received_frames[k]
  BY <1>13
<1>15. /\ rx[n].frame <= arrived
       /\ \A k \in 1 .. Len(received_frames) : received_frames[k] <= arrived /\ received_frames[k] < rx[n].frame
  BY <1>8 DEF NicInv, RxRow
<1>16. ASSUME NEW k \in 1 .. Len(received_frames')
       PROVE  received_frames'[k] <= arrived /\ \A i \in Unread' : received_frames'[k] < rx'[i].frame
  <2>1. CASE k \in 1 .. Len(received_frames)
    <3>1. received_frames'[k] = received_frames[k]
      BY <2>1, <1>14
    <3>2. \A i \in Unread : received_frames[k] < rx[i].frame
      BY <2>1 DEF NicInv, RxRow
    <3> QED
      BY <2>1, <3>1, <3>2, <1>11, <1>15
  <2>2. CASE ~b /\ k = Len(received_frames) + 1
    BY <2>2, <1>11, <1>14, <1>15
  <2> QED
    BY <2>1, <2>2, <1>13, <1>14
<1>17. RxRow'
  BY <1>1, <1>2, <1>4, <1>6, <1>7, <1>9, <1>10, <1>11, <1>12, <1>16 DEF RxRow
<1>18. ReceivedOnceInOrder'
  <2>1. ASSUME NEW k \in 1 .. Len(received_frames') - 1
        PROVE  received_frames'[k] < received_frames'[k + 1]
    <3>1. CASE k \in 1 .. Len(received_frames) - 1
      <4>1. k \in 1 .. Len(received_frames) /\ k + 1 \in 1 .. Len(received_frames)
        BY <3>1, <1>13
      <4>2. received_frames'[k] = received_frames[k] /\ received_frames'[k + 1] = received_frames[k + 1]
        BY <4>1, <1>14
      <4> QED
        BY <3>1, <4>2 DEF NicInv, ReceivedOnceInOrder
    <3>2. CASE ~b /\ k = Len(received_frames)
      <4>1. k \in 1 .. Len(received_frames) /\ k + 1 = Len(received_frames) + 1
        BY <3>2, <1>13
      <4> QED
        BY <3>2, <4>1, <1>14, <1>15
    <3> QED
      BY <3>1, <3>2, <1>13, <1>14
  <2>2. Cardinality(Unread) \in Nat /\ Len(received_frames) \in Nat
    BY <1>6, <1>9, <1>13 DEF Ring
  <2>3. arrived' = Len(received_frames') + dropped' + Cardinality(Unread')
    <3>1. arrived = Len(received_frames) + dropped + Cardinality(Unread)
      BY DEF NicInv, ReceivedOnceInOrder
    <3> QED
      BY <3>1, <2>2, <1>9, <1>13, <1>14
  <2> QED
    BY <2>1, <2>3 DEF ReceivedOnceInOrder
<1> QED
  BY <1>3, <1>17, <1>18

LEMMA TakeKeeps ==
  ASSUME NicInv, e1000_receive_frame
  PROVE  NicInv'
<1>1. PICK n \in Ring : n = rx_next
  BY DEF NicInv, NicTypeOK, RxTypeOK
<1>2. poll > 0 /\ UNCHANGED <<txVars, arrived, link>>
  BY DEF e1000_receive_frame
<1>3. poll \in Nat /\ poll - 1 \in Nat /\ arrived \in Nat /\ dropped \in Nat /\ received_frames \in Seq(Nat)
  BY <1>2 DEF NicInv, NicTypeOK, RxTypeOK
<1>4. CASE rx[n].done
  <2>1. PICK b \in BOOLEAN, f \in Seq(Nat) : b = rx[n].bad /\ f = Append(received_frames, rx[n].frame)
    <3>1. rx[n].bad \in BOOLEAN /\ rx[n].frame \in Nat
      BY DEF NicInv, NicTypeOK, RxTypeOK
    <3>2. Append(received_frames, rx[n].frame) \in Seq(Nat)
      BY <3>1, <1>3
    <3> QED
      BY <3>1, <3>2, Zenon
  <2>2. /\ received_frames' = (IF b THEN received_frames ELSE f)
        /\ dropped' = (IF b THEN dropped + 1 ELSE dropped)
        /\ poll' = (IF b THEN 0 ELSE poll - 1)
        /\ rx' = [rx EXCEPT ![n].done = FALSE]
        /\ regs' = [regs EXCEPT !.RDT = n]
        /\ rx_next' = Succ(n)
    BY <1>1, <1>4, <2>1 DEF e1000_receive_frame, ReturnDescriptor
  <2>3. /\ rx' \in [Ring -> [frame : Nat, done : BOOLEAN, bad : BOOLEAN]]
        /\ RxRow' /\ ReceivedOnceInOrder'
    BY <1>1, <1>2, <1>4, <2>1, <2>2, TakenKeeps, Zenon
  <2>4. /\ regs' \in [TDH : Ring, TDT : Ring, RDH : Ring, RDT : Ring]
        /\ regs'.TDH = regs.TDH /\ regs'.TDT = regs.TDT
    BY <2>2, Zenon DEF NicInv, NicTypeOK
  <2>5. TxTypeOK' /\ TxRow' /\ SentAsSubmitted' /\ WaitMeansSent'
    BY <1>2, <2>4, TxKept DEF txVars
  <2>6. RxTypeOK'
    <3>1. rx_next' \in Ring
      BY <2>2, RingArithmetic
    <3>2. received_frames' \in Seq(Nat) /\ dropped' \in Nat /\ poll' \in Nat /\ arrived' \in Nat
      BY <2>2, <1>2, <1>3
    <3> QED
      BY <2>3, <3>1, <3>2 DEF RxTypeOK
  <2> QED
    BY <2>3, <2>4, <2>5, <2>6 DEF NicInv, NicTypeOK
<1>5. CASE ~rx[n].done
  <2>1. poll' = 0 /\ UNCHANGED <<received_frames, dropped, rx, regs, rx_next>>
    BY <1>1, <1>5 DEF e1000_receive_frame
  <2>2. TxTypeOK' /\ TxRow' /\ SentAsSubmitted' /\ WaitMeansSent'
    BY <1>2, <2>1, TxKept DEF txVars
  <2>3. RxRow' /\ ReceivedOnceInOrder'
    BY <1>2, <2>1, RxKept
  <2>4. RxTypeOK' /\ regs' \in [TDH : Ring, TDT : Ring, RDH : Ring, RDT : Ring]
    BY <1>2, <2>1 DEF NicInv, NicTypeOK, RxTypeOK
  <2> QED
    BY <2>2, <2>3, <2>4 DEF NicInv, NicTypeOK
<1> QED
  BY <1>4, <1>5

\* Frames leave once and in the order they were submitted, none overwritten in
\* its descriptor, and e1000_wait_for_transmit returns when all have left;
\* frames that arrive are handed up once and in order, counted as dropped, or
\* still in the ring, and every descriptor but one is the device's or unread.
THEOREM RingsAreSound == NicSpec => []RingsSound
<1>1. NicInv /\ [NicNext]_nicVars => NicInv'
  <2> SUFFICES ASSUME NicInv, [NicNext]_nicVars
               PROVE  NicInv'
    OBVIOUS
  <2>1. ASSUME UNCHANGED <<txVars, regs, rx, rx_next, arrived, received_frames, dropped>>, poll' \in Nat
        PROVE  NicInv'
    <3>1. TxTypeOK' /\ TxRow' /\ SentAsSubmitted' /\ WaitMeansSent'
      BY <2>1, TxKept DEF txVars
    <3>2. RxRow' /\ ReceivedOnceInOrder'
      BY <2>1, RxKept
    <3>3. RxTypeOK' /\ regs' \in [TDH : Ring, TDT : Ring, RDH : Ring, RDT : Ring]
      BY <2>1 DEF NicInv, NicTypeOK, RxTypeOK
    <3> QED
      BY <3>1, <3>2, <3>3 DEF NicInv, NicTypeOK
  <2>2. poll \in Nat /\ Budget \in Nat
    BY NicAssumption DEF NicInv, NicTypeOK, RxTypeOK
  <2>3. CASE UNCHANGED nicVars \/ device_link \/ e1000_irq_handler
    BY <2>1, <2>2, <2>3 DEF nicVars, txVars, rxVars, device_link, e1000_irq_handler
  <2>4. CASE net_poll
    BY <2>1, <2>2, <2>4 DEF net_poll
  <2> QED
    BY <2>3, <2>4, TransmitKeeps, ReceiveKeeps, SendKeeps, WaitKeeps, TakeKeeps DEF NicNext
<1> QED
  BY <1>1, NicInvSound, NicStarts, PTL DEF NicSpec

-----------------------------------------------------------------------------
(* The ARP cache: arp_remember may leave a peer's older entry behind in a    *)
(* later slot, so that the answer is right because of the order of slots.    *)

Live(i) == arp_cache[i].valid /\ ~Expired(arp_cache[i])

ArpEntry == [valid : BOOLEAN, ip : Peers \cup {NoMac}, mac : Macs \cup {NoMac}, at : Nat]
ArpTypeOK ==
  /\ arp_cache \in [ArpSlots -> ArpEntry] /\ now \in Nat
  /\ learned \in [Peers -> [mac : Macs \cup {NoMac}, at : Nat]]

EntriesDated ==
  \A i \in ArpSlots : arp_cache[i].valid => arp_cache[i].ip \in Peers /\ arp_cache[i].at <= now

\* An entry made in this tick was put behind entries in use, and a tick is too
\* short for them to expire.
NoGapsBefore ==
  \A i, j \in ArpSlots : i < j /\ Live(j) /\ arp_cache[j].at = now => Live(i)

\* Of two entries of one peer the later slot has the older, strictly: so it
\* expires no later, and the slot taken from the oldest entry is never the first.
OlderLater ==
  \A i, j \in ArpSlots :
    i < j /\ Live(i) /\ Live(j) /\ arp_cache[i].ip = arp_cache[j].ip
      => arp_cache[j].at < arp_cache[i].at

FirstIsNewest ==
  \A i \in ArpSlots :
    Live(i) /\ (\A j \in ArpSlots : j < i /\ Live(j) => arp_cache[j].ip # arp_cache[i].ip)
    => /\ learned[arp_cache[i].ip].mac = arp_cache[i].mac
       /\ learned[arp_cache[i].ip].at = arp_cache[i].at

ArpInv == ArpTypeOK /\ EntriesDated /\ NoGapsBefore /\ OlderLater /\ FirstIsNewest

\* arp_lookup finds what the invariant speaks of.
LEMMA ArpInvAnswers == ArpInv => ArpAnswersNewest
<1> SUFFICES ASSUME ArpInv, NEW ip \in Peers, NEW i \in First(Hits(ip))
             PROVE  arp_cache[i].mac = learned[ip].mac /\ now < learned[ip].at + Ttl
  BY DEF ArpAnswersNewest
<1>2. i \in Hits(ip) /\ \A j \in Hits(ip) : i <= j
  BY DEF First
<1>3. i \in ArpSlots /\ Live(i) /\ arp_cache[i].ip = ip
  BY <1>2 DEF Hits, Live
<1>4. \A j \in ArpSlots : j < i /\ Live(j) => arp_cache[j].ip # ip
  <2> SUFFICES ASSUME NEW j \in ArpSlots, j < i, Live(j), arp_cache[j].ip = ip PROVE FALSE
    OBVIOUS
  <2>1. j \in Hits(ip)
    BY DEF Hits, Live
  <2> QED
    BY <1>2, <1>3, <2>1, ArpAssumption DEF ArpSlots
<1>5. learned[ip].mac = arp_cache[i].mac /\ learned[ip].at = arp_cache[i].at
  BY <1>3, <1>4 DEF ArpInv, FirstIsNewest
<1>6. now < arp_cache[i].at + Ttl
  BY <1>3, ArpAssumption DEF ArpInv, ArpTypeOK, ArpEntry, Live, Expired
<1> QED
  BY <1>2, <1>5, <1>6

LEMMA ArpStarts == ArpInit => ArpInv
<1> SUFFICES ASSUME ArpInit PROVE ArpInv
  OBVIOUS
<1>1. ArpTypeOK
  BY DEF ArpInit, ArpTypeOK, ArpEntry, Empty
<1>2. \A i \in ArpSlots : ~arp_cache[i].valid
  BY DEF ArpInit, Empty
<1> QED
  BY <1>1, <1>2 DEF ArpInv, EntriesDated, NoGapsBefore, OlderLater, FirstIsNewest, Live

\* Pruning changes no entry in use, whatever part of the cache it covers.
LEMMA PruneKeeps ==
  ASSUME ArpInv, NEW s, UNCHANGED <<now, learned>>, arp_cache' = Prune(s)
  PROVE  ArpInv'
<1>1. ArpTypeOK'
  BY DEF ArpInv, ArpTypeOK, ArpEntry, Prune, Empty
<1>2. ASSUME NEW i \in ArpSlots
      PROVE  /\ Live(i)' <=> Live(i)
             /\ arp_cache[i]' # arp_cache[i] => ~arp_cache[i]'.valid /\ ~Live(i)
  BY DEF Prune, Empty, Live, Expired
<1>3. \A i \in ArpSlots : /\ Live(i)' <=> Live(i)
                          /\ Live(i) => arp_cache'[i] = arp_cache[i]
                          /\ arp_cache'[i].valid => arp_cache'[i] = arp_cache[i]
  BY <1>2
<1>4. EntriesDated'
  BY <1>3 DEF ArpInv, EntriesDated
<1>5. NoGapsBefore'
  BY <1>3 DEF ArpInv, NoGapsBefore
<1>6. OlderLater'
  BY <1>3 DEF ArpInv, OlderLater
<1>7. FirstIsNewest'
  BY <1>3 DEF ArpInv, FirstIsNewest
<1> QED
  BY <1>1, <1>4, <1>5, <1>6, <1>7 DEF ArpInv

\* A tick makes entries expire, of one peer the later ones first.
LEMMA TickKeeps ==
  ASSUME ArpInv, timer_tick
  PROVE  ArpInv'
<1> USE DEF timer_tick
<1>1. ArpTypeOK'
  BY DEF ArpInv, ArpTypeOK
<1>2. EntriesDated'
  BY DEF ArpInv, ArpTypeOK, ArpEntry, EntriesDated
<1>3. \A i \in ArpSlots : Live(i)' => Live(i)
  BY ArpAssumption DEF ArpInv, ArpTypeOK, ArpEntry, Live, Expired
<1>4. NoGapsBefore'
  <2>1. \A j \in ArpSlots : Live(j) => arp_cache[j].at <= now
    BY DEF ArpInv, EntriesDated, Live
  <2>2. \A j \in ArpSlots : Live(j) => arp_cache[j].at # now'
    BY <2>1 DEF ArpInv, ArpTypeOK, ArpEntry
  <2> QED
    BY <1>3, <2>2 DEF NoGapsBefore
<1>5. OlderLater'
  BY <1>3 DEF ArpInv, OlderLater
<1>6. ASSUME NEW i \in ArpSlots, NEW j \in ArpSlots, j < i, Live(j), Live(i)',
             arp_cache[j].ip = arp_cache[i].ip
      PROVE  Live(j)'
  <2>1. arp_cache[i].at < arp_cache[j].at
    BY <1>3, <1>6 DEF ArpInv, OlderLater
  <2> QED
    BY <1>6, <2>1, ArpAssumption DEF ArpInv, ArpTypeOK, ArpEntry, Live, Expired
<1>7. FirstIsNewest'
  BY <1>3, <1>6 DEF ArpInv, FirstIsNewest
<1> QED
  BY <1>1, <1>2, <1>4, <1>5, <1>7 DEF ArpInv

\* What arp_remember's scan guarantees of the slot it settles on: every slot
\* before it is in use by another peer, and if it was itself in use by another
\* peer then so are all, and none has an older entry.
LEMMA SlotChosen ==
  ASSUME ArpInv, NEW ip \in Peers, NEW s \in SlotFor(ip)
  PROVE  /\ s \in ArpSlots
         /\ \A i \in ArpSlots : i < s => Live(i) /\ arp_cache[i].ip # ip
         /\ Live(s) /\ arp_cache[s].ip # ip =>
              \A i \in ArpSlots : /\ Live(i) /\ arp_cache[i].ip # ip
                                  /\ arp_cache[s].at <= arp_cache[i].at
<1> DEFINE ends == {i \in ArpSlots : \/ ~arp_cache[i].valid \/ Expired(arp_cache[i])
                                     \/ arp_cache[i].ip = ip}
           oldest == {i \in ArpSlots : \A j \in ArpSlots : arp_cache[i].at <= arp_cache[j].at}
<1>1. SlotFor(ip) = IF ends # {} THEN First(ends) ELSE First(oldest)
  BY DEF SlotFor
<1>2. \A i \in ArpSlots : i \in ends <=> ~Live(i) \/ arp_cache[i].ip = ip
  BY DEF Live
<1>3. ends \subseteq ArpSlots /\ oldest \subseteq ArpSlots /\ ArpSlots \subseteq Nat
  BY DEF ArpSlots
<1>4. CASE ends # {}
  <2>1. s \in ends /\ \A y \in ends : s <= y
    <3> HIDE DEF ends, oldest
    <3> QED
      BY <1>1, <1>4 DEF First
  <2> HIDE DEF ends, oldest
  <2>2. \A i \in ArpSlots : i < s => i \notin ends
    BY <2>1, <1>3
  <2> QED
    BY <2>1, <2>2, <1>2, <1>3
<1>5. CASE ends = {}
  <2>1. s \in oldest
    <3> HIDE DEF ends, oldest
    <3> QED
      BY <1>1, <1>5 DEF First
  <2>2. \A i \in ArpSlots : Live(i) /\ arp_cache[i].ip # ip
    BY <1>2, <1>5
  <2> QED
    BY <2>1, <2>2
<1> QED
  BY <1>4, <1>5

\* arp_remember: one step of the invariant's argument for each of its clauses.
LEMMA RememberKeeps ==
  ASSUME ArpInv, NEW ip \in Peers, NEW mac \in Macs, arp_remember(ip, mac),
         learned' = [learned EXCEPT ![ip] = [mac |-> mac, at |-> now]], now' = now
  PROVE  ArpInv'
<1>1. \E s \in SlotFor(ip) :
        arp_cache' = [Prune(1 .. s) EXCEPT ![s] = [valid |-> TRUE, ip |-> ip, mac |-> mac, at |-> now]]
  BY Zenon DEF arp_remember
<1>a. PICK s \in ArpSlots :
        /\ s \in SlotFor(ip)
        /\ arp_cache' = [Prune(1 .. s) EXCEPT ![s] = [valid |-> TRUE, ip |-> ip, mac |-> mac, at |-> now]]
  BY <1>1, SlotChosen, Zenon
<1>2. /\ \A i \in ArpSlots : i < s => Live(i) /\ arp_cache[i].ip # ip
      /\ Live(s) /\ arp_cache[s].ip # ip =>
           \A i \in ArpSlots : Live(i) /\ arp_cache[i].ip # ip /\ arp_cache[s].at <= arp_cache[i].at
  BY <1>a, SlotChosen
<1>3. arp_cache' = [Prune(1 .. s) EXCEPT ![s] = [valid |-> TRUE, ip |-> ip, mac |-> mac, at |-> now]]
  BY <1>a
<1>4. ArpTypeOK'
  BY <1>3, Zenon DEF ArpInv, ArpTypeOK, ArpEntry, Prune, Empty
<1>5. /\ arp_cache'[s].valid /\ arp_cache'[s].ip = ip /\ arp_cache'[s].mac = mac
      /\ arp_cache'[s].at = now
  BY <1>3 DEF Prune
<1>6. Live(s)'
  BY <1>5, ArpAssumption DEF Live, Expired, ArpInv, ArpTypeOK
<1>7. ASSUME NEW i \in ArpSlots, i # s
      PROVE  /\ Live(i)' <=> Live(i)
             /\ arp_cache'[i] = arp_cache[i] \/ (~arp_cache'[i].valid /\ ~Live(i))
  BY <1>3, <1>7 DEF Prune, Empty, Live, Expired
<1>8. \A i \in ArpSlots : i # s => /\ Live(i)' <=> Live(i)
                                   /\ Live(i) => arp_cache'[i] = arp_cache[i]
                                   /\ arp_cache'[i].valid => arp_cache'[i] = arp_cache[i]
  BY <1>7
<1>9. \A i \in ArpSlots : Live(i) => arp_cache[i].at \in Nat /\ arp_cache[i].at <= now
                                     /\ arp_cache[i].ip \in Peers
  BY DEF ArpInv, ArpTypeOK, ArpEntry, EntriesDated, Live
<1>10. EntriesDated'
  BY <1>5, <1>8 DEF ArpInv, ArpTypeOK, EntriesDated
<1>11. NoGapsBefore'
  BY <1>2, <1>5, <1>6, <1>8 DEF ArpInv, NoGapsBefore
<1>12. ASSUME NEW j \in ArpSlots, s < j, Live(j), arp_cache[j].ip = ip
       PROVE  arp_cache[j].at < now
  <2>1. CASE arp_cache[j].at = now
    <3>1. Live(s)
      BY <2>1, <1>12 DEF ArpInv, NoGapsBefore
    <3>2. arp_cache[s].ip = ip
      BY <3>1, <1>2, <1>12
    <3>3. arp_cache[j].at < arp_cache[s].at /\ arp_cache[s].at <= now
      BY <3>1, <3>2, <1>12, <1>9 DEF ArpInv, OlderLater
    <3> QED
      BY <3>1, <3>3, <1>9, <1>12, <2>1
  <2>2. arp_cache[j].at \in Nat /\ arp_cache[j].at <= now /\ now \in Nat
    BY <1>9, <1>12 DEF ArpInv, ArpTypeOK
  <2> QED
    BY <2>1, <2>2
<1>13. OlderLater'
  <2> SUFFICES ASSUME NEW i \in ArpSlots, NEW j \in ArpSlots, i < j, Live(i)', Live(j)',
                      arp_cache'[i].ip = arp_cache'[j].ip
               PROVE  arp_cache'[j].at < arp_cache'[i].at
    BY DEF OlderLater
  <2>1. i # j
    BY ArpAssumption DEF ArpSlots
  <2>2. CASE i = s
    BY <2>1, <2>2, <1>5, <1>8, <1>12
  <2>3. CASE j = s
    BY <2>1, <2>3, <1>2, <1>5, <1>8
  <2>4. CASE i # s /\ j # s
    BY <2>4, <1>8 DEF ArpInv, OlderLater
  <2> QED
    BY <2>2, <2>3, <2>4
<1>14. FirstIsNewest'
  <2> SUFFICES ASSUME NEW i \in ArpSlots, Live(i)',
                      \A j \in ArpSlots : j < i /\ Live(j)' => arp_cache'[j].ip # arp_cache'[i].ip
               PROVE  /\ learned'[arp_cache'[i].ip].mac = arp_cache'[i].mac
                      /\ learned'[arp_cache'[i].ip].at = arp_cache'[i].at
    BY DEF FirstIsNewest
  <2>1. /\ learned'[ip].mac = mac /\ learned'[ip].at = now
        /\ \A q \in Peers : q # ip => learned'[q] = learned[q]
    BY DEF ArpInv, ArpTypeOK
  <2>2. CASE i = s
    BY <2>1, <2>2, <1>5
  <2>3. CASE i # s
    <3>1. Live(i) /\ arp_cache'[i] = arp_cache[i]
      BY <2>3, <1>8
    <3>2. arp_cache[i].ip # ip
      BY <2>3, <3>1, <1>2, <1>5, <1>6, ArpAssumption DEF ArpSlots
    <3>3. \A j \in ArpSlots : j < i /\ Live(j) => arp_cache[j].ip # arp_cache[i].ip
      <4> SUFFICES ASSUME NEW j \in ArpSlots, j < i, Live(j), arp_cache[j].ip = arp_cache[i].ip
                   PROVE  FALSE
        OBVIOUS
      <4>1. j = s
        BY <3>1, <1>8
      <4>2. arp_cache[i].at < arp_cache[j].at /\ arp_cache[j].at <= arp_cache[i].at
        BY <4>1, <3>1, <3>2, <1>2 DEF ArpInv, OlderLater
      <4> QED
        BY <4>2, <3>1, <1>9
    <3>4. /\ learned[arp_cache[i].ip].mac = arp_cache[i].mac
          /\ learned[arp_cache[i].ip].at = arp_cache[i].at
      BY <3>1, <3>3 DEF ArpInv, FirstIsNewest
    <3> QED
      BY <2>1, <3>1, <3>2, <3>4, <1>9
  <2> QED
    BY <2>2, <2>3
<1> QED
  BY <1>4, <1>10, <1>11, <1>13, <1>14 DEF ArpInv

\* The answer of arp_lookup is the hardware address learned last for the peer,
\* and fresh, for any number of peers and slots and any time to live.
THEOREM ArpCacheAnswersNewest == ArpSpec => []ArpAnswersNewest
<1>1. ArpInv /\ [ArpNext]_arpVars => ArpInv'
  <2> SUFFICES ASSUME ArpInv, [ArpNext]_arpVars PROVE ArpInv'
    OBVIOUS
  <2>1. CASE net_arp_cache_prune
    BY <2>1, PruneKeeps DEF net_arp_cache_prune
  <2>2. CASE net_arp_cache_at
    BY <2>2, PruneKeeps DEF net_arp_cache_at
  <2>3. CASE net_arp_receive
    BY <2>3, RememberKeeps, Zenon DEF net_arp_receive
  <2>4. CASE net_arp_resolve
    BY <2>4, PruneKeeps DEF net_arp_resolve
  <2>5. CASE net_arp_resolve_wait
    BY <2>5, PruneKeeps, Zenon DEF net_arp_resolve_wait
  <2>6. CASE timer_tick
    BY <2>6, TickKeeps
  <2>7. CASE UNCHANGED arpVars
    BY <2>7 DEF arpVars, ArpInv, ArpTypeOK, EntriesDated, NoGapsBefore, OlderLater, FirstIsNewest,
                Live, Expired
  <2> QED
    BY <2>1, <2>2, <2>3, <2>4, <2>5, <2>6, <2>7 DEF ArpNext
<1> QED
  BY ArpStarts, <1>1, ArpInvAnswers, PTL DEF ArpSpec
=============================================================================
