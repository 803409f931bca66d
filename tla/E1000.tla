------------------------------- MODULE E1000 -------------------------------
(* The Intel network adapter driver drivers/e1000.c with its two descriptor   *)
(* rings, the Ethernet poll loop of net/ethernet.c above it, and the device   *)
(* itself (external): it transmits from TDH up to TDT, and fills receive       *)
(* descriptors from RDH up to RDT.  Every section under e1000_lock is a step;  *)
(* device steps come between any two.  Frames are numbered.                   *)
EXTENDS Naturals, Sequences, FiniteSets

CONSTANTS Descriptors,   \* E1000_DESCRIPTOR_COUNT
          Frames,        \* frames sent, and frames arriving
          Budget         \* ETHERNET_POLL_BUDGET

VARIABLES tx,            \* TX ring: frame in the buffer, status DONE
          rx,            \* RX ring: frame, status DONE, errors
          tx_next, tx_last_submitted, transmit_pending, rx_next,
          regs,          \* TDH, TDT, RDH, RDT
          link,          \* link status register, and link_up of the driver
          submitted, wired, arrived, received_frames, dropped,
          waiter,        \* e1000_wait_for_transmit in progress
          poll           \* frames left to net_poll's budget

nicVars == <<tx, rx, tx_next, tx_last_submitted, transmit_pending, rx_next, regs, link,
             submitted, wired, arrived, received_frames, dropped, waiter, poll>>
txVars == <<tx, tx_next, tx_last_submitted, transmit_pending, submitted, wired, waiter>>
rxVars == <<rx, rx_next, arrived, received_frames, dropped, poll>>

ASSUME NicAssumption == Descriptors \in Nat \ {0} /\ Budget \in Nat

Ring == 0 .. Descriptors - 1
Succ(i) == (i + 1) % Descriptors

\* e1000_allocate_rings and e1000_configure_rings.
NicInit ==
  /\ tx = [i \in Ring |-> [frame |-> 0, done |-> TRUE]]
  /\ rx = [i \in Ring |-> [frame |-> 0, done |-> FALSE, bad |-> FALSE]]
  /\ regs = [TDH |-> 0, TDT |-> 0, RDH |-> 0, RDT |-> Descriptors - 1]
  /\ tx_next = 0 /\ tx_last_submitted = 0 /\ transmit_pending = FALSE /\ rx_next = 0
  /\ link = [status |-> TRUE, link_up |-> TRUE]
  /\ submitted = 0 /\ wired = <<>> /\ arrived = 0 /\ received_frames = <<>> /\ dropped = 0
  /\ waiter = "idle" /\ poll = 0

-----------------------------------------------------------------------------
\* The device.

\* Descriptors are sent in order while the head is not at the tail.
device_transmit ==
  /\ regs.TDH # regs.TDT
  /\ wired' = Append(wired, tx[regs.TDH].frame)
  /\ tx' = [tx EXCEPT ![regs.TDH].done = TRUE]
  /\ regs' = [regs EXCEPT !.TDH = Succ(@)]
  /\ UNCHANGED <<rxVars, tx_next, tx_last_submitted, transmit_pending, submitted, waiter, link>>

\* A frame arrives, whole or damaged, and is lost if no descriptor is free.
device_receive ==
  /\ arrived < Frames
  /\ arrived' = arrived + 1
  /\ \/ /\ regs.RDH # regs.RDT
        /\ \E bad \in BOOLEAN :
             rx' = [rx EXCEPT ![regs.RDH] = [frame |-> arrived + 1, done |-> TRUE, bad |-> bad]]
        /\ regs' = [regs EXCEPT !.RDH = Succ(@)]
        /\ UNCHANGED dropped
     \/ /\ regs.RDH = regs.RDT
        /\ dropped' = dropped + 1
        /\ UNCHANGED <<rx, regs>>
  /\ UNCHANGED <<txVars, rx_next, received_frames, link, poll>>

device_link ==
  /\ link' = [link EXCEPT !.status = ~@]
  /\ UNCHANGED <<txVars, rxVars, regs>>

-----------------------------------------------------------------------------
\* The driver.

\* A frame is refused while the next descriptor has not been sent.
e1000_send_frame ==
  /\ submitted < Frames
  /\ tx[tx_next].done
  /\ submitted' = submitted + 1
  /\ tx' = [tx EXCEPT ![tx_next] = [frame |-> submitted + 1, done |-> FALSE]]
  /\ tx_next' = Succ(tx_next)
  /\ tx_last_submitted' = tx_next
  /\ transmit_pending' = TRUE
  /\ regs' = [regs EXCEPT !.TDT = Succ(tx_next)]
  /\ UNCHANGED <<rxVars, wired, waiter, link>>

\* Mutant: the descriptor after the last one submitted is looked at.
SentUpToNext == ~transmit_pending \/ tx[tx_next].done

SentUpToLast == ~transmit_pending \/ tx[tx_last_submitted].done

\* One turn of the wait: done, timed out, or asleep until the next turn.
e1000_wait_for_transmit ==
  /\ \/ /\ SentUpToLast
        /\ transmit_pending' = FALSE
        /\ waiter' = "sent"
     \/ /\ ~SentUpToLast
        /\ waiter' \in {"waiting", "timed out"}
        /\ UNCHANGED transmit_pending
  /\ UNCHANGED <<rxVars, tx, tx_next, tx_last_submitted, submitted, wired, regs, link>>

\* The descriptor just read becomes the tail.
ReturnDescriptor == regs' = [regs EXCEPT !.RDT = rx_next]

\* Mutant: the status of a descriptor that was read is not cleared.
e1000_receive_frame_uncleared ==
  /\ poll > 0 /\ rx[rx_next].done
  /\ received_frames' = Append(received_frames, rx[rx_next].frame)
  /\ poll' = poll - 1
  /\ ReturnDescriptor
  /\ rx_next' = Succ(rx_next)
  /\ UNCHANGED <<txVars, rx, dropped, arrived, link>>

\* A damaged (or too long) frame is given back unread, and ends the poll loop.
e1000_receive_frame ==
  /\ poll > 0
  /\ \/ /\ rx[rx_next].done
        /\ received_frames' = IF rx[rx_next].bad THEN received_frames
                              ELSE Append(received_frames, rx[rx_next].frame)
        /\ dropped' = IF rx[rx_next].bad THEN dropped + 1 ELSE dropped
        /\ poll' = IF rx[rx_next].bad THEN 0 ELSE poll - 1
        /\ rx' = [rx EXCEPT ![rx_next].done = FALSE]
        /\ ReturnDescriptor
        /\ rx_next' = Succ(rx_next)
     \/ /\ ~rx[rx_next].done
        /\ poll' = 0
        /\ UNCHANGED <<received_frames, dropped, rx, regs, rx_next>>
  /\ UNCHANGED <<txVars, arrived, link>>

\* net_poll takes frames up to its budget, then reads the link (e1000_service).
net_poll ==
  /\ poll = 0
  /\ poll' = Budget
  /\ link' = [link EXCEPT !.link_up = link.status]
  /\ UNCHANGED <<txVars, regs, rx, rx_next, arrived, received_frames, dropped>>

\* The interrupt only counts and reads the link; nobody is woken.
e1000_irq_handler ==
  /\ link' = [link EXCEPT !.link_up = link.status]
  /\ UNCHANGED <<txVars, rxVars, regs>>

NicNext ==
  \/ device_transmit \/ device_receive \/ device_link
  \/ e1000_send_frame \/ e1000_wait_for_transmit \/ e1000_receive_frame \/ net_poll
  \/ e1000_irq_handler

NicSpec == NicInit /\ [][NicNext]_nicVars

-----------------------------------------------------------------------------
\* The frames on the wire are the frames submitted, each once and in order: no
\* buffer is overwritten before the device has sent it.
SentAsSubmitted == \A k \in 1 .. Len(wired) : wired[k] = k

\* e1000_wait_for_transmit, which reports success when nothing is pending, does
\* so only when every frame submitted is on the wire.
WaitMeansSent == ~transmit_pending => Len(wired) = submitted

Unread == {i \in Ring : rx[i].done}

\* Frames are received in the order they arrived, none twice, and none vanishes:
\* each was handed up, was counted as dropped, or is still in the ring.
ReceivedOnceInOrder ==
  /\ \A k \in 1 .. Len(received_frames) - 1 : received_frames[k] < received_frames[k + 1]
  /\ arrived = Len(received_frames) + dropped + Cardinality(Unread)

\* The receive ring never runs dry by itself: descriptors not waiting to be read
\* belong to the device, save the one that keeps full and empty apart.
RingRefilled ==
  ((regs.RDT + Descriptors - regs.RDH) % Descriptors) + Cardinality(Unread) = Descriptors - 1

\* Together: what the two rings promise.
RingsSound == SentAsSubmitted /\ WaitMeansSent /\ ReceivedOnceInOrder /\ RingRefilled
=============================================================================
