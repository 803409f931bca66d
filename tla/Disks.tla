------------------------------- MODULE Disks -------------------------------
(* The three disk drivers: AHCI (drivers/ahci.c), NVMe (drivers/nvme.c) and
   virtio (drivers/virtio_blk.c), each with one controller, between the
   block layer above and a device that executes commands in its own time.
   A command is submitted, then polled for until it completes or times out. *)
EXTENDS Integers, FiniteSets, SequencesExt

CONSTANTS DriverKinds,     \* which of "ahci", "nvme", "virtio"
          MediaBlocks,     \* blocks of the disk
          BounceBlocks,    \* bounce_capacity_blocks
          SlotCount,       \* AHCI command slots, NVMe queue entries
          IndexModulus,    \* values of virtio's 16-bit ring indices
          MediaData,       \* contents of a block
          Transfers        \* bound: reads, writes and flushes asked for

VARIABLES driver,
          probe,    \* the probe's next step and the DMA memory held
          media,    \* what the disk holds
          dma,      \* the bounce buffer, or for NVMe the caller's memory
          ring,     \* the rings and registers of the driver
          io,       \* the operation in progress
          late,     \* some command has timed out
          expected, \* what each block may hold, by the writes asked for
          outcome,  \* the last completed operation
          asked
diskVars == <<driver, probe, media, dma, ring, io, late, expected, outcome, asked>>

MediaAddresses == 0 .. MediaBlocks - 1
Slots == 0 .. SlotCount - 1
NoCommand == [op |-> "none", lba |-> 0, count |-> 0]
NoIo == [op |-> "none", stage |-> "idle", lba |-> 0, count |-> 0, data |-> <<>>, left |-> 0]

(* The rings as the probe leaves them. *)
ahci_rings == [ci |-> {}, commands |-> [s \in Slots |-> NoCommand], tfes |-> FALSE, halted |-> FALSE]
init_queue == [sq |-> [s \in Slots |-> NoCommand], sq_tail |-> 0, fetched |-> 0,
               cq |-> [s \in Slots |-> [phase |-> 0, ok |-> TRUE]], posted |-> 0,
               cq_head |-> 0, cq_phase |-> 1, device_phase |-> 1]
virtio_rings == [req_hdr |-> NoCommand, status |-> "none", avail |-> 0, used |-> 0,
                 last_used_idx |-> 0]

DiskInit ==
  /\ driver \in DriverKinds
  /\ probe = [step |-> 1, held |-> {}, failed |-> FALSE]
  /\ media = [b \in MediaAddresses |-> CHOOSE d \in MediaData : TRUE]
  /\ dma = [i \in 1 .. MediaBlocks |-> CHOOSE d \in MediaData : TRUE]
  /\ ring = CASE driver = "ahci" -> ahci_rings
              [] driver = "nvme" -> init_queue
              [] driver = "virtio" -> virtio_rings
  /\ io = NoIo /\ late = FALSE /\ asked = 0
  /\ expected = [b \in MediaAddresses |-> {media[b]}]
  /\ outcome = [op |-> "none", lba |-> 0, data |-> <<>>, ok |-> FALSE]

-----------------------------------------------------------------------------
(* Probing: what each step allocates, and what is given back if it fails.  A
   step of several allocations may fail between them and keeps those made. *)

Step(gets, undo) == [gets |-> gets, undo |-> undo, frees |-> {}]
Queue(name) == {<<name, "sq">>, <<name, "cq">>}
Identify == {<<"identify">>}

ahci_probe_port ==      \* link, command list, FIS, tables, bounce, identify, register
  << Step({}, {}), Step({"list"}, {}), Step({"fis"}, {}), Step({"first table", "tables"}, {}),
     Step({"bounce"}, {}), Step({}, {}), Step({}, {}) >>
init_nvme_controller == \* registers, admin queue, ready, identify page and command,
                        \* I/O queue, its two commands, namespace
  << Step({}, {}), Step(Queue("admin"), {}), Step({}, {}), Step(Identify, {}),
     Step({}, Identify), Step(Queue("io"), Identify), Step({}, Identify), Step({}, Identify),
     [Step({}, Identify) EXCEPT !.frees = Identify] >>

\* Mutant: a failed allocation leaves the earlier pages allocated.
virtio_probe_leaking ==
  << Step({}, {}), Step({"queue"}, {}), Step({"request"}, {}), Step({"bounce"}, {}), Step({}, {}) >>

virtio_blk_probe_pci == \* bus, virtqueue, request page, bounce buffer, register
  << Step({}, {}), Step({"queue"}, {}), Step({"request"}, {"queue"}),
     Step({"bounce"}, {"queue", "request"}), Step({}, {}) >>

ProbeSteps == CASE driver = "ahci" -> ahci_probe_port
                [] driver = "nvme" -> init_nvme_controller
                [] driver = "virtio" -> virtio_blk_probe_pci

Ready == ~probe.failed /\ probe.step > Len(ProbeSteps)

initialize(works) ==
  LET step == ProbeSteps[probe.step]
  IN /\ ~probe.failed /\ ~Ready
     /\ \/ /\ works
           /\ probe' = [step |-> probe.step + 1, failed |-> FALSE,
                        held |-> (probe.held \cup step.gets) \ step.frees]
        \/ /\ ~works
           /\ \E made \in SUBSET step.gets :
                /\ made # step.gets \/ step.gets = {}
                /\ probe' = [probe EXCEPT !.failed = TRUE, !.held = (@ \ step.undo) \cup made]
     /\ UNCHANGED <<driver, media, dma, ring, io, late, expected, outcome, asked>>

-----------------------------------------------------------------------------
(* Requests of the block layer *)

(* read_blocks, write_blocks and flush; the block layer has checked the
   range.  A read's buffer and a write's data are data. *)
StartIo(op, lba, data) ==
  /\ Ready /\ io.stage = "idle" /\ asked < Transfers
  /\ lba + Len(data) <= MediaBlocks
  /\ io' = [op |-> op, stage |-> "submit", lba |-> lba, count |-> 0, data |-> data,
            left |-> Len(data)]
  /\ expected' = [b \in MediaAddresses |->
       IF op = "write" /\ lba <= b /\ b < lba + Len(data)
       THEN expected[b] \cup {data[(b - lba) + 1]} ELSE expected[b]]
  /\ asked' = asked + 1
  /\ UNCHANGED <<driver, probe, media, dma, ring, late, outcome>>

read_blocks(lba, count) ==
  count > 0 /\ StartIo("read", lba, [i \in 1 .. count |-> CHOOSE d \in MediaData : TRUE])
write_blocks(lba, data) == Len(data) > 0 /\ StartIo("write", lba, data)
flush == StartIo("flush", 0, <<>>)

(* The next command of the request: as much as the bounce buffer holds;
   NVMe passes the caller's memory and takes it whole. *)
Chunk == IF driver # "nvme" /\ io.left > BounceBlocks THEN BounceBlocks ELSE io.left
Done == Len(io.data) - io.left
Command == [op |-> io.op, lba |-> io.lba + Done, count |-> Chunk]
\* Mutant: every chunk is loaded from the start of the caller's buffer.
LoadedFromStart ==
  [i \in DOMAIN dma |-> IF io.op = "write" /\ i <= Chunk THEN io.data[i] ELSE dma[i]]
Loaded == [i \in DOMAIN dma |-> IF io.op = "write" /\ i <= Chunk THEN io.data[Done + i] ELSE dma[i]]

Fail ==
  /\ io' = NoIo
  /\ outcome' = [op |-> io.op, lba |-> io.lba, data |-> <<>>, ok |-> FALSE]

ahci_find_cmdslot == IF Slots \subseteq ring.ci THEN SlotCount
                     ELSE CHOOSE s \in Slots \ ring.ci : \A t \in Slots \ ring.ci : s <= t

(* The status register is cleared and a free slot filled; the command is
   given up when there is none, or when the port stays busy with others. *)
ahci_port_send_cmd ==
  LET slot == ahci_find_cmdslot
      cleared == [ring EXCEPT !.tfes = FALSE]
  IN /\ driver = "ahci" /\ io.stage = "submit"
     /\ dma' = Loaded
     /\ \/ /\ slot # SlotCount
           /\ ring' = [cleared EXCEPT !.ci = @ \cup {slot}, !.commands[slot] = Command]
           /\ io' = [io EXCEPT !.stage = "poll", !.count = slot]
           /\ UNCHANGED outcome
        \/ /\ slot = SlotCount \/ ring.ci # {}
           /\ ring' = cleared /\ Fail
     /\ UNCHANGED <<driver, probe, media, late, expected, asked>>

nvme_submit_cmd ==
  /\ driver = "nvme" /\ io.stage = "submit"
  /\ dma' = Loaded
  /\ ring' = [ring EXCEPT !.sq[ring.sq_tail] = Command,
                          !.sq_tail = (@ + 1) % SlotCount]
  /\ io' = [io EXCEPT !.stage = "poll"]
  /\ UNCHANGED <<driver, probe, media, late, expected, outcome, asked>>

virtio_blk_submit_io ==
  /\ driver = "virtio" /\ io.stage = "submit"
  /\ dma' = Loaded
  /\ ring' = [ring EXCEPT !.req_hdr = Command, !.status = "none",
                          !.avail = (@ + 1) % IndexModulus]
  /\ io' = [io EXCEPT !.stage = "poll"]
  /\ UNCHANGED <<driver, probe, media, late, expected, outcome, asked>>

-----------------------------------------------------------------------------
(* The device (external) *)

Perform(command) ==
  /\ media' = [b \in MediaAddresses |->
       IF command.op = "write" /\ command.lba <= b /\ b < command.lba + command.count
       THEN dma[(b - command.lba) + 1] ELSE media[b]]
  /\ dma' = [i \in DOMAIN dma |->
       IF command.op = "read" /\ i <= command.count THEN media[(command.lba + i) - 1] ELSE dma[i]]

(* A command that fails may have been carried out all the same. *)
Execute(command, ok) == Perform(command) \/ (~ok /\ UNCHANGED <<media, dma>>)

(* AHCI: any slot set in PxCI; an error is reported and stops the port. *)
ahci_device(ok) ==
  /\ driver = "ahci" /\ ~ring.halted
  /\ \E s \in ring.ci :
       /\ Execute(ring.commands[s], ok)
       /\ ring' = IF ok THEN [ring EXCEPT !.ci = @ \ {s}]
                  ELSE [ring EXCEPT !.tfes = TRUE, !.halted = TRUE]

(* NVMe: the next entry before the doorbell; the completion carries the
   phase of this pass over the completion queue. *)
nvme_device(ok) ==
  /\ driver = "nvme" /\ ring.fetched # ring.sq_tail
  /\ Execute(ring.sq[ring.fetched], ok)
  /\ ring' = [ring EXCEPT
       !.fetched = (@ + 1) % SlotCount, !.posted = (@ + 1) % SlotCount,
       !.cq[ring.posted] = [phase |-> ring.device_phase, ok |-> ok],
       !.device_phase = IF ring.posted + 1 = SlotCount THEN 1 - @ ELSE @]

(* virtio: the one request header, as it stands when the device reads it. *)
virtio_device(ok) ==
  /\ driver = "virtio" /\ ring.used # ring.avail
  /\ Execute(ring.req_hdr, ok)
  /\ ring' = [ring EXCEPT !.used = (@ + 1) % IndexModulus,
                          !.status = IF ok THEN "ok" ELSE "error"]

Device ==
  /\ \E ok \in BOOLEAN : ahci_device(ok) \/ nvme_device(ok) \/ virtio_device(ok)
  /\ UNCHANGED <<driver, probe, io, late, expected, outcome, asked>>

-----------------------------------------------------------------------------
(* Polling *)

(* The command is done: a read is copied out, and the request goes on with
   its next chunk or ends. *)
Complete ==
  LET data == IF io.op = "read"
              THEN [i \in DOMAIN io.data |->
                      IF Done < i /\ i <= Done + Chunk THEN dma[i - Done] ELSE io.data[i]]
              ELSE io.data
  IN IF io.left > Chunk
     THEN /\ io' = [io EXCEPT !.stage = "submit", !.count = 0, !.data = data, !.left = @ - Chunk]
          /\ UNCHANGED <<outcome, expected>>
     ELSE /\ io' = NoIo
          /\ outcome' = [op |-> io.op, lba |-> io.lba, data |-> data, ok |-> TRUE]
          /\ expected' = [b \in MediaAddresses |->
               IF io.op = "write" /\ io.lba <= b /\ b < io.lba + Len(data)
               THEN {data[(b - io.lba) + 1]} ELSE expected[b]]

Finish(ok) ==
  /\ IF ok THEN Complete ELSE Fail /\ UNCHANGED expected
  /\ UNCHANGED <<driver, probe, media, dma, late, asked>>

(* Completion is looked at before the error status in the polling loop. *)
ahci_poll ==
  /\ driver = "ahci" /\ io.stage = "poll" /\ (io.count \notin ring.ci \/ ring.tfes)
  /\ Finish(~ring.tfes)
  /\ UNCHANGED ring

nvme_poll ==
  LET cqe == ring.cq[ring.cq_head]
      head == (ring.cq_head + 1) % SlotCount
  IN /\ driver = "nvme" /\ io.stage = "poll" /\ cqe.phase = ring.cq_phase
     /\ ring' = [ring EXCEPT !.cq_head = head, !.cq_phase = IF head = 0 THEN 1 - @ ELSE @]
     /\ Finish(cqe.ok)

virtio_poll ==
  /\ driver = "virtio" /\ io.stage = "poll" /\ ring.used # ring.last_used_idx
  /\ ring' = [ring EXCEPT !.last_used_idx = ring.used]
  /\ Finish(ring.status = "ok")

(* The timer runs out: the request fails and the command stays with the
   device. *)
Timeout ==
  /\ io.stage = "poll" /\ Fail /\ late' = TRUE
  /\ UNCHANGED <<driver, probe, media, dma, ring, expected, asked>>

DiskNext ==
  \/ \E works \in BOOLEAN : initialize(works)
  \/ \E lba \in MediaAddresses, n \in 1 .. MediaBlocks :
       \/ read_blocks(lba, n)
       \/ \E data \in [1 .. n -> MediaData] : write_blocks(lba, data)
  \/ flush
  \/ ahci_port_send_cmd \/ nvme_submit_cmd \/ virtio_blk_submit_io
  \/ Device
  \/ ahci_poll \/ nvme_poll \/ virtio_poll
  \/ Timeout

-----------------------------------------------------------------------------
(* Properties *)

(* As long as no command has timed out, a read that succeeds gives the last
   values written to its blocks in their order, and no block holds a value
   that was not written to it, however the rings wrapped, the request was
   split into chunks and the device failed commands before. *)
TransfersExact ==
  ~late =>
    /\ \A b \in MediaAddresses : media[b] \in expected[b]
    /\ outcome.op = "read" /\ outcome.ok /\ io.stage = "idle" =>
         \A i \in DOMAIN outcome.data : outcome.data[i] = media[(outcome.lba + i) - 1]

(* A probe that failed for want of memory gives back what it had allocated:
   the virtio probe all of it, the NVMe probe its identify page (what an
   AHCI or NVMe probe allocates for its rings stays allocated). *)
ProbeReleases ==
  /\ driver = "virtio" /\ probe.failed /\ probe.step < Len(virtio_blk_probe_pci)
       => probe.held = {}
  /\ driver = "nvme" /\ (probe.failed \/ Ready) => probe.held \cap Identify = {}
=============================================================================
