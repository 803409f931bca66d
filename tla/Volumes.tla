------------------------------- MODULE Volumes -------------------------------
(***************************************************************************)
(* From block devices to drive letters: the table of block devices and     *)
(* partitions (drivers/block.c, drivers/ramdisk.c), the partition scan     *)
(* (fs/partition.c), the volume manager (fs/volume.c), the table of FAT32  *)
(* volumes (fs/fat32.c) and the VFS letters (fs/vfs.c).  Each call runs    *)
(* under its own spinlock and all of them are made by the boot thread or   *)
(* the shell, one after the other, so a call is a step.                    *)
(*                                                                         *)
(* A disk is what was formatted: a table of partition entries, or a FAT32  *)
(* file system when the table is empty.                                    *)
(***************************************************************************)
EXTENDS Integers, Sequences, FiniteSets, SequencesExt, FiniteSetsExt

CONSTANTS DeviceMax,   \* BLOCK_MAX_DEVICES
          VfsMax,      \* VFS_MAX_VOLUMES
          FatMax,      \* FAT32_MAX_VOLUMES
          VolumeMax,   \* VOLUME_MAX_ENTRIES
          DiskSize,    \* blocks of a disk
          Tables,      \* the partition tables a disk may carry
          LastLetter,  \* letters are numbers: C = 3, D = 4, E = 5 ...
          DeviceIds    \* bound on the ids handed out

VARIABLES devices,        \* block_devices
          deviceList,     \* block_device_list
          nextDeviceId,   \* next_device_id
          lastWrite,      \* the disk blocks the last step wrote
          fatVolumes,     \* g_fat_volumes, as many as g_fat_volume_count
          activeVolume,   \* g_active_vfs_vol
          volumeEntries,  \* g_volumes
          letters         \* volumes of the VFS

volVars == <<devices, deviceList, nextDeviceId, lastWrite, fatVolumes, activeVolume,
             volumeEntries, letters>>

DeviceSlots == 1 .. DeviceMax
Blocks == 0 .. DiskSize - 1
Offline == [id |-> 0, kind |-> "unknown", total |-> 0, parent |-> 0, start |-> 0,
            table |-> <<>>, scanned |-> FALSE]
Online(d) == devices[d].id # 0
NoWrite == [by |-> 0, disk |-> 0, blocks |-> {}]

VolInit ==
  /\ devices = [d \in DeviceSlots |-> Offline]
  /\ deviceList = <<>> /\ nextDeviceId = 1
  /\ lastWrite = NoWrite
  /\ fatVolumes = <<>> /\ activeVolume = 0 /\ volumeEntries = <<>>
  /\ letters = << [letter |-> 3, fat |-> 0], [letter |-> 4, fat |-> 0] >>

-----------------------------------------------------------------------------
(* Block devices *)

FirstOffline(devs) ==
  LET free == {d \in DeviceSlots : devs[d].id = 0}
  IN IF free = {} THEN 0 ELSE Min(free)

(* The registry with one more device, unchanged when it is full. *)
Register(reg, dev) ==
  LET d == FirstOffline(reg.devs)
  IN IF d = 0 THEN reg
     ELSE [devs |-> [reg.devs EXCEPT ![d] = [dev EXCEPT !.id = reg.next]],
           list |-> Append(reg.list, d), next |-> reg.next + 1]

Registry == [devs |-> devices, list |-> deviceList, next |-> nextDeviceId]

SetRegistry(reg) ==
  devices' = reg.devs /\ deviceList' = reg.list /\ nextDeviceId' = reg.next

ramdisk_create(table) ==
     /\ nextDeviceId <= DeviceIds
     /\ FirstOffline(devices) # 0
     /\ SetRegistry(Register(Registry, [Offline EXCEPT !.kind = "disk", !.total = DiskSize,
                                                       !.table = table]))
     /\ lastWrite' = NoWrite
     /\ UNCHANGED <<fatVolumes, activeVolume, volumeEntries, letters>>

(* A partition that does not fit is refused. *)
block_partition_register(reg, parent, start, count) ==
  IF count = 0 \/ start + count > reg.devs[parent].total THEN reg
  ELSE Register(reg, [Offline EXCEPT !.kind = "partition", !.total = count,
                                     !.parent = parent, !.start = start])

(* The entries partition_scan_mbr and partition_scan_gpt do not skip. *)
ValidEntry(entry, total) ==
  entry.used /\ entry.count > 0 /\ entry.start + entry.count <= total

(* Drivers scan a disk once, when they have registered it. *)
partition_scan(d) ==
  LET valid == SelectSeq(devices[d].table, LAMBDA e : ValidEntry(e, devices[d].total))
      marked == [Registry EXCEPT !.devs[d].scanned = TRUE]
  IN /\ Online(d) /\ devices[d].kind = "disk" /\ ~devices[d].scanned
     /\ nextDeviceId + Len(valid) <= DeviceIds + 1
     /\ SetRegistry(FoldLeft(LAMBDA reg, e : block_partition_register(reg, d, e.start, e.count),
                             marked, valid))
     /\ lastWrite' = NoWrite
     /\ UNCHANGED <<fatVolumes, activeVolume, volumeEntries, letters>>

\* Mutant: the partitions of the device stay registered.
UnregisterAlone(d) == {d}

(* The device and its partitions. *)
Unregistered(d) == {d} \cup {p \in DeviceSlots : Online(p) /\ devices[p].parent = d}

Mounted(d) == \E i \in DOMAIN volumeEntries :
                volumeEntries[i].mounted /\ volumeEntries[i].dev = d

(* Only the self tests destroy a disk, one they made and have unmounted. *)
ramdisk_destroy(d) ==
  LET gone == Unregistered(d)
  IN /\ Online(d) /\ devices[d].kind = "disk"
     /\ \A g \in DeviceSlots : Mounted(g) => g # d /\ devices[g].parent # d
     /\ devices' = [g \in DeviceSlots |-> IF g \in gone THEN Offline ELSE devices[g]]
     /\ deviceList' = SelectSeq(deviceList, LAMBDA g : g \notin gone)
     /\ lastWrite' = NoWrite
     /\ UNCHANGED <<nextDeviceId, fatVolumes, activeVolume, volumeEntries, letters>>

\* Mutant: the bound is that of the disk, not of the partition.
InBoundsOfDisk(d, lba, count) ==
  lba + count <= IF devices[d].parent = 0 THEN devices[d].total
                 ELSE devices[devices[d].parent].total - devices[d].start

(* block_read and block_write refuse what does not lie inside the device. *)
InBounds(d, lba, count) == lba + count <= devices[d].total

(* The disk blocks an accepted request touches: a partition forwards it to
   its parent, which checks again. *)
block_write(d, lba, count) ==
  LET disk == IF devices[d].parent = 0 THEN d ELSE devices[d].parent
      base == devices[d].start + lba
  IN /\ Online(d) /\ InBounds(d, lba, count) /\ InBounds(disk, base, count)
     /\ lastWrite' = [by |-> d, disk |-> disk, blocks |-> base .. base + count - 1]
     /\ UNCHANGED <<devices, deviceList, nextDeviceId, fatVolumes, activeVolume,
                    volumeEntries, letters>>

-----------------------------------------------------------------------------
(* Volumes and letters *)

(* The boot sector is FAT32's. *)
fat32_probe(d) ==
  IF devices[d].kind = "disk" THEN devices[d].table = <<>> ELSE TRUE

Namespace == [fats |-> fatVolumes, active |-> activeVolume,
              entries |-> volumeEntries, letters |-> letters]

SetNamespace(ns) ==
  /\ fatVolumes' = ns.fats /\ activeVolume' = ns.active
  /\ volumeEntries' = ns.entries /\ letters' = ns.letters

LetterMounted(ns, letter) == \E i \in DOMAIN ns.letters : ns.letters[i].letter = letter

get_next_available_letter(ns) ==
  LET free == {l \in 5 .. LastLetter : ~LetterMounted(ns, l)}
  IN IF free = {} THEN 0 ELSE Min(free)

TargetLetter(ns, requested) ==
  IF requested = 0 \/ LetterMounted(ns, requested)
  THEN get_next_available_letter(ns) ELSE requested

(* The namespace after an attempt to mount device d.  The FAT volume becomes
   the active one before the VFS accepts its letter. *)
Mount(ns, d, requested) ==
  LET letter == TargetLetter(ns, requested)
      handle == Len(ns.fats) + 1
      accepted == Len(ns.letters) < VfsMax
      probed == [ns EXCEPT !.fats = Append(@, [dev |-> d, mounted |-> accepted]),
                           !.active = handle]
  IN IF \/ Len(ns.entries) >= VolumeMax \/ letter = 0
        \/ ~fat32_probe(d) \/ Len(ns.fats) >= FatMax
     THEN ns
     ELSE IF ~accepted THEN probed
     ELSE [probed EXCEPT
             !.letters = Append(@, [letter |-> letter, fat |-> handle]),
             !.entries = Append(@, [letter |-> letter, dev |-> d, fat |-> handle,
                                    mounted |-> TRUE])]

(* mount <dev> <letter>: an unused letter, or the next free one. *)
volume_manager_mount_device(d, requested) ==
  /\ Online(d) /\ SetNamespace(Mount(Namespace, d, requested))
  /\ lastWrite' = NoWrite /\ UNCHANGED <<devices, deviceList, nextDeviceId>>

(* At boot every device found so far is tried once, in list order. *)
volume_manager_scan_and_mount ==
  /\ fatVolumes = <<>>
  /\ SetNamespace(FoldLeft(LAMBDA ns, d : Mount(ns, d, 0), Namespace, deviceList))
  /\ lastWrite' = NoWrite /\ UNCHANGED <<devices, deviceList, nextDeviceId>>

\* Mutant: the letter stays in the VFS table.
vfs_unmount_nothing(letter) == letters

(* The letters after one was removed; C: stays. *)
vfs_unmount_volume(letter) ==
  SelectSeq(letters, LAMBDA v : v.letter # letter \/ letter = 3)

volume_manager_unmount_letter(letter) ==
  LET hits == {i \in DOMAIN volumeEntries :
                 volumeEntries[i].mounted /\ volumeEntries[i].letter = letter}
      i == Min(hits)
  IN /\ hits # {}
     /\ fatVolumes' = [fatVolumes EXCEPT ![volumeEntries[i].fat].mounted = FALSE]
     /\ letters' = vfs_unmount_volume(letter)
     /\ volumeEntries' = [volumeEntries EXCEPT ![i].mounted = FALSE]
     /\ UNCHANGED <<devices, deviceList, nextDeviceId, activeVolume>>
     /\ lastWrite' = NoWrite

VolNext ==
  \/ \E table \in Tables : ramdisk_create(table)
  \/ \E d \in DeviceSlots : partition_scan(d) \/ ramdisk_destroy(d)
  \/ \E d \in DeviceSlots, lba \in Blocks, count \in 1 .. DiskSize : block_write(d, lba, count)
  \/ \E d \in DeviceSlots, requested \in {0, 4, LastLetter} :
       volume_manager_mount_device(d, requested)
  \/ volume_manager_scan_and_mount
  \/ \E letter \in 3 .. LastLetter : volume_manager_unmount_letter(letter)

-----------------------------------------------------------------------------
(* Properties *)

(* The registry stays a forest: the list holds exactly the online slots,
   ids differ, and every partition lies inside a disk that is still online,
   whatever disks come and go and whatever slots are used again. *)
PartitionTree ==
  /\ ToSet(deviceList) = {d \in DeviceSlots : Online(d)} /\ IsInjective(deviceList)
  /\ \A d, e \in ToSet(deviceList) : devices[d].id = devices[e].id => d = e
  /\ \A d \in ToSet(deviceList) : devices[d].kind = "partition" =>
       LET p == devices[d].parent
       IN /\ Online(p) /\ devices[p].kind = "disk"
          /\ devices[d].start + devices[d].total <= devices[p].total

(* A write through a partition changes no block outside it, and a write to
   a device no other disk: the request is translated into the device's own
   extent of the disk it lies on. *)
WritesStayInside ==
  lastWrite # NoWrite =>
    LET w == lastWrite.by
        disk == IF devices[w].kind = "partition" THEN devices[w].parent ELSE w
    IN /\ lastWrite.disk = disk
       /\ lastWrite.blocks \subseteq devices[w].start .. devices[w].start + devices[w].total - 1

(* The three tables agree: a letter of the VFS beyond C: and D: is exactly
   one mounted entry of the volume manager, on a FAT volume that is mounted
   and belongs to no other letter. *)
NamespacesAgree ==
  LET up == {i \in DOMAIN volumeEntries : volumeEntries[i].mounted}
      shown == {v \in ToSet(letters) : v.fat # 0}
  IN /\ shown = {[letter |-> volumeEntries[i].letter, fat |-> volumeEntries[i].fat] : i \in up}
     /\ Cardinality(up) = Len(letters) - 2
     /\ \A i, j \in DOMAIN letters : letters[i].letter = letters[j].letter => i = j
     /\ {h \in DOMAIN fatVolumes : fatVolumes[h].mounted} = {volumeEntries[i].fat : i \in up}
=============================================================================
