------------------------------ MODULE MCStorage ------------------------------
(* The block cache, the FAT32 file system, devices with their partitions and
   drive letters, the RAM file system and its boot archive, the disk drivers
   and the package installer, side by side: a behaviour is that of one part,
   the others staying as they start. *)
EXTENDS BlockCache, TLC

CONSTANTS sda1, sda2,
          LastCluster, DirEntries, ClusterSize, MaxCached, Short, FilePaths, FatValues,
          Sizes, FatCalls,
          DeviceMax, VfsMax, FatMax, VolumeMax, DiskSize, Tables, LastLetter, DeviceIds,
          RamPaths, BuiltIn, RamData, RamSlots, Archives, HeaderSize, MaxFiles,
          DriverKinds, MediaBlocks, BounceBlocks, SlotCount, IndexModulus, MediaData,
          Transfers,
          PackageFiles, DriveSlots, DbMax, DbFilesMax

VARIABLES part,
          vol, cached, written, unflushed, life, fatCalls,
          devices, deviceList, nextDeviceId, lastWrite, fatVolumes, activeVolume,
          volumeEntries, letters,
          ramFiles, stored, source, archive, offset, files, parsing,
          driver, probe, media, dma, ring, io, late, expected, outcome, asked,
          drive, packages, owned, torn

F == INSTANCE Fat32 WITH Values <- FatValues
V == INSTANCE Volumes
R == INSTANCE Ramfs
D == INSTANCE Disks
P == INSTANCE Packages

fatVars == <<vol, cached, written, unflushed, life, fatCalls>>
volVars == <<devices, deviceList, nextDeviceId, lastWrite, fatVolumes, activeVolume,
             volumeEntries, letters>>
ramVars == <<ramFiles, stored>>
initrdVars == <<source, archive, offset, files, parsing>>
diskVars == <<driver, probe, media, dma, ring, io, late, expected, outcome, asked>>
pkgVars == <<drive, packages, owned, torn>>
fileVars == <<fatVars, ramVars, initrdVars, pkgVars>>

-----------------------------------------------------------------------------
(* Two partitions of a disk of three blocks, behind a cache of two slots. *)
MCStart == sda1 :> 0 @@ sda2 :> 2
MCTotal == sda1 :> 2 @@ sda2 :> 1

(* The cache never looks at what a block contains. *)
DataSymmetry == Permutations(Values)

(* Three short names, one of them a directory's, and one that has to be cut. *)
MCShort == [n \in {"A", "B", "D", "Longname.text"} |->
              IF n = "Longname.text" THEN "LONGNAME.TEX" ELSE n]
MCFilePaths == {<<"A">>, <<"B">>, <<"D">>, <<"Longname.text">>, <<"D", "A">>}

(* No partition table, or one with a partition at the start, an unused entry
   and two that overlap, the last reaching past the end of the disk. *)
Partition(s, c, u) == [start |-> s, count |-> c, used |-> u]
MCTables == {<<>>, <<Partition(0, 2, TRUE), Partition(1, 1, FALSE),
                     Partition(2, 1, TRUE), Partition(2, 2, TRUE)>>}

(* Archives with every alignment of names and data, duplicate paths, entries
   that are not files, and more files than the table holds. *)
Member(p, n, s, r) == [path |-> p, name_size |-> n, file_size |-> s, regular |-> r]
MCArchives ==
  {<<>>, <<Member("a", 2, 3, TRUE), Member("b", 2, 3, TRUE), Member("c", 2, 3, TRUE)>>}
  \cup {<<Member("a", n, s, TRUE)>> : n \in 1 .. 4, s \in 0 .. 4}
  \cup {<<Member("a", n, s, TRUE), Member(p, 3, m, r)>> :
          n \in 2 .. 3, s \in 0 .. 2, p \in {"a", "b"}, m \in {0, 5}, r \in BOOLEAN}

(* Two versions of one application, a file whose digest is wrong, a path that
   leaves the application's directory, and more files than the drive holds. *)
Item(path, data, digest) == [path |-> path, data |-> data, digest |-> digest]
Package(app, v, fs, s) ==
  [app_id |-> app, version_code |-> v, files |-> fs, header |-> TRUE, signed |-> s]
MCPackageFiles == {
  Package("app", 1, <<Item(<<"bin", "a">>, 1, 1), Item(<<"b">>, 2, 2)>>, TRUE),
  Package("app", 2, <<Item(<<"c">>, 4, 4), Item(<<"bin", "a">>, 3, 3)>>, FALSE),
  Package("other", 1, <<Item(<<"b">>, 5, 5)>>, TRUE),
  Package("other", 2, <<Item(<<"b">>, 6, 7)>>, TRUE),
  Package("third", 2, <<Item(<<"..", "app", "b">>, 6, 6)>>, TRUE),
  Package("third", 3, <<Item(<<"d">>, 8, 8)>>, TRUE) }

-----------------------------------------------------------------------------
(* The value of the variables of a part that is not running. *)
Off == "off"
NoFat == /\ vol = Off /\ cached = Off /\ written = Off /\ unflushed = Off
         /\ life = Off /\ fatCalls = Off
NoVolumes == /\ devices = Off /\ deviceList = Off /\ nextDeviceId = Off
             /\ lastWrite = Off /\ fatVolumes = Off /\ activeVolume = Off
             /\ volumeEntries = Off /\ letters = Off
NoRamfs == /\ ramFiles = Off /\ stored = Off
NoArchive == /\ source = Off /\ archive = Off /\ offset = Off /\ files = Off
             /\ parsing = Off
NoDisk == /\ driver = Off /\ probe = Off /\ media = Off /\ dma = Off
          /\ ring = Off /\ io = Off /\ late = Off /\ expected = Off
          /\ outcome = Off /\ asked = Off
NoPackages == /\ drive = Off /\ packages = Off /\ owned = Off /\ torn = Off

StorageInit ==
  /\ part \in {"cache", "fat32", "volumes", "ramfs", "initrd", "disks", "packages"}
  /\ Init
  /\ part # "cache" => disk = [l \in Locations |-> CHOOSE v \in Values : TRUE]
  /\ IF part = "fat32" THEN F!FatInit ELSE NoFat
  /\ IF part = "volumes" THEN V!VolInit ELSE NoVolumes
  /\ IF part = "ramfs" THEN R!RamfsInit ELSE NoRamfs
  /\ IF part = "initrd" THEN R!InitrdInit ELSE NoArchive
  /\ IF part = "disks" THEN D!DiskInit ELSE NoDisk
  /\ IF part = "packages" THEN P!PkgInit ELSE NoPackages

StorageNext ==
  \/ part = "cache" /\ Next /\ UNCHANGED <<part, fileVars, volVars, diskVars>>
  \/ /\ part = "fat32" /\ F!FatNext
     /\ UNCHANGED <<part, vars, volVars, ramVars, initrdVars, diskVars, pkgVars>>
  \/ part = "volumes" /\ V!VolNext /\ UNCHANGED <<part, vars, fileVars, diskVars>>
  \/ /\ part = "ramfs" /\ R!RamfsNext
     /\ UNCHANGED <<part, vars, fatVars, volVars, initrdVars, diskVars, pkgVars>>
  \/ /\ part = "initrd" /\ R!initramfs_initialize
     /\ UNCHANGED <<part, vars, fatVars, volVars, ramVars, diskVars, pkgVars>>
  \/ part = "disks" /\ D!DiskNext /\ UNCHANGED <<part, vars, fileVars, volVars>>
  \/ /\ part = "packages" /\ P!PkgNext
     /\ UNCHANGED <<part, vars, fatVars, volVars, ramVars, initrdVars, diskVars>>

StorageSpec ==
  StorageInit /\ [][StorageNext]_<<part, vars, fileVars, volVars, diskVars>>

-----------------------------------------------------------------------------
(* Properties *)

(* Every cluster of a FAT32 volume belongs to one chain or is free, and every
   file reads back what was written and is listed with its size. *)
VolumeConsistent == part = "fat32" => F!ChainsOwned /\ F!ReadBack /\ F!ListingCurrent

(* Power loss in the middle of a call leaves the other files readable. *)
BystandersSurvive == part = "fat32" => F!BystandersSurvive

(* Registered devices form disks and their partitions, a write stays inside
   its device, and drive letters agree with the mounted volumes.  A disk driver
   reports success only for the transfer it was asked for, and a failed probe
   of the virtio driver keeps no memory. *)
DevicesSound ==
  /\ part = "volumes" => V!PartitionTree /\ V!WritesStayInside /\ V!NamespacesAgree
  /\ part = "disks" => D!TransfersExact /\ D!ProbeReleases

(* A file of D: reads back what was last written; the files found in the boot
   archive are those put into it, with their contents. *)
RamFilesExact == /\ part = "ramfs" => R!RamfsReadBack
                 /\ part = "initrd" => R!ArchiveExact

(* An installed application is whole, the database names its files, and a
   refused or failed installation leaves nothing behind. *)
PackagesSound == part = "packages" => P!InstalledIntact /\ P!RecordsOwned /\ P!DriveTidy
=============================================================================
