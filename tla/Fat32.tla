-------------------------------- MODULE Fat32 --------------------------------
(***************************************************************************)
(* One mounted FAT32 volume (fs/fat32.c): the FAT in FatCount copies, the  *)
(* cluster heap, directories as clusters of entries, and the list of       *)
(* files the VFS shows.  Every public call holds vol->lock from beginning  *)
(* to end, so a call is one step; inside it the model still performs every *)
(* sector write in the code's order, because a power loss may catch the    *)
(* call between any two of them.                                           *)
(*                                                                         *)
(* The volume is reached through the block cache, which may write a dirty  *)
(* sector back at any time and in any order: vol.maybe[s] is the set of    *)
(* contents the medium may hold for sector s, everything written to s      *)
(* since the last flush.  A cluster is one sector, FAT copy f is sector f  *)
(* (0 or 1; clusters count from 2).  A long-name record is one entry; the  *)
(* driver never writes one, but reads those another system left.           *)
(***************************************************************************)
EXTENDS Integers, Sequences, FiniteSets, SequencesExt, FiniteSetsExt

CONSTANTS LastCluster,   \* clusters are 2 .. LastCluster
          DirEntries,    \* entries in a directory cluster
          ClusterSize,   \* bytes in a cluster
          MaxCached,     \* FAT32_MAX_CACHED_FILES
          Short,         \* [name -> its 8.3 name], fat32_generate_83_name
          FilePaths,     \* the paths of the calls, sequences of names
          Values,        \* the bytes files are written with
          Sizes,         \* the file sizes written, in bytes
          FatCalls       \* bound on the calls of a behaviour

VARIABLES vol,       \* the sectors: as the cache has them, as the disk may
          cached,    \* vol->cached_files
          written,   \* the contents last stored under each 8.3 path
          unflushed, \* paths of the calls since the last flush
          life,      \* "up", "damaged" or "off"
          fatCalls   \* calls made so far

fatVars == <<vol, cached, written, unflushed, life, fatCalls>>

Fats == {0, 1}
Clusters == 2 .. LastCluster
Root == 2
Free == 0
End == LastCluster + 1
Absent == <<-1>>

Entry(kind, name, first, size) ==
  [kind |-> kind, name |-> name, first |-> first, size |-> size]

EmptyDir == [i \in 1 .. DirEntries |-> Entry("end", "", 0, 0)]
NoData == [i \in 1 .. ClusterSize |-> 0]
ZeroCluster == [dir |-> EmptyDir, data |-> NoData]

(* The directories some path goes through. *)
DirPaths == {Front(p) : p \in {q \in FilePaths : Len(q) > 1}}
Fits83(path) == \A i \in DOMAIN path : Short[path[i]] = path[i]

-----------------------------------------------------------------------------
(* The sectors *)

WriteSector(v, s, content) ==
  [v EXCEPT !.cache[s] = content, !.maybe[s] = @ \cup {content}]

\* Mutant: the flush at the end of a call is missing.
block_cache_flush_nothing(v) == v

block_cache_flush_device(v) ==
  [v EXCEPT !.maybe = [s \in DOMAIN v.cache |-> {v.cache[s]}]]

fat32_read_fat_entry(v, c) == v.cache[0][c]

WriteFat(v, fat, c, next) == WriteSector(v, fat, [v.cache[fat] EXCEPT ![c] = next])

\* Mutant: the entry is updated in the first copy only.
fat32_write_first_fat(v, c, next) == WriteFat(v, 0, c, next)

fat32_write_fat_entry(v, c, next) == WriteFat(WriteFat(v, 0, c, next), 1, c, next)

LinkTo(v, prev, c) == IF prev >= 2 THEN fat32_write_fat_entry(v, prev, c) ELSE v

Take(v, prev, c) ==
  [vol |-> WriteSector(LinkTo(fat32_write_fat_entry(v, c, End), prev, c), c, ZeroCluster),
   clus |-> c]

(* The cluster found, 0 when the volume is full. *)
fat32_allocate_cluster(v, prev) ==
  LET free == {c \in Clusters : fat32_read_fat_entry(v, c) = Free}
  IN IF free = {} THEN [vol |-> v, clus |-> 0] ELSE Take(v, prev, Min(free))

RECURSIVE Chain(_, _)
Chain(v, c) ==
  IF c \in Clusters THEN <<c>> \o Chain(v, fat32_read_fat_entry(v, c)) ELSE <<>>

fat32_free_cluster_chain(v, start) ==
  FoldLeft(LAMBDA w, c : fat32_write_fat_entry(w, c, Free), v, Chain(v, start))

-----------------------------------------------------------------------------
(* Directories *)

(* Every slot of a directory in scanning order, with its place. *)
SlotsOf(v, chain) ==
  [n \in 1 .. Len(chain) * DirEntries |->
     LET c == chain[((n - 1) \div DirEntries) + 1]
         i == ((n - 1) % DirEntries) + 1
     IN [clus |-> c, index |-> i, entry |-> v.cache[c].dir[i]]]
Slots(v, dir) == SlotsOf(v, Chain(v, dir))

(* The slots a scan looks at: it stops at the first one never used. *)
UpToEnd(slots) ==
  LET ends == {k \in DOMAIN slots : slots[k].entry.kind = "end"}
  IN IF ends = {} THEN slots ELSE SubSeq(slots, 1, Min(ends) - 1)
Scanned(v, dir) == UpToEnd(Slots(v, dir))

IsEntry(slot) == slot.entry.kind \in {"file", "dir"}
HasLfn(slots, k) == k > 1 /\ slots[k - 1].entry.kind = "lfn"
DisplayName(slots, k) ==
  IF HasLfn(slots, k) THEN slots[k - 1].entry.name ELSE slots[k].entry.name

NotFound == [clus |-> 0, index |-> 0, entry |-> Entry("end", "", 0, 0)]

FirstNamed(slots, target) ==
  LET hits == {k \in DOMAIN slots :
                 /\ IsEntry(slots[k])
                 /\ target \in {slots[k].entry.name, DisplayName(slots, k)}}
  IN IF hits = {} THEN NotFound ELSE slots[Min(hits)]

fat32_lookup_entry_in_dir(v, dir, target) == FirstNamed(Scanned(v, dir), target)

DirCluster(found) == IF found.entry.first = 0 THEN Root ELSE found.entry.first

RECURSIVE LookupFrom(_, _, _)
LookupFrom(v, found, path) ==
  IF path = <<>> THEN found
  ELSE IF found.entry.kind # "dir" THEN NotFound
  ELSE LookupFrom(v, fat32_lookup_entry_in_dir(v, DirCluster(found), Head(path)), Tail(path))

fat32_lookup_path(v, path) ==
  LookupFrom(v, [clus |-> Root, index |-> 0, entry |-> Entry("dir", "", Root, 0)], path)

WriteEntry(v, slot, entry) ==
  WriteSector(v, slot.clus,
              [v.cache[slot.clus] EXCEPT !.dir[slot.index] = entry])

GrowDir(v, grown, entry) ==
  IF grown.clus = 0 THEN [vol |-> v, ok |-> FALSE]
  ELSE [vol |-> WriteEntry(grown.vol, [clus |-> grown.clus, index |-> 1], entry), ok |-> TRUE]

AddTo(v, chain, slots, entry) ==
  LET usable == {k \in DOMAIN slots : slots[k].entry.kind \in {"end", "deleted"}}
  IN IF usable # {} THEN [vol |-> WriteEntry(v, slots[Min(usable)], entry), ok |-> TRUE]
     ELSE GrowDir(v, fat32_allocate_cluster(v, Last(chain)), entry)

(* The first free slot; a directory without one grows by a cluster. *)
fat32_add_dir_entry(v, dir, kind, name, first, size) ==
  AddTo(v, Chain(v, dir), Slots(v, dir), Entry(kind, Short[name], first, size))

-----------------------------------------------------------------------------
(* Files *)

Needed(size) == (size + ClusterSize - 1) \div ClusterSize

Contents(v, chain, size) ==
  SubSeq(FlattenSeq([k \in DOMAIN chain |-> v.cache[chain[k]].data])
           \o [k \in 1 .. size |-> 0], 1, size)

ReadEntry(v, entry) ==
  IF entry.kind # "file" THEN Absent
  ELSE IF entry.first < 2 THEN <<>>
  ELSE Contents(v, Chain(v, entry.first), entry.size)

(* The contents, Absent when the call fails. *)
fat32_read_file(v, path) == ReadEntry(v, fat32_lookup_path(v, path).entry)

\* Mutant: the offset of the chunk is one cluster too far.
ClusterAfter(data, k) ==
  [i \in 1 .. ClusterSize |->
     LET at == k * ClusterSize + i IN IF at <= Len(data) THEN data[at] ELSE 0]

(* What the k-th cluster of the file receives, padded with zeros. *)
ClusterOf(data, k) ==
  [i \in 1 .. ClusterSize |->
     LET at == (k - 1) * ClusterSize + i IN IF at <= Len(data) THEN data[at] ELSE 0]

(* The loop's next cluster, got, receives the k-th chunk; when there is none
   the chain built so far is released. *)
StoreChunk(s, got, chunk, buffer) ==
  IF got.clus = 0
  THEN [s EXCEPT !.vol = fat32_free_cluster_chain(@, s.first), !.ok = FALSE]
  ELSE [vol |-> IF buffer
                THEN WriteSector(got.vol, got.clus, [dir |-> EmptyDir, data |-> chunk])
                ELSE got.vol,
        first |-> IF s.first = 0 THEN got.clus ELSE s.first,
        prev |-> got.clus, ok |-> TRUE]

(* A new chain holding data.  When the bounce buffer cannot be allocated
   (~buffer) the clusters stay zero and the call goes on. *)
StoreChain(v, data, buffer) ==
  LET Step(s, k) ==
        IF ~s.ok THEN s
        ELSE StoreChunk(s, fat32_allocate_cluster(s.vol, s.prev), ClusterOf(data, k), buffer)
  IN FoldLeft(Step, [vol |-> v, first |-> 0, prev |-> 0, ok |-> TRUE],
              [k \in 1 .. Needed(Len(data)) |-> k])

(* The outcome of a call: the volume, whether it succeeded, and whether it
   left an entry naming a chain it had already released. *)
Outcome(v, ok, dangling) == [vol |-> v, ok |-> ok, dangling |-> dangling]

UpdateEntry(found, stored, size) ==
  IF ~stored.ok THEN Outcome(stored.vol, FALSE, found.entry.first >= 2)
  ELSE Outcome(WriteEntry(stored.vol, found,
                          [found.entry EXCEPT !.first = stored.first, !.size = size]),
               TRUE, FALSE)

Overwrite(v, found, data, buffer) ==
  UpdateEntry(found, StoreChain(fat32_free_cluster_chain(v, found.entry.first), data, buffer),
              Len(data))

(* The last step of a creation: without a directory entry the new chain is
   released again. *)
Entered(added, first) ==
  IF added.ok THEN Outcome(added.vol, TRUE, FALSE)
  ELSE Outcome(fat32_free_cluster_chain(added.vol, first), FALSE, FALSE)

EnterFile(parent, name, stored, size) ==
  IF ~stored.ok THEN Outcome(stored.vol, FALSE, FALSE)
  ELSE Entered(fat32_add_dir_entry(stored.vol, DirCluster(parent), "file", name,
                                   stored.first, size), stored.first)

CreateFile(v, parent, name, data, buffer) ==
  IF parent.entry.kind # "dir" THEN Outcome(v, FALSE, FALSE)
  ELSE EnterFile(parent, name, StoreChain(v, data, buffer), Len(data))

WriteFound(v, found, path, data, buffer) ==
  IF found.entry.kind = "file" THEN Overwrite(v, found, data, buffer)
  ELSE IF found.entry.kind = "dir" THEN Outcome(v, FALSE, FALSE)
  ELSE CreateFile(v, fat32_lookup_path(v, Front(path)), Last(path), data, buffer)

write_file(v, path, data, buffer) ==
  WriteFound(v, fat32_lookup_path(v, path), path, data, buffer)

(* Releases the chain, then marks the entry 0xE5; its long name stays. *)
RemoveFound(v, found, kind) ==
  IF found.entry.kind # kind THEN Outcome(v, FALSE, FALSE)
  ELSE Outcome(WriteEntry(fat32_free_cluster_chain(v, found.entry.first), found,
                          Entry("deleted", "", 0, 0)), TRUE, FALSE)
RemoveEntry(v, path, kind) == RemoveFound(v, fat32_lookup_path(v, path), kind)

Dots(self, parent) ==
  [dir |-> [EmptyDir EXCEPT ![1] = Entry("dir", ".", self, 0),
                            ![2] = Entry("dir", "..", parent, 0)], data |-> NoData]

MakeIn(v, parent, name, got) ==
  IF parent.entry.kind # "dir" \/ got.clus = 0 THEN Outcome(v, FALSE, FALSE)
  ELSE Entered(fat32_add_dir_entry(
                 WriteSector(got.vol, got.clus, Dots(got.clus, DirCluster(parent))),
                 DirCluster(parent), "dir", name, got.clus, 0), got.clus)

mkdir(v, path) ==
  IF fat32_lookup_path(v, path) # NotFound THEN Outcome(v, FALSE, FALSE)
  ELSE MakeIn(v, fat32_lookup_path(v, Front(path)), Last(path), fat32_allocate_cluster(v, 0))

-----------------------------------------------------------------------------
(* The list of files shown by the VFS *)

RECURSIVE fat32_scan_files_recursive(_, _, _)
fat32_scan_files_recursive(v, slots, prefix) ==
  LET Of(k) == LET path == Append(prefix, DisplayName(slots, k))
               IN IF ~IsEntry(slots[k]) \/ slots[k].entry.name \in {".", ".."} THEN <<>>
                  ELSE IF slots[k].entry.kind = "file"
                  THEN <<[path |-> path, size |-> slots[k].entry.size, data |-> Absent]>>
                  ELSE fat32_scan_files_recursive(v, Scanned(v, slots[k].entry.first), path)
  IN FlattenSeq([k \in DOMAIN slots |-> Of(k)])

AtMost(list, n) == SubSeq(list, 1, Min({Len(list), n}))
fat32_refresh_cached_files_locked(v) ==
  AtMost(fat32_scan_files_recursive(v, Scanned(v, Root), <<>>), MaxCached)

-----------------------------------------------------------------------------
(* The calls *)

(* A volume formatted elsewhere, which may hold a file with a long name. *)
FormattedVolume(withLong) ==
  LET fat == [c \in Clusters |-> IF c = Root THEN End ELSE Free]
      root == [ZeroCluster EXCEPT !.dir = IF withLong
                 THEN [EmptyDir EXCEPT ![1] = Entry("lfn", "Readme.markdown", 0, 0),
                                       ![2] = Entry("file", "README.MAR", 0, 0)]
                 ELSE EmptyDir]
      cache == [s \in Fats \cup Clusters |->
                  IF s \in Fats THEN fat ELSE IF s = Root THEN root ELSE ZeroCluster]
  IN [cache |-> cache, maybe |-> [s \in DOMAIN cache |-> {cache[s]}]]

FatInit ==
  /\ \E long \in BOOLEAN : vol = FormattedVolume(long)
  /\ cached = fat32_refresh_cached_files_locked(vol)
  /\ written = [p \in {q \in FilePaths : Fits83(q)} |-> Absent]
  /\ unflushed = {} /\ life = "up" /\ fatCalls = 0

Calling ==
  life = "up" /\ fatCalls < FatCalls /\ fatCalls' = fatCalls + 1

(* A call that succeeded flushes; only write and unlink rebuild the list. *)
Finish(path, out, refresh) ==
  /\ life' = IF out.dangling THEN "damaged" ELSE "up"
  /\ vol' = IF out.ok THEN block_cache_flush_device(out.vol) ELSE out.vol
  /\ unflushed' = IF out.ok THEN {} ELSE unflushed \cup {path}
  /\ cached' = IF out.ok /\ refresh THEN fat32_refresh_cached_files_locked(out.vol)
                                    ELSE cached

Records(path, data) ==
  written' = IF path \in DOMAIN written THEN [written EXCEPT ![path] = data] ELSE written

Data(size, value) == [i \in 1 .. size |-> value]

\* Mutant: the list of files is not rebuilt after the write.
fat32_write_file_unlisted(path, data, buffer) ==
  /\ Calling
  /\ \E out \in {write_file(vol, path, data, buffer)} :
       /\ Finish(path, out, FALSE)
       /\ IF out.ok THEN Records(path, IF buffer THEN data ELSE Data(Len(data), 0))
                    ELSE UNCHANGED written

fat32_write_file(path, data, buffer) ==
  /\ Calling
  /\ \E out \in {write_file(vol, path, data, buffer)} :
       /\ Finish(path, out, TRUE)
       /\ IF out.ok THEN Records(path, IF buffer THEN data ELSE Data(Len(data), 0))
                    ELSE UNCHANGED written

fat32_unlink_file(path) ==
  /\ Calling
  /\ \E out \in {RemoveEntry(vol, path, "file")} :
       /\ Finish(path, out, TRUE)
       /\ IF out.ok THEN Records(path, Absent) ELSE UNCHANGED written

fat32_mkdir(path) ==
  Calling /\ Finish(path, mkdir(vol, path), FALSE) /\ UNCHANGED written

(* The directory is removed with whatever it still holds. *)
fat32_rmdir(path) ==
  /\ Calling
  /\ \E out \in {RemoveEntry(vol, path, "dir")} :
       /\ Finish(path, out, FALSE)
       /\ written' = IF out.ok
            THEN [p \in DOMAIN written |-> IF Len(p) = 2 /\ Front(p) = path
                                           THEN Absent ELSE written[p]]
            ELSE written

(* Read, write and unlink: three calls of the driver, each flushing.  A file
   renamed to itself is unlinked. *)
fat32_rename(old, new) ==
  /\ Calling
  /\ \E data \in {fat32_read_file(vol, old)} \ {Absent} :
       \E out \in {write_file(vol, new, data, TRUE)} :
         IF out.ok
         THEN /\ Finish(old, RemoveEntry(block_cache_flush_device(out.vol), old, "file"), TRUE)
              /\ written' = [p \in DOMAIN written |-> IF p = old THEN Absent
                               ELSE IF p = new THEN data ELSE written[p]]
         ELSE Finish(new, out, TRUE) /\ UNCHANGED written

(* The VFS asks for a listed file: its data is read once and kept. *)
fat32_vfs_file_at(i) ==
  /\ life = "up" /\ cached[i].data = Absent /\ cached[i].size > 0
  /\ \E data \in {fat32_read_file(vol, cached[i].path)} \ {Absent} :
       cached' = [cached EXCEPT ![i].data = data]
  /\ UNCHANGED <<vol, written, unflushed, life, fatCalls>>

(* Unmounting flushes; mounting again starts with a new list. *)
Remount ==
  /\ life = "up"
  /\ vol' = block_cache_flush_device(vol)
  /\ cached' = fat32_refresh_cached_files_locked(vol)
  /\ unflushed' = {}
  /\ UNCHANGED <<written, life, fatCalls>>

(* What a power loss may leave: each sector as it was at some moment since
   the last flush.  The second FAT is never read back and is left as it is. *)
Images(v) ==
  FoldSet(LAMBDA s, images : {[m EXCEPT ![s] = x] : m \in images, x \in v.maybe[s]},
          {v.cache}, DOMAIN v.cache \ {1})

PowerLossIn(path, out) ==
  /\ life = "up" /\ fatCalls < FatCalls /\ fatCalls' = FatCalls
  /\ \E image \in Images(out.vol) :
       vol' = [cache |-> image, maybe |-> [s \in DOMAIN image |-> {image[s]}]]
  /\ life' = "off" /\ unflushed' = unflushed \cup {path}
  /\ cached' = <<>> /\ UNCHANGED written

PowerLoss ==
  \E path \in FilePaths :
    \/ \E size \in Sizes, value \in Values :
         PowerLossIn(path, write_file(vol, path, Data(size, value), TRUE))
    \/ PowerLossIn(path, RemoveEntry(vol, path, "file"))
    \/ /\ path \in DirPaths
       /\ \E out \in {mkdir(vol, path), RemoveEntry(vol, path, "dir")} : PowerLossIn(path, out)

FatNext ==
  \/ \E path \in FilePaths, size \in Sizes, value \in Values, buffer \in BOOLEAN :
       fat32_write_file(path, Data(size, value), buffer)
  \/ \E path \in FilePaths : fat32_unlink_file(path)
  \/ \E path \in DirPaths : fat32_mkdir(path)
  \/ \E path \in DirPaths : fat32_rmdir(path)
  \/ \E old, new \in FilePaths : fat32_rename(old, new)
  \/ \E i \in DOMAIN cached : fat32_vfs_file_at(i)
  \/ Remount
  \/ PowerLoss

FatSpec == FatInit /\ [][FatNext]_fatVars

-----------------------------------------------------------------------------
(* Properties *)

(* Every file or directory entry on the volume that a scan reaches. *)
RECURSIVE Reached(_, _)
Reached(v, dir) ==
  LET here == {slot \in ToSet(Scanned(v, dir)) :
                 IsEntry(slot) /\ slot.entry.name \notin {".", ".."}}
  IN here \cup UNION {Reached(v, slot.entry.first) :
                        slot \in {s \in here : s.entry.kind = "dir"}}

(* While no overwrite has failed on a full volume, the FAT copies agree
   and every entry owns its chain: it ends properly, it is long enough for
   the size, and no cluster belongs to two entries or is marked free.  So
   allocate_cluster can never hand out a cluster some file still uses. *)
ChainsOwned ==
  life = "up" =>
    LET entries == Reached(vol, Root)
        Own(s) == Chain(vol, s.entry.first)
    IN /\ vol.cache[0] = vol.cache[1]
       /\ \A s \in entries : s.entry.first \in Clusters =>
            /\ fat32_read_fat_entry(vol, Last(Own(s))) = End
            /\ Len(Own(s)) * ClusterSize >= s.entry.size
            /\ ToSet(Own(s)) \cap ToSet(Chain(vol, Root)) = {}
            /\ \A t \in entries \ {s} : ToSet(Own(s)) \cap ToSet(Own(t)) = {}

(* A path of 8.3 names reads back exactly what was last stored under it,
   whatever was written, removed, renamed or remounted since. *)
ReadBack ==
  life = "up" => \A p \in DOMAIN written : fat32_read_file(vol, p) = written[p]

(* What the VFS lists under an 8.3 path is what is there: no data kept from
   an earlier version of the file, unless its directory was removed, which
   does not rebuild the list. *)
ListingCurrent ==
  life = "up" => \A i \in {j \in DOMAIN cached : cached[j].path \in DOMAIN written} :
    LET now == fat32_read_file(vol, cached[i].path)
    IN \/ now = Absent /\ Len(cached[i].path) = 2
       \/ cached[i].size = Len(now) /\ cached[i].data \in {Absent, now}

(* A power loss during a call, with the cache writing sectors back in any
   order, harms no other file: every path that was not the subject of a call
   since the last flush, nor inside a directory that was, reads as before. *)
BystandersSurvive ==
  life = "off" => \A p \in DOMAIN written :
    \/ \E q \in unflushed : IsPrefix(q, p)
    \/ fat32_read_file(vol, p) = written[p]
=============================================================================
