-------------------------------- MODULE Ramfs --------------------------------
(***************************************************************************)
(* The two memory file systems: D:, a table of RamSlots writable files     *)
(* beside the built-in ones (fs/ramfs.c), and C:, the newc archive the     *)
(* boot loader left in memory (fs/initramfs.c).  A ramfs call holds        *)
(* ramfs_lock, so it is a step; the archive is parsed once, a header per   *)
(* step, at boot.                                                          *)
(*                                                                         *)
(* An archive is its size and a partial map from offsets to headers, as    *)
(* the tool that made it laid it out; parsing an offset without a header   *)
(* fails on the magic number.  The archives tried are every layout of the  *)
(* files of Archives, cut off at every length.                             *)
(***************************************************************************)
EXTENDS Integers, Sequences, FiniteSets, SequencesExt, FiniteSetsExt

CONSTANTS RamPaths,    \* paths used on D:, the built-in ones among them
          BuiltIn,     \* the built-in paths
          RamData,     \* file contents
          RamSlots,    \* RAMFS_DYNAMIC_FILE_MAX
          Archives,    \* sequences of [path, name_size, file_size, regular]
          HeaderSize,  \* CPIO_NEWC_HEADER_SIZE
          MaxFiles     \* INITRAMFS_MAX_FILES

VARIABLES ramFiles,   \* dynamic_files
          stored,     \* what was last written under each path
          source,     \* the files put into the archive
          archive,    \* the archive in memory
          offset,     \* where the parser is
          files,      \* files, as many as file_count
          parsing     \* "busy", "ok" or "failed"

ramVars == <<ramFiles, stored>>
initrdVars == <<source, archive, offset, files, parsing>>

NoPath == "no path"
Nothing == "nothing"
RamSlotSet == 1 .. RamSlots
Unused == [path |-> NoPath, data |-> Nothing]

-----------------------------------------------------------------------------
(* D: *)

SlotsOf(path) == {s \in RamSlotSet : ramFiles[s].path = path}

\* Mutant: the first free slot is taken before the path is looked for.
FirstUnused(path) == SlotsOf(NoPath)

(* The slot written: the file's own, else the first free one. *)
SlotFor(path) == IF SlotsOf(path) # {} THEN SlotsOf(path) ELSE SlotsOf(NoPath)

ramfs_write_file(path, data) ==
  /\ SlotFor(path) # {}
  /\ ramFiles' = [ramFiles EXCEPT ![Min(SlotFor(path))] = [path |-> path, data |-> data]]
  /\ stored' = [stored EXCEPT ![path] = data]

ramfs_unlink_file(path) ==
  /\ SlotsOf(path) # {}
  /\ ramFiles' = [ramFiles EXCEPT ![Min(SlotsOf(path))] = Unused]
  /\ stored' = [stored EXCEPT ![path] = Nothing]

(* A built-in file hides one written under its path. *)
ramfs_read_file(path) ==
  IF path \in BuiltIn THEN "built-in"
  ELSE IF SlotsOf(path) = {} THEN Nothing ELSE ramFiles[Min(SlotsOf(path))].data

(* Files by index: the built-in ones, then the used slots in order. *)
ramfs_file_at ==
  SetToSeq(BuiltIn) \o
  SelectSeq([s \in RamSlotSet |-> ramFiles[s].path], LAMBDA p : p # NoPath)

-----------------------------------------------------------------------------
(* C: *)

align4(n) == ((n + 3) \div 4) * 4

\* Mutant: the data begins right after the name.
DataOffsetUnaligned(at, name_size) == at + HeaderSize + name_size

DataOffset(at, name_size) == align4(at + HeaderSize + name_size)

NextOffset(data, file_size) == align4(data + file_size)

(* The layout tools/kos.c produces: header, name padded to four bytes,
   data padded to four bytes; the trailer is an empty file. *)
Trailer == [path |-> "TRAILER!!!", name_size |-> 11, file_size |-> 0, regular |-> FALSE]

Pad(n) == n + ((4 - (n % 4)) % 4)
Layout(list) ==
  FoldLeft(LAMBDA a, f :
      [headers |-> a.headers \cup {<<a.end, f>>},
       at |-> Append(a.at, Pad(a.end + HeaderSize + f.name_size)),
       end |-> Pad(Pad(a.end + HeaderSize + f.name_size) + f.file_size)],
    [headers |-> {}, at |-> <<>>, end |-> 0], Append(list, Trailer))

range_is_valid(at, length, total) == at <= total /\ length <= total - at

RamfsInit ==
  /\ ramFiles = [s \in RamSlotSet |-> Unused]
  /\ stored = [p \in RamPaths |-> Nothing]

InitrdInit ==
  /\ source \in Archives
  /\ \E size \in 0 .. Layout(source).end :
       archive = [headers |-> Layout(source).headers, size |-> size]
  /\ offset = 0 /\ files = <<>> /\ parsing = "busy"

Fail == parsing' = "failed" /\ UNCHANGED <<source, archive, offset, files>>

(* One turn of initramfs_initialize's loop. *)
initramfs_initialize ==
  LET found == {h \in archive.headers : h[1] = offset}
      h == (CHOOSE x \in found : TRUE)[2]
      data == DataOffset(offset, h.name_size)
  IN /\ parsing = "busy"
     /\ IF \/ ~range_is_valid(offset, HeaderSize, archive.size)
           \/ found = {}
        THEN Fail
        ELSE IF \/ ~range_is_valid(offset + HeaderSize, h.name_size, archive.size)
                \/ ~range_is_valid(data, h.file_size, archive.size)
        THEN Fail
        ELSE IF h.path = "TRAILER!!!"
        THEN /\ parsing' = IF h.file_size # 0 \/ files = <<>> THEN "failed" ELSE "ok"
             /\ UNCHANGED <<source, archive, offset, files>>
        ELSE IF \/ ~h.regular \/ Len(files) >= MaxFiles
                \/ \E i \in DOMAIN files : files[i].path = h.path
        THEN Fail
        ELSE /\ files' = Append(files, [path |-> h.path, data |-> data, size |-> h.file_size])
             /\ offset' = NextOffset(data, h.file_size)
             /\ UNCHANGED <<source, archive, parsing>>

RamfsNext ==
  \E path \in RamPaths :
    (\E data \in RamData : ramfs_write_file(path, data)) \/ ramfs_unlink_file(path)

-----------------------------------------------------------------------------
(* Properties *)

(* On D: a path reads back what was last written, a removed file is gone,
   and the listing shows every readable written file exactly once, however
   slots were freed and taken again.  A built-in file is never replaced. *)
RamfsReadBack ==
  /\ \A p \in RamPaths :
       ramfs_read_file(p) = IF p \in BuiltIn THEN "built-in" ELSE stored[p]
  /\ \A p \in RamPaths \ BuiltIn :
       Cardinality({i \in DOMAIN ramfs_file_at : ramfs_file_at[i] = p})
         = IF stored[p] = Nothing THEN 0 ELSE 1

(* The archive on C: is taken whole or not at all: when parsing succeeds the
   files are those that were packed, each at the place its data was put and
   inside the archive; it succeeds on every complete archive of distinct
   regular files that fits the table, and on no truncated one. *)
ArchiveExact ==
  LET laid == Layout(source)
      good == /\ \A f \in ToSet(source) : f.regular
              /\ IsInjective([i \in DOMAIN source |-> source[i].path])
              /\ Len(source) \in 1 .. MaxFiles
      whole == archive.size >= laid.at[Len(laid.at)]
  IN /\ parsing # "busy" => (parsing = "ok" <=> good /\ whole)
     /\ \A i \in DOMAIN files :
          /\ files[i] = [path |-> source[i].path, data |-> laid.at[i],
                         size |-> source[i].file_size]
          /\ files[i].data + files[i].size <= archive.size
=============================================================================
