------------------------------ MODULE Packages ------------------------------
(* Application packages: the .kpkg reader (lib/kpkg.c), the transactional
   installer (kernel/installer.c) and the package database
   (kernel/pkg_db.c).  Installer and database run on the shell's thread, so
   one operation is one step; what may go wrong in the middle of it is a
   package file that cannot be read and a drive that is full. *)
EXTENDS Naturals, FiniteSets, SequencesExt

CONSTANTS PackageFiles,  \* package files that may be offered
          DriveSlots,    \* files the drive can hold
          DbMax,         \* PKG_DB_MAX_PACKAGES
          DbFilesMax     \* PKG_DB_MAX_FILES_TOTAL

VARIABLES drive,     \* the files of D:, by path
          packages,  \* g_pkg_db.packages
          owned,     \* g_pkg_db.files
          torn       \* apps whose update failed half way through its commit
pkgVars == <<drive, packages, owned, torn>>

NoApp == "none"
UnusedPackage == [app_id |-> NoApp, version_code |-> 0, file_indices |-> <<>>]
UnusedFile == [in_use |-> FALSE, path |-> <<>>, sha256 |-> 0, pkg_index |-> 0]

PkgInit ==
  /\ drive = << >> /\ torn = {}
  /\ packages = [i \in 1 .. DbMax |-> UnusedPackage]
  /\ owned = [g \in 1 .. DbFilesMax |-> UnusedFile]

-----------------------------------------------------------------------------
(* The package file.  Paths are sequences of segments; digest is the hash
   the index gives and data what the payload holds. *)

(* A leading, doubled or only separator shows as an empty segment; a
   trailing one is let through. *)
kpkg_validate_path(path) ==
  /\ path # <<>>
  /\ \A i \in DOMAIN path : /\ path[i] \notin {".", ".."}
                            /\ path[i] = "" => i = Len(path) /\ i > 1

kpkg_open(pkg) ==
  /\ pkg.header
  /\ \A i \in DOMAIN pkg.files : kpkg_validate_path(pkg.files[i].path)

kpkg_verify_integrity(pkg) == \A i \in DOMAIN pkg.files : pkg.files[i].data = pkg.files[i].digest
kpkg_verify_signature(pkg) == pkg.signed

(* The payload is read again and its hash compared again; reads of the
   package file from number unreadable on fail. *)
kpkg_extract_file(pkg, i, unreadable) ==
  i < unreadable /\ pkg.files[i].data = pkg.files[i].digest

-----------------------------------------------------------------------------
(* The drive *)

Staged(pkg, i) == <<"Apps", ".staging_", pkg.app_id>> \o pkg.files[i].path
Target(pkg, i) == <<"Apps", pkg.app_id>> \o pkg.files[i].path
Marker(app) == <<"Data", app, ".keep">>
InstallPath(app) == <<"Apps", app>>
Backup(app, f) == <<"Apps", ".backup_", app, ToString(f)>>

CanWrite(fs, path) == path \in DOMAIN fs \/ Cardinality(DOMAIN fs) < DriveSlots
Written(fs, path, data) == [p \in DOMAIN fs \cup {path} |-> IF p = path THEN data ELSE fs[p]]
Unlinked(fs, paths) == [p \in DOMAIN fs \ paths |-> fs[p]]

Indices(pkg) == [i \in DOMAIN pkg.files |-> i]
StagedAll(pkg) == {Staged(pkg, i) : i \in DOMAIN pkg.files}
TargetAll(pkg) == {Target(pkg, i) : i \in DOMAIN pkg.files}

(* Phase 1: every file is extracted under the staging prefix. *)
Stage(fs, pkg, unreadable) ==
  FoldLeft(LAMBDA s, i :
      IF s.ok /\ kpkg_extract_file(pkg, i, unreadable) /\ CanWrite(s.fs, Staged(pkg, i))
      THEN [fs |-> Written(s.fs, Staged(pkg, i), pkg.files[i].data), ok |-> TRUE]
      ELSE [s EXCEPT !.ok = FALSE],
    [fs |-> fs, ok |-> TRUE], Indices(pkg))

(* Phase 2: every staged file is copied to its place and deleted. *)
Commit(fs, pkg) ==
  FoldLeft(LAMBDA s, i :
      IF s.ok /\ Staged(pkg, i) \in DOMAIN s.fs /\ CanWrite(s.fs, Target(pkg, i))
      THEN [fs |-> Unlinked(Written(s.fs, Target(pkg, i), s.fs[Staged(pkg, i)]),
                            {Staged(pkg, i)}), ok |-> TRUE]
      ELSE [s EXCEPT !.ok = FALSE],
    [fs |-> fs, ok |-> TRUE], Indices(pkg))

ensure_app_data_directory(fs, app) ==
  IF CanWrite(fs, Marker(app)) THEN Written(fs, Marker(app), 0) ELSE fs

-----------------------------------------------------------------------------
(* The database *)

pkg_db_find(app) == {i \in DOMAIN packages : packages[i].app_id = app}

Released(files, record) ==
  [g \in DOMAIN files |->
     IF \E f \in DOMAIN record.file_indices : record.file_indices[f] = g
     THEN UnusedFile ELSE files[g]]

(* The app's own slot, or the first unused one; 0 when there is none. *)
SlotOf(app) ==
  LET own == pkg_db_find(app)
      unused == pkg_db_find(NoApp)
      from == IF own # {} THEN own ELSE unused
  IN IF from = {} THEN 0 ELSE CHOOSE i \in from : \A j \in from : i <= j

(* A file for which the table has no room is left out of the record. *)
pkg_db_register(pkg, slot) ==
  FoldLeft(LAMBDA s, i :
      LET free == {g \in DOMAIN s.files : ~s.files[g].in_use}
          g == CHOOSE x \in free : \A y \in free : x <= y
      IN IF free = {} THEN s
         ELSE [files |-> [s.files EXCEPT ![g] =
                            [in_use |-> TRUE, path |-> Target(pkg, i),
                             sha256 |-> pkg.files[i].digest, pkg_index |-> slot]],
               indices |-> Append(s.indices, g)],
    [files |-> Released(owned, packages[slot]), indices |-> <<>>], Indices(pkg))

Register(pkg, slot) ==
  LET entry == pkg_db_register(pkg, slot)
  IN /\ packages' = [packages EXCEPT ![slot] =
          [app_id |-> pkg.app_id, version_code |-> pkg.version_code,
           file_indices |-> entry.indices]]
     /\ owned' = entry.files

-----------------------------------------------------------------------------
(* Operations *)

Accepted(pkg, verify) ==
  kpkg_open(pkg) /\ (verify => kpkg_verify_signature(pkg)) /\ kpkg_verify_integrity(pkg)

\* Mutant: a failed staging leaves the files it wrote.
installer_install_untidy(pkg, verify, unreadable) ==
  LET staged == Stage(drive, pkg, unreadable)
      committed == Commit(staged.fs, pkg)
      slot == SlotOf(pkg.app_id)
  IN /\ Accepted(pkg, verify) /\ pkg_db_find(pkg.app_id) = {}
     /\ IF ~staged.ok THEN drive' = staged.fs /\ UNCHANGED <<packages, owned>>
        ELSE /\ committed.ok /\ slot # 0
             /\ drive' = ensure_app_data_directory(committed.fs, pkg.app_id)
             /\ Register(pkg, slot)
     /\ UNCHANGED torn

installer_install(pkg, verify, unreadable) ==
  LET staged == Stage(drive, pkg, unreadable)
      committed == Commit(staged.fs, pkg)
      slot == SlotOf(pkg.app_id)
      marked == ensure_app_data_directory(committed.fs, pkg.app_id)
  IN /\ Accepted(pkg, verify) /\ pkg_db_find(pkg.app_id) = {}
     /\ IF ~staged.ok
        THEN drive' = Unlinked(staged.fs, StagedAll(pkg)) /\ UNCHANGED <<packages, owned>>
        ELSE IF ~committed.ok
        THEN /\ drive' = Unlinked(committed.fs, TargetAll(pkg) \cup StagedAll(pkg))
             /\ UNCHANGED <<packages, owned>>
        ELSE IF slot = 0
        THEN drive' = Unlinked(marked, TargetAll(pkg)) /\ UNCHANGED <<packages, owned>>
        ELSE drive' = marked /\ Register(pkg, slot)
     /\ UNCHANGED torn

(* The backup reads the installation directory as if it were a file, once
   for every file of the old version. *)
BackedUp(fs, record) ==
  FoldLeft(LAMBDA s, f :
      IF InstallPath(record.app_id) \in DOMAIN s /\ CanWrite(s, Backup(record.app_id, f))
      THEN Written(s, Backup(record.app_id, f), s[InstallPath(record.app_id)]) ELSE s,
    fs, [f \in DOMAIN record.file_indices |-> f])

(* A commit that fails is left as it stands.  The backups removed at the end
   are counted by the new record. *)
installer_update(pkg, verify, allow_downgrade, unreadable) ==
  \E slot \in pkg_db_find(pkg.app_id) :
    LET existing == packages[slot]
        staged == Stage(BackedUp(drive, existing), pkg, unreadable)
        committed == Commit(staged.fs, pkg)
        updated == pkg_db_register(pkg, slot).indices
        backups == {Backup(pkg.app_id, f) : f \in DOMAIN updated}
    IN /\ Accepted(pkg, verify)
       /\ allow_downgrade \/ pkg.version_code >= existing.version_code
       /\ IF ~staged.ok
          THEN /\ drive' = Unlinked(staged.fs, StagedAll(pkg))
               /\ UNCHANGED <<packages, owned, torn>>
          ELSE IF ~committed.ok
          THEN /\ drive' = committed.fs /\ torn' = torn \cup {pkg.app_id}
               /\ UNCHANGED <<packages, owned>>
          ELSE /\ drive' = Unlinked(committed.fs, backups)
               /\ Register(pkg, slot)
               /\ UNCHANGED torn

\* Mutant: the file records stay in use.
pkg_db_unregister_leaking(slot) ==
  packages' = [packages EXCEPT ![slot] = UnusedPackage] /\ UNCHANGED owned

pkg_db_unregister(slot) ==
  /\ packages' = [packages EXCEPT ![slot] = UnusedPackage]
  /\ owned' = Released(owned, packages[slot])

(* The installed files themselves stay on the drive. *)
installer_uninstall(app, keep_data) ==
  \E slot \in pkg_db_find(app) :
    /\ drive' = IF keep_data THEN drive ELSE Unlinked(drive, {Marker(app)})
    /\ pkg_db_unregister(slot)
    /\ UNCHANGED torn

PkgNext ==
  \/ \E pkg \in PackageFiles, verify \in BOOLEAN, unreadable \in 1 .. 3 :
       \/ installer_install(pkg, verify, unreadable)
       \/ \E allow \in BOOLEAN : installer_update(pkg, verify, allow, unreadable)
  \/ \E pkg \in PackageFiles, keep \in BOOLEAN : installer_uninstall(pkg.app_id, keep)

-----------------------------------------------------------------------------
(* Properties *)

(* What the database says is installed is on the drive and is what the
   package's index promised, whatever failed, was updated or was removed
   in between (an update whose commit failed excepted: nothing restores
   the old version). *)
InstalledIntact ==
  \A g \in DOMAIN owned :
    owned[g].in_use /\ packages[owned[g].pkg_index].app_id \notin torn =>
      owned[g].path \in DOMAIN drive /\ drive[owned[g].path] = owned[g].sha256

(* Every file record in use belongs to exactly one installed package and is
   listed by it: no failure, update or removal loses a record. *)
RecordsOwned ==
  \A g \in DOMAIN owned :
    owned[g].in_use =>
      /\ packages[owned[g].pkg_index].app_id # NoApp
      /\ Cardinality({<<i, f>> \in (DOMAIN packages) \X (1 .. DbFilesMax) :
           f \in DOMAIN packages[i].file_indices /\ packages[i].file_indices[f] = g}) = 1

(* No operation leaves staged or backup files behind, an update whose
   commit failed excepted, and nothing is ever written outside the
   directory of its own application. *)
DriveTidy ==
  \A path \in DOMAIN drive :
    /\ path[2] \in {".staging_", ".backup_"} => path[3] \in torn
    /\ \A i \in DOMAIN path : path[i] # ".."
=============================================================================
