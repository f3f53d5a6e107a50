-------------------------------- MODULE Vfs --------------------------------
(***************************************************************************)
(* The virtual file system over a writable project (engine/src/Vfs.cpp):   *)
(* what a query sees and what a write can leave.  A disk is a function     *)
(* from paths to contents.                                                 *)
(*                                                                         *)
(* A file is opened for writing in place (PHYSFS_openWrite truncates it),  *)
(* so a write that fails half-way leaves whatever prefix had reached the   *)
(* disk.  Which contents that can be depends on the format: the caller     *)
(* supplies them.                                                          *)
(***************************************************************************)
CONSTANT NoFile     \* PathKind::Missing

Exists(disk, path) == disk[path] # NoFile

\* Not ready, no write directory, a refused path or a file that cannot be
\* opened: false, and nothing is touched.
Refusals(disk) == {[ok |-> FALSE, disk |-> disk]}

\* A short write, a failed close, or the process dying between the two.
Tears(disk, path, partial) ==
    {[ok |-> FALSE, disk |-> [disk EXCEPT ![path] = p]] : p \in partial}

Completes(disk, path, content) ==
    {[ok |-> TRUE, disk |-> [disk EXCEPT ![path] = content]]}

Failures(disk, path, partial) == Refusals(disk) \cup Tears(disk, path, partial)

Removed(disk, path) == [disk EXCEPT ![path] = NoFile]
=============================================================================
