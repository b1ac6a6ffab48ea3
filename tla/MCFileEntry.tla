---------------------------- MODULE MCFileEntry ----------------------------
(* FileEntry alone, on the files of MCFiles.                               *)
EXTENDS FileEntry, MCFiles
=============================================================================
