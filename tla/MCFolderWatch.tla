----------------------------- MODULE MCFolderWatch -----------------------------
(* ii watch over a directory with two files the filters select and a       *)
(* symlink they do not, which --symlinks reject lists all the same.        *)
EXTENDS FolderWatch
=============================================================================
