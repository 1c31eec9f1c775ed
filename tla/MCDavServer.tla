---------------------------- MODULE MCDavServer ----------------------------
(* Values for the constants of DavServer. *)
EXTENDS DavServer, TLC

TwoLevels == {<<"d">>, <<"e">>, <<"d", "x">>}

Folder == [dir |-> TRUE, id |-> 1]
File(n) == [dir |-> FALSE, id |-> n]
FolderWithFile == {(<<"d">> :> Folder) @@ (<<"d", "x">> :> File(2))}

Symmetric == Permutations(Clients)
=============================================================================
