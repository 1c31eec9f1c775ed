--------------------------- MODULE MCFileTransfer ---------------------------
(* FileTransfer for TLC: two blocks of payload, "x" blocks of other files. *)
EXTENDS FileTransfer

CONSTANTS r1, r2

TwoBlocks == <<"a", "b">>
(* A shorter file and a longer one.                                        *)
TwoFiles == {(r1 :> <<"x">>) @@ (r2 :> <<"x", "x", "x">>)}
=============================================================================
