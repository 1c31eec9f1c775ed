--------------------------- MODULE MCObjectRelay ---------------------------
(* Values for the constants of ObjectRelay.                                *)
EXTENDS ObjectRelay

CONSTANTS a, b

Symmetric == Permutations({a, b}) \cup Permutations(Senders)
                \cup Permutations(Receivers)

AllStores == {[protocol |-> "s3", inPlace |-> FALSE],
              [protocol |-> "azure", inPlace |-> FALSE],
              [protocol |-> "webdav", inPlace |-> TRUE],
              [protocol |-> "ftp", inPlace |-> TRUE],
              [protocol |-> "sftp", inPlace |-> TRUE]}
FtpOnly == {[protocol |-> "ftp", inPlace |-> TRUE]}

NoFile == {<<>>}
=============================================================================
