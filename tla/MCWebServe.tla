----------------------------- MODULE MCWebServe -----------------------------
(* Values for the constants of WebServe. *)
EXTENDS WebServe

None == [kind |-> "none"]
Ranges == {None, [kind |-> "invalid"],
           [kind |-> "last", n |-> 0], [kind |-> "last", n |-> 1],
           [kind |-> "last", n |-> 5], [kind |-> "from", a |-> 1],
           [kind |-> "between", a |-> 0, b |-> 0],
           [kind |-> "between", a |-> 1, b |-> 0],
           [kind |-> "between", a |-> 0, b |-> 5]}

Ask(method, path, range) == [method |-> method, path |-> path, range |-> range]
AllRequests ==
    {Ask("GET", "name", range) : range \in Ranges}
    \cup {Ask("GET", path, None) : path \in {"/", "name/", "other", "download"}}
    \cup {Ask("HEAD", "name", None), Ask("POST", "other", None)}

(* One client asks for anything, the others for the file as a whole.       *)
Downloads == {Ask("GET", "name", None), Ask("GET", "download", None)}
OneAsksAnything ==
    LET one == CHOOSE c \in Clients : TRUE
    IN  [c \in Clients |-> IF c = one THEN AllRequests ELSE Downloads]
AllDownload == [c \in Clients |-> Downloads]
=============================================================================
