----------------------------- MODULE DavServer -----------------------------
(***************************************************************************)
(* `ii dav` (web/dav.rs): the requests of several clients that change the  *)
(* served tree, and the table of locks they are checked against.           *)
(*                                                                         *)
(* A handler awaits at every operation on the file system, so the others   *)
(* run between its steps: the check against the locks is one step (with    *)
(* the resolution of the paths before it, which can only refuse), the file *)
(* operations are steps of their own.  What the lock mutex protects is one *)
(* step.  A refused request changes nothing and is no step; neither are    *)
(* OPTIONS, PROPFIND, GET, HEAD, PROPPATCH and a LOCK that refreshes.  An  *)
(* expired lock is pruned before any use, so expiry is its removal.        *)
(*                                                                         *)
(* A path is the sequence of its names, <<>> the root.  A node has an id   *)
(* that tells it from every other one ever made.                           *)
(***************************************************************************)
EXTENDS Integers, Sequences, FiniteSets, SequencesExt

CONSTANTS Clients,
          Paths,       (* the paths requests are about                     *)
          StartTrees,  (* trees to start from                              *)
          MaxLocks,    (* bound: locks granted                             *)
          MaxRequests  (* bound: requests made                             *)

ASSUME PathsAssumption == Paths \subseteq Seq(STRING) \ {<<>>}
ASSUME DavBoundsAssumption == MaxLocks \in Nat /\ MaxRequests \in Nat

(* A tree is finite, has no path without the directories above it, and a   *)
(* node at each path, with ids from 1 on.                                  *)
ASSUME TreesAssumption ==
    \A t \in StartTrees :
        /\ IsFiniteSet(DOMAIN t) /\ DOMAIN t \subseteq Seq(STRING) \ {<<>>}
        /\ \A p \in DOMAIN t : /\ t[p] \in [dir : BOOLEAN, id : 1..Cardinality(DOMAIN t)]
                               /\ \A q \in DOMAIN t : t[p].id = t[q].id => p = q
                               /\ \A n \in 1..Len(p) - 1 : /\ SubSeq(p, 1, n) \in DOMAIN t
                                                           /\ t[SubSeq(p, 1, n)].dir

VARIABLES
    tree,      (* path to node, for the paths that exist                   *)
    created,   (* how many nodes were made                                 *)
    locks,     (* LockState.locks: path to the token, and what it was for  *)
    owner,     (* token to the client it was granted to                    *)
    pc,        (* where the client's request is                            *)
    req,       (* the request                                              *)
    temp,      (* the directory its temporary file is in, {} for none      *)
    copies,    (* the pairs copy_path has still to copy                    *)
    requests,  (* how many requests were made                              *)
    quiet      (* history: no two requests have overlapped in time         *)

treeVars == <<tree, created>>
lockVars == <<locks, owner>>
davVars == <<treeVars, lockVars, pc, req, temp, copies, requests, quiet>>

Nothing == 0
NoRequest == [op |-> "none"]

-----------------------------------------------------------------------------
(* Paths and partial functions on them.                                    *)

Overlap(p, q) == IsPrefix(p, q) \/ IsPrefix(q, p)
Rebase(p, source, destination) ==
    destination \o SubSeq(p, Len(source) + 1, Len(p))

Put(f, p, v) == [q \in DOMAIN f \cup {p} |-> IF q = p THEN v ELSE f[q]]
Without(f, p) == [q \in DOMAIN f \ {p} |-> f[q]]

(* What was under source is under destination, in place of what was there. *)
Moved(f, source, destination) ==
    LET moved == {p \in DOMAIN f : IsPrefix(source, p)}
        new   == {Rebase(p, source, destination) : p \in moved}
    IN  [p \in (DOMAIN f \ moved) \cup new |->
            IF p \in new THEN f[Rebase(p, destination, source)] ELSE f[p]]

Exists(p) == p = <<>> \/ p \in DOMAIN tree
IsDir(p) == p = <<>> \/ (p \in DOMAIN tree /\ tree[p].dir)
ParentIsDir(p) == IsDir(Front(p))
Children(p) == {q \in DOMAIN tree : Front(q) = p}
IsEmpty(p) == Children(p) = {} /\ \A c \in Clients : p \notin temp[c]

NewNode(isDir) == [dir |-> isDir, id |-> created + 1]

-----------------------------------------------------------------------------
(* lock_permits: the request presents every lock on the target, above it   *)
(* and below it.                                                           *)
PermitsAbove(target, presents) ==
    \A p \in DOMAIN locks :
        IsPrefix(p, target) => locks[p].token \in presents
Permits(target, presents) ==
    \A p \in DOMAIN locks :
        Overlap(p, target) => locks[p].token \in presents

Tokens(c) == {k \in DOMAIN owner : owner[k] = c}

(* History: the locks a request was not checked against.                   *)
Unpresented(presents) ==
    {<<p, locks[p].token>> : p \in {q \in DOMAIN locks :
                                      locks[q].token \notin presents}}

-----------------------------------------------------------------------------
DavInit == /\ tree \in StartTrees
           /\ created = Cardinality(DOMAIN tree)
           /\ locks = <<>>
           /\ owner = <<>>
           /\ pc = [c \in Clients |-> "idle"]
           /\ req = [c \in Clients |-> NoRequest]
           /\ temp = [c \in Clients |-> {}]
           /\ copies = [c \in Clients |-> {}]
           /\ requests = 0
           /\ quiet = TRUE

(* A connection with one request.                                          *)
Arrives(c) ==
    /\ pc[c] = "idle"
    /\ requests < MaxRequests
    /\ requests' = requests + 1
    /\ quiet' = (quiet /\ \A d \in Clients : pc[d] = "idle")

Goes(c, state) == pc' = [pc EXCEPT ![c] = state]
Ends(c) == /\ Goes(c, "idle")
           /\ req' = [req EXCEPT ![c] = NoRequest]

Remember(c, op, target, destination, overwrite, presents) ==
    req' = [req EXCEPT ![c] =
              [op |-> op, target |-> target, destination |-> destination,
               overwrite |-> overwrite, presents |-> presents,
               seen |-> Unpresented(presents)]]

(* put, up to its body: check, and make the temporary file.                *)
PutChecks(c, p, presents) ==
    /\ Arrives(c)
    /\ ParentIsDir(p)
    /\ Permits(p, presents)
    /\ Remember(c, "PUT", p, p, TRUE, presents)
    /\ temp' = [temp EXCEPT ![c] = {Front(p)}]
    /\ Goes(c, "body")
    /\ UNCHANGED <<treeVars, lockVars, copies>>

(* The body is complete: the temporary file, if it is still where it was   *)
(* made, replaces the target.                                              *)
PutEnds(c) ==
    /\ pc[c] = "body"
    /\ temp[c] = {Front(req[c].target)}
    /\ ~IsDir(req[c].target)
    /\ tree' = Put(tree, req[c].target, NewNode(FALSE))
    /\ created' = created + 1
    /\ temp' = [temp EXCEPT ![c] = {}]
    /\ Ends(c)
    /\ UNCHANGED <<lockVars, copies, requests, quiet>>

(* mkcol.                                                                  *)
MkcolChecks(c, p, presents) ==
    /\ Arrives(c)
    /\ ParentIsDir(p)
    /\ Permits(p, presents)
    /\ Remember(c, "MKCOL", p, p, TRUE, presents)
    /\ Goes(c, "create")
    /\ UNCHANGED <<treeVars, lockVars, temp, copies>>

MkcolEnds(c) ==
    /\ pc[c] = "create"
    /\ ~Exists(req[c].target)
    /\ ParentIsDir(req[c].target)
    /\ tree' = Put(tree, req[c].target, NewNode(TRUE))
    /\ created' = created + 1
    /\ Ends(c)
    /\ UNCHANGED <<lockVars, temp, copies, requests, quiet>>

(* delete.  The locks on what it deletes stay.                             *)
DeleteChecks(c, p, presents) ==
    /\ Arrives(c)
    /\ Exists(p)
    /\ Permits(p, presents)
    /\ Remember(c, "DELETE", p, p, TRUE, presents)
    /\ Goes(c, "remove")
    /\ UNCHANGED <<treeVars, lockVars, temp, copies>>

(* move_or_copy, up to the look at source and destination.                 *)
MoveOrCopyChecks(c, op, p, d, overwrite, presents) ==
    /\ Arrives(c)
    /\ Exists(p)
    /\ ParentIsDir(d)
    /\ Permits(p, presents)
    /\ Permits(d, presents)
    /\ Remember(c, op, p, d, overwrite, presents)
    /\ Goes(c, "decide")
    /\ UNCHANGED <<treeVars, lockVars, temp, copies>>

CopyOrRename(c) ==
    IF req[c].op = "MOVE"
    THEN /\ Goes(c, "rename")
         /\ UNCHANGED copies
    ELSE /\ Goes(c, "copy")
         /\ copies' = [copies EXCEPT ![c] =
                         {<<req[c].target, req[c].destination>>}]

Decide(c) ==
    /\ pc[c] = "decide"
    /\ Exists(req[c].target)
    /\ ~(IsDir(req[c].target) /\ IsPrefix(req[c].target, req[c].destination))
    /\ IF Exists(req[c].destination)
       THEN /\ req[c].overwrite
            /\ Goes(c, "remove")
            /\ UNCHANGED copies
       ELSE CopyOrRename(c)
    /\ UNCHANGED <<treeVars, lockVars, req, temp, requests, quiet>>

(* remove_file or remove_dir_all, from the leaves up, of the target of a   *)
(* DELETE or the destination of a MOVE or COPY.                            *)
Removes(c) ==
    /\ pc[c] = "remove"
    /\ \E p \in DOMAIN tree :
         /\ IsPrefix(req[c].destination, p)
         /\ Children(p) = {}
         /\ tree' = Without(tree, p)
         /\ temp' = [d \in Clients |-> temp[d] \ {p}]
         /\ IF p # req[c].destination THEN UNCHANGED <<pc, req, copies>>
            ELSE IF req[c].op = "DELETE" THEN Ends(c) /\ UNCHANGED copies
            ELSE CopyOrRename(c) /\ UNCHANGED req
    /\ UNCHANGED <<created, lockVars, requests, quiet>>

(* fs::rename, and after it, in a step of its own, move_locks.             *)
Rename(c) ==
    LET source == req[c].target
        destination == req[c].destination
    IN  /\ pc[c] = "rename"
        /\ Exists(source)
        /\ ParentIsDir(destination)
        /\ ~IsStrictPrefix(source, destination)
        /\ Exists(destination) =>
             /\ IsDir(source) = IsDir(destination)
             /\ IsDir(destination) => IsEmpty(destination)
        /\ tree' = Moved(tree, source, destination)
        /\ temp' = [d \in Clients |->
                      {IF IsPrefix(source, p) THEN Rebase(p, source, destination)
                                              ELSE p : p \in temp[d]}]
        /\ Goes(c, "renamed")
        /\ UNCHANGED <<created, lockVars, req, copies, requests, quiet>>

MoveLocksOfSourceOnly(c) ==
    /\ pc[c] = "renamed"
    /\ locks' = IF req[c].target \in DOMAIN locks
                THEN Put(Without(locks, req[c].target), req[c].destination,
                         locks[req[c].target])
                ELSE locks
    /\ Ends(c)
    /\ UNCHANGED <<treeVars, owner, temp, copies, requests, quiet>>
MoveLocks(c) ==
    /\ pc[c] = "renamed"
    /\ locks' = Moved(locks, req[c].target, req[c].destination)
    /\ Ends(c)
    /\ UNCHANGED <<treeVars, owner, temp, copies, requests, quiet>>

(* copy_path, one directory or file at a time.                             *)
Copies(c) ==
    /\ pc[c] = "copy"
    /\ \E pair \in copies[c] :
         LET source == pair[1]
             destination == pair[2]
             inside == IF IsDir(source)
                       THEN {<<p, Rebase(p, source, destination)>> :
                                p \in Children(source)}
                       ELSE {}
         IN  /\ Exists(source)
             /\ ParentIsDir(destination)
             /\ IF IsDir(source) THEN ~Exists(destination)
                                 ELSE ~IsDir(destination)
             /\ IF Exists(destination)
                THEN UNCHANGED treeVars
                ELSE /\ tree' = Put(tree, destination, NewNode(IsDir(source)))
                     /\ created' = created + 1
             /\ copies' = [copies EXCEPT ![c] = (@ \ {pair}) \cup inside]
    /\ IF copies'[c] = {} THEN Ends(c) ELSE UNCHANGED <<pc, req>>
    /\ UNCHANGED <<lockVars, temp, requests, quiet>>

(* An operation fails, a body ends early, or Decide refuses: the request   *)
(* ends where it is, without its temporary file.  (One that a MOVE carried *)
(* away stays there in fact; nothing looks at it again.)                   *)
FailsLeavingTemp(c) ==
    /\ pc[c] \notin {"idle", "renamed"}
    /\ Ends(c)
    /\ copies' = [copies EXCEPT ![c] = {}]
    /\ UNCHANGED <<treeVars, lockVars, temp, requests, quiet>>
Fails(c) ==
    /\ pc[c] \notin {"idle", "renamed"}
    /\ Ends(c)
    /\ temp' = [temp EXCEPT ![c] = {}]
    /\ copies' = [copies EXCEPT ![c] = {}]
    /\ UNCHANGED <<treeVars, lockVars, requests, quiet>>

-----------------------------------------------------------------------------
(* lock, when it grants a new one.  The resource need not exist.           *)
LockBelow(c, p) ==
    /\ Arrives(c)
    /\ ParentIsDir(p)
    /\ Len(owner) < MaxLocks
    /\ \A q \in DOMAIN locks : ~IsPrefix(q, p)
    /\ locks' = Put(locks, p, [token |-> Len(owner) + 1,
                               on |-> IF Exists(p) THEN tree[p].id ELSE Nothing])
    /\ owner' = Append(owner, c)
    /\ UNCHANGED <<treeVars, pc, req, temp, copies>>
Lock(c, p) ==
    /\ Arrives(c)
    /\ ParentIsDir(p)
    /\ Len(owner) < MaxLocks
    /\ \A q \in DOMAIN locks : ~Overlap(p, q)
    /\ locks' = Put(locks, p, [token |-> Len(owner) + 1,
                               on |-> IF Exists(p) THEN tree[p].id ELSE Nothing])
    /\ owner' = Append(owner, c)
    /\ UNCHANGED <<treeVars, pc, req, temp, copies>>

(* unlock, with a token that matches.                                      *)
Unlock(c, p) ==
    /\ Arrives(c)
    /\ ParentIsDir(p)
    /\ p \in DOMAIN locks
    /\ locks[p].token \in Tokens(c)
    /\ locks' = Without(locks, p)
    /\ UNCHANGED <<treeVars, owner, pc, req, temp, copies>>

(* prune_locks.                                                            *)
Expire(p) ==
    /\ p \in DOMAIN locks
    /\ locks' = Without(locks, p)
    /\ UNCHANGED <<treeVars, owner, pc, req, temp, copies, requests, quiet>>

-----------------------------------------------------------------------------
Checks(c, presents) ==
    \E p \in Paths :
        \/ PutChecks(c, p, presents)
        \/ MkcolChecks(c, p, presents)
        \/ DeleteChecks(c, p, presents)
        \/ \E d \in Paths, op \in {"MOVE", "COPY"}, overwrite \in BOOLEAN :
             MoveOrCopyChecks(c, op, p, d, overwrite, presents)

Writes(c) == PutEnds(c) \/ MkcolEnds(c) \/ Removes(c) \/ Rename(c) \/ Copies(c)

DavNext ==
    \/ \E c \in Clients :
         \/ \E presents \in {{}, Tokens(c)} : Checks(c, presents)
         \/ Writes(c) \/ Decide(c) \/ MoveLocks(c) \/ Fails(c)
         \/ \E p \in Paths : Lock(c, p) \/ Unlock(c, p)
    \/ \E p \in DOMAIN locks : Expire(p)

DavSpec == DavInit /\ [][DavNext]_davVars

-----------------------------------------------------------------------------
(* Properties.                                                             *)

Node == [dir : BOOLEAN, id : 1..created]

DavTypeOK ==
    /\ \A p \in DOMAIN tree : p \in Seq(STRING) \ {<<>>} /\ tree[p] \in Node
    /\ \A p \in DOMAIN tree : ParentIsDir(p)
    /\ \A p \in DOMAIN locks : /\ p \in Seq(STRING) \ {<<>>}
                               /\ locks[p].token \in DOMAIN owner
                               /\ locks[p].on \in 0..created
    /\ owner \in Seq(Clients) /\ Len(owner) <= MaxLocks
    /\ \A c \in Clients :
         /\ pc[c] = "idle" <=> req[c] = NoRequest
         /\ temp[c] # {} => pc[c] = "body"
         /\ copies[c] # {} <=> pc[c] = "copy"
    /\ requests \in 0..MaxRequests
    /\ quiet \in BOOLEAN

(* A write lands under a lock its request does not present only if that    *)
(* lock came there, by a LOCK or a MOVE, after the request was checked: the*)
(* one check covers every path below the target, and the destination that  *)
(* a MOVE or COPY clears first (dav.rs:449).                               *)
LocksRespected ==
    [][\A c \in Clients :
         Writes(c) =>
           \A p \in DOMAIN tree \cup DOMAIN tree' :
             \/ p \in DOMAIN tree \cap DOMAIN tree' /\ tree[p] = tree'[p]
             \/ \A q \in DOMAIN locks :
                  IsPrefix(q, p) =>
                    \/ locks[q].token \in req[c].presents
                    \/ <<q, locks[q].token>> \notin req[c].seen]_davVars

(* As long as requests do not overlap in time, no two clients hold locks   *)
(* that cover one path, though a MOVE carries locks into a tree that has   *)
(* locks of its own (dav.rs:811).                                          *)
LocksExclude ==
    quiet => \A p, q \in DOMAIN locks :
               Overlap(p, q) => owner[locks[p].token] = owner[locks[q].token]

(* As long as requests do not overlap in time, a lock is on the resource it*)
(* was granted for or on one that took its place: that resource is at no   *)
(* other path, wherever MOVE put it or its parent.                         *)
LocksFollow ==
    quiet /\ (\A c \in Clients : pc[c] # "renamed") =>
        \A p \in DOMAIN locks, q \in DOMAIN tree :
            tree[q].id = locks[p].on => p = q

(* The tree is one and what a request holds is its own (DavTypeOK), and the*)
(* lock table agrees with itself and with the tree.                        *)
LocksAgree == DavTypeOK /\ LocksExclude /\ LocksFollow
=============================================================================
