------------------------------ MODULE ConfigFile ------------------------------
(***************************************************************************)
(* The file ii.toml, where every command that uses a storage profile and   *)
(* the GUI keep all profiles of a machine, and the key files that belong   *)
(* to it.  A command loads the whole file, may prompt, sends or receives,  *)
(* and, if that succeeded and something was new, writes the whole file     *)
(* back; the GUI loads it once and writes its copy at every change.        *)
(* Nothing locks the file, and std::fs::write empties it before it writes: *)
(* two steps, and everything in between belongs to somebody else.          *)
(***************************************************************************)
EXTENDS Profiles

CONSTANTS Sessions,     (* commands that use a profile, one run each       *)
          Gui,          (* the GUI's process                               *)
          Uses,         (* the slots each session may use                  *)
          Names,        (* names of the profiles of each kind              *)
          Default,      (* the name "default"                              *)
          KeyFile,      (* safe_profile_component: name to key file        *)
          Handwritten,  (* contents the file may have at the start         *)
          MaxSaves,     (* bound: saves and deletions in the GUI           *)
          MaxFaults     (* bound: saves that fail or are cut off           *)

ASSUME GuiAssumption == Gui \notin Sessions
ASSUME BoundsAssumption == MaxSaves \in Nat /\ MaxFaults \in Nat

Processes == Sessions \cup {Gui}
Slots == UNION {{k} \X Names[k] : k \in Kinds}
NoSlot == <<"none", "none">>
Nothing == [slot \in Slots |-> NoProfile]

(* What is written by hand has the shape the file's deserialization wants, *)
(* and nothing in it comes from a ticket.                                  *)
ASSUME HandwrittenAssumption ==
    \A c \in Handwritten :
        /\ DOMAIN c = Slots
        /\ \A slot \in Slots :
              LET p == c[slot]
              IN  p # NoProfile => /\ DOMAIN p = Fields(slot[1])
                                   /\ p.kind = slot[1]
                                   /\ \A f \in DOMAIN p : p[f] \notin Tickets

VARIABLES
    stored,     (* the profiles in the file; an empty file holds Nothing   *)
    parses,     (* whether the file is TOML at all                         *)
    keys,       (* key file to the ticket whose key it holds, or "none"    *)
    pc,         (* where a process is                                      *)
    mem,        (* what it has in memory (see NoMemory)                    *)
    saves, faults,
    refused,    (* history: commands that refused a profile as incomplete  *)
    written,    (* history: the contents when they were written last       *)
    astray,     (* history: processes whose next save may change more than *)
                (* their user means                                        *)
    orderly     (* history: no save has gone astray or been cut off        *)

fileVars == <<stored, parses, written>>
vars == <<fileVars, keys, pc, mem, saves, faults, refused, astray, orderly>>

(* The configuration, the slot the user means, save_after_success, the     *)
(* profile an SFTP ticket carries; the provider in the GUI's editor, and   *)
(* what it will be once the save has succeeded.                            *)
NoMemory == [copy |-> Nothing, meant |-> NoSlot, save |-> FALSE,
             carried |-> NoProfile, provider |-> Own, then |-> Own]

-----------------------------------------------------------------------------
Init == /\ stored \in Handwritten
        /\ parses = TRUE
        /\ written = stored
        /\ keys = [f \in {KeyFile[n] : n \in Names["sftp"]} |-> "none"]
        /\ pc = [p \in Processes |-> "idle"]
        /\ mem = [p \in Processes |-> NoMemory]
        /\ saves = 0 /\ faults = 0
        /\ refused = {}
        /\ astray = {}
        /\ orderly = TRUE

(* A copy taken while somebody else has emptied the file is not what was   *)
(* written last.                                                           *)
Loads(p) == astray' = IF stored = written THEN astray \ {p} ELSE astray \cup {p}

Exits(p) == mem' = [mem EXCEPT ![p] = NoMemory]

Ends(s) ==
    /\ pc' = [pc EXCEPT ![s] = "done"]
    /\ Exits(s)
    /\ astray' = astray \ {s}

-----------------------------------------------------------------------------
(* The start of a command.  LoadFails: load_config meets what is not TOML. *)

Starts(s, slot) ==
    /\ pc[s] = "idle"
    /\ slot \in Uses[s]

LoadFails(s) ==
    /\ ~parses
    /\ Ends(s)

Works(s, m) ==
    /\ pc' = [pc EXCEPT ![s] = "working"]
    /\ mem' = [mem EXCEPT ![s] = m]

(* A profile of the configuration, with the prompts that complete it.      *)
Selects(s, slot, outcomes) ==
    /\ parses
    /\ \E o \in outcomes :
          \/ /\ o.result = "ready"
             /\ Works(s, [NoMemory EXCEPT !.copy = [stored EXCEPT ![slot] = o.profile],
                                          !.meant = slot, !.save = o.save])
             /\ Loads(s)
             /\ UNCHANGED refused
          \/ /\ o.result # "ready"
             /\ Ends(s)
             /\ refused' = IF o.result = "incomplete" THEN refused \cup {s} ELSE refused

Unaffected == UNCHANGED <<fileVars, keys, saves, faults, orderly>>

WithProfile(s, slot, outcomes) ==
    /\ Starts(s, slot)
    /\ (LoadFails(s) /\ UNCHANGED refused) \/ Selects(s, slot, outcomes)
    /\ Unaffected

InsertsTicketAlone(s, slot, p) ==
    /\ parses
    /\ Works(s, [NoMemory EXCEPT !.copy = [Nothing EXCEPT ![slot] = p],
                                 !.meant = slot, !.save = TRUE])
    /\ Loads(s)
(* A profile from a portable ticket is put into the copy at once.          *)
InsertsTicket(s, slot, p) ==
    /\ parses
    /\ Works(s, [NoMemory EXCEPT !.copy = [stored EXCEPT ![slot] = p],
                                 !.meant = slot, !.save = TRUE])
    /\ Loads(s)

RefusesTicket(s, p) == ~Taken(p) /\ Ends(s)

WithTicket(s, slot, p) ==
    /\ Starts(s, slot)
    /\ LoadFails(s) \/ RefusesTicket(s, p) \/ (Taken(p) /\ InsertsTicket(s, slot, p))
    /\ UNCHANGED refused
    /\ Unaffected

LegacyR2(slot) ==
    /\ slot[2] = Default
    /\ stored[slot] = NoProfile
    /\ \E other \in Slots : IsLegacy(stored[other])

SendS3(s, n, terminal) ==
    LET slot == <<"s3", n>>
    IN  WithProfile(s, slot, LoadS3(stored[slot], LegacyR2(slot), terminal))

SendR2(s, n, terminal) ==
    LET slot == <<"r2", n>>
    IN  WithProfile(s, slot, LoadR2(stored[slot], terminal))

SendAzure(s, n, terminal) ==
    LET slot == <<"azure", n>>
    IN  WithProfile(s, slot, LoadAzure(stored[slot], terminal))

SendWebDav(s, n, terminal) ==
    LET slot == <<"webdav", n>>
    IN  WithProfile(s, slot, LoadWebDav(stored[slot], terminal))

SendFtp(s, n, terminal) ==
    LET slot == <<"ftp", n>>
    IN  WithProfile(s, slot, LoadFtp(stored[slot], terminal))

SendSftp(s, n, terminal) ==
    LET slot == <<"sftp", n>>
    IN  WithProfile(s, slot, LoadSftp(stored[slot], terminal))

(* recv, and the deletion that follows a skipped download                  *)
(* (try_delete_*_for_ticket): the profile is the ticket's own, or the one  *)
(* it names.                                                               *)
RecvWebDav(s, n) ==
    LET slot == <<"webdav", n>>
    IN  \/ \E t \in Tickets : \E p \in WebDavFrom(t) : WithTicket(s, slot, p)
        \/ \E terminal \in BOOLEAN :
              WithProfile(s, slot, LoadWebDav(stored[slot], terminal))

RecvFtp(s, n) ==
    LET slot == <<"ftp", n>>
    IN  \/ \E t \in Tickets : \E p \in FtpFrom(t) : WithTicket(s, slot, p)
        \/ \E terminal \in BOOLEAN :
              WithProfile(s, slot, LoadFtp(stored[slot], terminal))

(* For SFTP the file is loaded only when the work is done (KeepsKey).      *)
SftpTicket(s, slot) ==
    /\ Starts(s, slot)
    /\ \E t \in Tickets : \E p \in SftpFrom(t) :
          \/ RefusesTicket(s, p)
          \/ /\ Taken(p)
             /\ Works(s, [NoMemory EXCEPT !.meant = slot, !.carried = p])
             /\ UNCHANGED astray
    /\ UNCHANGED refused
    /\ Unaffected

RecvSftp(s, n) ==
    LET slot == <<"sftp", n>>
    IN  \/ SftpTicket(s, slot)
        \/ \E terminal \in BOOLEAN :
              WithProfile(s, slot, LoadSftp(stored[slot], terminal))
-----------------------------------------------------------------------------
(* The end of a command: the transfer fails, or it succeeds and there is   *)
(* nothing to save, or the file is opened, and thereby emptied.            *)

Fails(s) ==
    /\ pc[s] = "working"
    /\ Ends(s)
    /\ UNCHANGED <<fileVars, keys, saves, faults, refused, orderly>>

Done(s) ==
    /\ pc[s] = "working"
    /\ ~mem[s].save
    /\ mem[s].carried = NoProfile
    /\ Ends(s)
    /\ UNCHANGED <<fileVars, keys, saves, faults, refused, orderly>>

WritesKeyOnce(s) ==
    LET p == mem[s].carried
        file == KeyFile[mem[s].meant[2]]
    IN  keys' = IF p.auth = "private-key" /\ keys[file] = "none"
                THEN [keys EXCEPT ![file] = p.private_key_path] ELSE keys
(* portable_sftp_config, once the transfer has succeeded: the file is      *)
(* loaded, the key file is written, and the copy names it.                 *)
WritesKey(s) ==
    LET p == mem[s].carried
    IN  keys' = IF p.auth = "private-key"
                THEN [keys EXCEPT ![KeyFile[mem[s].meant[2]]] = p.private_key_path]
                ELSE keys

KeepsKey(s) ==
    /\ pc[s] = "working"
    /\ mem[s].carried # NoProfile
    /\ \/ LoadFails(s) /\ UNCHANGED keys
       \/ /\ parses
          /\ Loads(s)
          /\ mem' = [mem EXCEPT ![s].copy = [stored EXCEPT ![mem[s].meant] = mem[s].carried]]
          /\ WritesKey(s)
          /\ pc' = [pc EXCEPT ![s] = "keyed"]
    /\ UNCHANGED <<fileVars, saves, faults, refused, orderly>>

(* save_config, first half: create or empty the file.                      *)
MaySave(p) == \/ p \in Sessions /\ pc[p] = "working" /\ mem[p].save
              \/ p \in Sessions /\ pc[p] = "keyed"
              \/ p = Gui /\ pc[p] = "saving"

OpensToOverwrite(p) ==
    /\ MaySave(p)
    /\ pc' = [pc EXCEPT ![p] = "opened"]
    /\ UNCHANGED <<stored, parses, written, keys, mem, saves, faults, refused,
                   astray, orderly>>
OpensFile(p) ==
    /\ MaySave(p)
    /\ stored' = Nothing
    /\ parses' = TRUE
    /\ pc' = [pc EXCEPT ![p] = "opened"]
    /\ UNCHANGED <<written, keys, mem, saves, faults, refused, astray,
                   orderly>>

(* Second half: write the copy from the start of the file.  If somebody    *)
(* else has written since, the tail of a longer text stays behind it.  The *)
(* GUI goes on with what its editor shows afterwards.                      *)
AfterSave(p, provider) ==
    IF p = Gui THEN /\ pc' = [pc EXCEPT ![Gui] = "open"]
                    /\ mem' = [mem EXCEPT ![Gui].provider = provider]
               ELSE pc' = [pc EXCEPT ![p] = "done"] /\ Exits(p)

Active == {p \in Processes : pc[p] \notin {"idle", "done"}}

WritesFile(p) ==
    /\ pc[p] = "opened"
    /\ stored' = mem[p].copy
    /\ parses' \in IF stored \in {Nothing, mem[p].copy} THEN {TRUE} ELSE BOOLEAN
    /\ written' = stored'
    /\ orderly' = (orderly /\ p \notin astray)
    /\ astray' = IF parses' /\ stored = Nothing THEN Active \ {p} ELSE Active
    /\ AfterSave(p, mem[p].then)
    /\ UNCHANGED <<keys, saves, faults, refused>>

(* A save fails half-way (disk full, no permission), or its process is     *)
(* killed; before the save has begun that is Fails.  The GUI may go on,    *)
(* with a copy that holds what it could not save.                          *)
CutOff(p) ==
    /\ pc[p] \in {"keyed", "saving", "opened"}
    /\ faults < MaxFaults
    /\ faults' = faults + 1
    /\ orderly' = (orderly /\ pc[p] = "saving")
    /\ IF pc[p] = "opened" THEN written' = stored /\ astray' = Active
       ELSE /\ UNCHANGED written
            /\ astray' = IF p = Gui THEN astray \cup {p} ELSE astray
    /\ UNCHANGED <<stored, parses, keys, saves, refused>>

SaveFails(p) == CutOff(p) /\ AfterSave(p, mem[p].provider)

GuiKilled ==
    /\ CutOff(Gui)
    /\ pc' = [pc EXCEPT ![Gui] = "idle"]
    /\ Exits(Gui)

GuiCloses ==
    /\ pc[Gui] = "open"
    /\ pc' = [pc EXCEPT ![Gui] = "idle"]
    /\ Exits(Gui)
    /\ astray' = astray \ {Gui}
    /\ UNCHANGED <<fileVars, keys, saves, faults, refused, orderly>>

-----------------------------------------------------------------------------
(* The GUI: main, the profile handlers of install_profile_handlers.        *)

GuiKinds == <<"s3", "webdav", "tls">>

GuiOpens ==
    /\ pc[Gui] = "idle"
    /\ parses
    /\ pc' = [pc EXCEPT ![Gui] = "open"]
    /\ mem' = [mem EXCEPT ![Gui] = [NoMemory EXCEPT !.copy = stored]]
    /\ Loads(Gui)
    /\ UNCHANGED <<fileVars, keys, saves, faults, refused, orderly>>

(* A click on a row calls select_profile with the row's name, and          *)
(* populate_profile_editor shows the first kind that knows the name.       *)
Shown(config, n) ==
    LET known == {i \in DOMAIN GuiKinds : /\ n \in Names[GuiKinds[i]]
                                          /\ config[<<GuiKinds[i], n>>] # NoProfile}
    IN  <<GuiKinds[CHOOSE i \in known : \A j \in known : i <= j], n>>

(* The providers the editor may show: that of a new profile, that of one   *)
(* the user selected (populate_profile_editor), or what was there before.  *)
(* What the user picks instead is like Own to LoadS3.                      *)
Providers(m) ==
    {Own, m.provider}
    \cup {m.copy[slot].provider : slot \in {x \in Slots : m.copy[x].kind = "s3"}}

(* save_profile_from_window: what the user typed, if it validates, goes    *)
(* into the copy, and the whole copy into the file.                        *)
Typed(k, provider) ==
    LET new == CASE k = "s3" -> [Defaults(EmptyS3, DOMAIN EmptyS3)
                                    EXCEPT !.provider = provider]
                 [] k = "webdav" -> Defaults(EmptyWebDav, DOMAIN EmptyWebDav)
                 [] k = "tls" -> [kind |-> "tls", url |-> Own]
        address == IF k = "s3" THEN "endpoint" ELSE "url"
    IN  {new, [new EXCEPT ![address] = Bad], [new EXCEPT ![address] = Blank]}

Edits(slot, changed, p, provider, then) ==
    mem' = [mem EXCEPT ![Gui].copy[changed] = p, ![Gui].meant = slot,
                       ![Gui].provider = provider, ![Gui].then = then]

SaveUnchecked(slot) ==
    /\ pc[Gui] = "open"
    /\ saves < MaxSaves
    /\ saves' = saves + 1
    /\ \E v \in Providers(mem[Gui]) : \E p \in Typed(slot[1], v) : Edits(slot, slot, p, v, v)
    /\ pc' = [pc EXCEPT ![Gui] = "saving"]
    /\ UNCHANGED <<fileVars, keys, faults, refused, astray, orderly>>
SaveProfile(slot) ==
    /\ pc[Gui] = "open"
    /\ saves < MaxSaves
    /\ saves' = saves + 1
    /\ \E v \in Providers(mem[Gui]) : \E p \in Typed(slot[1], v) :
          /\ Valid(p)
          /\ Edits(slot, slot, p, v, v)
    /\ pc' = [pc EXCEPT ![Gui] = "saving"]
    /\ UNCHANGED <<fileVars, keys, faults, refused, astray, orderly>>

(* The user selects slot and deletes; what goes is what the editor shows,  *)
(* which is reset if the save succeeds.                                    *)
DeleteProfile(slot) ==
    /\ pc[Gui] = "open"
    /\ mem[Gui].copy[slot] # NoProfile
    /\ saves < MaxSaves
    /\ saves' = saves + 1
    /\ LET shown == Shown(mem[Gui].copy, slot[2])
           p == mem[Gui].copy[shown]
       IN  /\ Edits(slot, shown, NoProfile, IF p.kind = "s3" THEN p.provider ELSE Own, Own)
           /\ astray' = IF shown = slot THEN astray ELSE astray \cup {Gui}
    /\ pc' = [pc EXCEPT ![Gui] = "saving"]
    /\ UNCHANGED <<fileVars, keys, faults, refused, orderly>>

-----------------------------------------------------------------------------
SessionNext(s) ==
    \/ \E n \in Names["s3"], terminal \in BOOLEAN : SendS3(s, n, terminal)
    \/ \E n \in Names["r2"], terminal \in BOOLEAN : SendR2(s, n, terminal)
    \/ \E n \in Names["azure"], terminal \in BOOLEAN : SendAzure(s, n, terminal)
    \/ \E n \in Names["webdav"], terminal \in BOOLEAN : SendWebDav(s, n, terminal)
    \/ \E n \in Names["ftp"], terminal \in BOOLEAN : SendFtp(s, n, terminal)
    \/ \E n \in Names["sftp"], terminal \in BOOLEAN : SendSftp(s, n, terminal)
    \/ \E n \in Names["webdav"] : RecvWebDav(s, n)
    \/ \E n \in Names["ftp"] : RecvFtp(s, n)
    \/ \E n \in Names["sftp"] : RecvSftp(s, n)
    \/ Fails(s) \/ Done(s) \/ KeepsKey(s)

GuiSlots == {slot \in Slots : slot[1] \in {"s3", "webdav", "tls"}}

GuiNext ==
    \/ GuiOpens \/ GuiCloses \/ GuiKilled
    \/ \E slot \in GuiSlots : SaveProfile(slot) \/ DeleteProfile(slot)

Next == \/ \E s \in Sessions : SessionNext(s)
        \/ GuiNext
        \/ \E p \in Processes : OpensFile(p) \/ WritesFile(p) \/ SaveFails(p)

Spec == Init /\ [][Next]_vars

-----------------------------------------------------------------------------
(* Types.                                                                  *)
TypeOK ==
    /\ parses \in BOOLEAN
    /\ \A slot \in Slots : /\ stored[slot].kind \in {"none", slot[1]}
                           /\ written[slot].kind \in {"none", slot[1]}
    /\ pc \in [Processes -> {"idle", "working", "keyed", "saving", "open",
                             "opened", "done"}]
    /\ DOMAIN mem = Processes
    /\ \A p \in Processes : /\ mem[p].meant \in Slots \cup {NoSlot}
                            /\ mem[p].save \in BOOLEAN
                            /\ mem[p].carried.kind \in {"none", "sftp"}
    /\ refused \subseteq Sessions
    /\ astray \subseteq Processes

(* A save changes the slot its user meant and no other: profiles are lost, *)
(* changed, or come back only through another save since the copy was      *)
(* taken (whose writer is told nothing), a copy taken of an emptied file,  *)
(* a save of the GUI that failed before, or a name that two kinds share.   *)
OtherProfilesKept ==
    [][\A p \in Processes :
          (pc[p] = "opened" /\ pc'[p] # "opened" /\ faults' = faults
             /\ p \notin astray)
             => \A slot \in Slots \ {mem[p].meant} : written'[slot] = written[slot]]_vars

(* The file is what was written last, whole, unless a save is under way or *)
(* two were under way at once.                                             *)
FileIsWhole ==
    (\A p \in Processes : pc[p] # "opened")
        => (stored = written /\ (~parses => ~orderly))

(* What a command or the GUI puts into the file can be used as it is: no   *)
(* save makes a profile incomplete or malformed, or one that `ii send --s3`*)
(* refuses (profiles.rs:78), and only one that has gone astray brings back *)
(* what the user wrote by hand.  With two exceptions: the GUI hands on the *)
(* provider of a legacy profile that is in the file (main.rs:863, 923), and*)
(* a WebDAV ticket's user name and password are stored unread, though they *)
(* be blank (webdav.rs:275).                                               *)
SavesAreUsable ==
    [][orderly' => \A slot \in Slots :
          LET p == written'[slot]
          IN  \/ p \in {NoProfile, written[slot]}
              \/ /\ Valid(p)
                 /\ IsLegacy(p) => \E other \in Slots : IsLegacy(written[other])
              \/ \E t \in Tickets : p \in WebDavFrom(t) /\ Taken(p)]_vars

(* What is prompted for is what is needed: once every prompt is answered,  *)
(* a profile can only be refused for something malformed.                  *)
OnlyMalformedFails ==
    refused = {}

(* A stored SFTP profile that came with a ticket finds the key of that     *)
(* ticket in its key file, unless two names share the file, or a save was  *)
(* cut off or went astray.                                                 *)
KeyFits ==
    \A n \in Names["sftp"] :
        LET p == written[<<"sftp", n>>]
            shared == \E other \in Names["sftp"] \ {n} : KeyFile[other] = KeyFile[n]
            changing == \E s \in Sessions : /\ mem[s].meant = <<"sftp", n>>
                                            /\ pc[s] \in {"keyed", "opened"}
        IN  (orderly /\ ~shared /\ ~changing /\ p # NoProfile)
               => (p.auth = "private-key" /\ p.private_key_path \in Tickets
                     => keys[KeyFile[n]] = p.private_key_path)

(* What is on disk has its types and agrees with itself.                   *)
DiskAgrees == TypeOK /\ FileIsWhole /\ KeyFits
=============================================================================
