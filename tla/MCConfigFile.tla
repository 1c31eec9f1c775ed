----------------------------- MODULE MCConfigFile -----------------------------
(* Two commands and the GUI on one ii.toml.                                *)
EXTENDS ConfigFile, TLC

CONSTANTS s1, s2, gui, t1, t2

Symmetry == Permutations(Tickets)

MCUses ==
    s1 :> {<<k, "default">> : k \in Kinds \ {"tls"}} \cup {<<"sftp", "a/b">>, <<"s3", "old">>}
    @@ s2 :> {<<"sftp", "default">>}

MCNames == [k \in Kinds |-> CASE k = "sftp" -> {"default", "a/b"}
                               [] k = "s3" -> {"default", "old"}
                               [] OTHER -> {"default"}]

MCKeyFile == "default" :> "default.key" @@ "a/b" :> "a_b.key"

Only(k, p) == [Nothing EXCEPT ![<<k, "default">>] = p]
Filled(p) == Defaults(p, DOMAIN p)

(* An empty file, and one with the GUI's kinds under one name (of them a   *)
(* legacy R2 profile), and with profiles that are incomplete or malformed. *)
MCHandwritten ==
    {Nothing,
     [Only("webdav", Filled(EmptyWebDav)) EXCEPT
         ![<<"s3", "old">>] = [Filled(EmptyS3) EXCEPT !.provider = Legacy],
         ![<<"tls", "default">>] = [kind |-> "tls", url |-> Own],
         ![<<"ftp", "default">>] = [EmptyFtp EXCEPT !.url = Bad],
         ![<<"azure", "default">>] = [EmptyAzure EXCEPT !.auth = "sas"],
         ![<<"sftp", "default">>] = [EmptySftp EXCEPT !.auth = "private-key"]]}
===============================================================================
