------------------------------- MODULE Profiles -------------------------------
(***************************************************************************)
(* The stored profiles of storage/model.rs as values, and what             *)
(* storage/profiles.rs does with one of them when a command wants to use   *)
(* it: fill in defaults, find out what is missing, prompt for it, validate *)
(* the result.  A field is Blank, Bad (filled with what its parser         *)
(* refuses), Own (well-formed, typed by the user) or the ticket it came    *)
(* from; a provider may also be Legacy.  Fields that no check of a profile *)
(* refuses (S3's account_id, ports, TTLs, the style of addressing, the     *)
(* passphrase) are left out, and with them that a TTL of 0 is replaced on  *)
(* loading, as a blank prefix is.                                          *)
(***************************************************************************)
EXTENDS Naturals, FiniteSets

CONSTANT Tickets   (* tickets that carry a profile (--portable-webdav)     *)

Blank == "blank"
Bad == "bad"
Own == "own"
Legacy == "cloudflare-r2"

ASSUME TicketsAssumption == Tickets \cap {Blank, Bad, Own, Legacy, "none"} = {}

Kinds == {"s3", "r2", "azure", "webdav", "ftp", "sftp", "tls"}

NoProfile == [kind |-> "none"]

(* The fields some parser reads: URLs, the host, the key file, the token.  *)
Parsed == {"endpoint", "url", "host", "private_key_path", "sas_token"}

Lacking(p, fields) == {f \in fields : p[f] = Blank}
Malformed(p) == \E f \in DOMAIN p : p[f] = Bad

(* prompt_line and prompt_optional_line: what p can be once the user has   *)
(* answered for its blank fields among asked.                              *)
Prompted(p, asked) ==
    LET blank == Lacking(p, asked)
    IN  {[f \in DOMAIN p |-> IF f \in bad THEN Bad
                             ELSE IF f \in blank THEN Own ELSE p[f]] :
            bad \in SUBSET (blank \cap Parsed)}

Defaults(p, fields) ==
    [f \in DOMAIN p |-> IF f \in fields /\ p[f] = Blank THEN Own ELSE p[f]]

-----------------------------------------------------------------------------
(* S3.                                                                     *)

EmptyS3 == [kind |-> "s3", provider |-> Own, endpoint |-> Blank, region |-> Own,
            bucket |-> Blank, access_key_id |-> Blank,
            secret_access_key |-> Blank, prefix |-> Own]

MissingS3(p) == Lacking(p, {"endpoint", "region", "bucket", "access_key_id",
                            "secret_access_key"})

PromptS3(p) == Prompted(p, {"endpoint", "bucket", "access_key_id",
                            "secret_access_key"})

ValidS3(p) ==
    /\ Lacking(p, {"endpoint", "bucket", "access_key_id", "secret_access_key"}) = {}
    /\ p.endpoint # Bad

-----------------------------------------------------------------------------
(* Cloudflare R2.                                                          *)

EmptyR2 == [kind |-> "r2", account_id |-> Blank, bucket |-> Blank,
            access_key_id |-> Blank, secret_access_key |-> Blank, prefix |-> Own]

MissingR2(p) == Lacking(p, {"account_id", "bucket", "access_key_id",
                            "secret_access_key"})

PromptR2(p) == Prompted(p, {"account_id", "bucket", "access_key_id",
                            "secret_access_key"})

ValidR2(p) == Lacking(p, {"account_id", "bucket", "access_key_id",
                          "secret_access_key"}) = {}

-----------------------------------------------------------------------------
(* Azure.  The secret that is needed depends on auth, which is asked for   *)
(* only when the profile is new.  The endpoint is optional: Blank for the  *)
(* provider's own.                                                         *)

EmptyAzure == [kind |-> "azure", auth |-> "shared-key", account_name |-> Blank,
               container |-> Blank, endpoint |-> Blank, account_key |-> Blank,
               sas_token |-> Blank, prefix |-> Own]

AzureSecret(p) == IF p.auth = "sas" THEN "sas_token" ELSE "account_key"

MissingAzure(p) == Lacking(p, {"account_name", "container", AzureSecret(p)})

PromptAzure(p, new) ==
    LET auths == IF new THEN {"shared-key", "sas"} ELSE {p.auth}
        chosen == {[p EXCEPT !.auth = a] : a \in auths}
        Ask(q) == Prompted(q, {"account_name", "container", AzureSecret(q)})
    IN  UNION {Ask(q) \cup UNION {Prompted(r, {"endpoint"}) : r \in Ask(q)} :
                  q \in chosen}

ValidAzure(p) ==
    /\ MissingAzure(p) = {}
    /\ p.endpoint # Bad
    /\ p.auth = "sas" => p.sas_token # Bad

-----------------------------------------------------------------------------
(* WebDAV and FTP.                                                         *)

EmptyWebDav == [kind |-> "webdav", url |-> Blank, username |-> Blank,
                password |-> Blank, remote_dir |-> Own]

MissingWebDav(p) == Lacking(p, {"url", "username", "password"})

PromptWebDav(p) == Prompted(p, {"url", "username", "password"})

ValidWebDav(p) ==
    /\ Lacking(p, {"url", "username", "password"}) = {}
    /\ p.url # Bad

EmptyFtp == [EmptyWebDav EXCEPT !.kind = "ftp"]

MissingFtp(p) == Lacking(p, {"url", "username", "password"})

PromptFtp(p) == Prompted(p, {"url", "username", "password"})

ValidFtp(p) == MissingFtp(p) = {} /\ p.url # Bad

-----------------------------------------------------------------------------
(* SFTP.  As with Azure, auth is asked for only when the profile is new,   *)
(* and decides which secret is needed.                                     *)

EmptySftp == [kind |-> "sftp", auth |-> "password", host |-> Blank,
              username |-> Blank, password |-> Blank,
              private_key_path |-> Blank, remote_dir |-> Own]

SftpSecret(p) == IF p.auth = "private-key" THEN "private_key_path" ELSE "password"

MissingSftp(p) == Lacking(p, {"host", "username", SftpSecret(p)})

PromptSftpOldAuth(p, new) == Prompted(p, {"host", "username", "password"})
PromptSftp(p, new) ==
    LET auths == IF new THEN {"password", "private-key"} ELSE {p.auth}
        chosen == {[p EXCEPT !.auth = a] : a \in auths}
    IN  UNION {Prompted(q, {"host", "username", SftpSecret(q)}) : q \in chosen}

ValidSftp(p) ==
    /\ MissingSftp(p) = {}
    /\ p.host # Bad
    /\ p.auth = "private-key" => p.private_key_path # Bad

-----------------------------------------------------------------------------
(* The relay profiles of the GUI (RelayProfile), and any profile.          *)

Fields(k) == CASE k = "s3" -> DOMAIN EmptyS3
               [] k = "r2" -> DOMAIN EmptyR2
               [] k = "azure" -> DOMAIN EmptyAzure
               [] k = "webdav" -> DOMAIN EmptyWebDav
               [] k = "ftp" -> DOMAIN EmptyFtp
               [] k = "sftp" -> DOMAIN EmptySftp
               [] k = "tls" -> {"kind", "url"}

ValidTls(p) == p.url \notin {Blank, Bad}

Valid(p) ==
    CASE p.kind = "s3" -> ValidS3(p)
      [] p.kind = "r2" -> ValidR2(p)
      [] p.kind = "azure" -> ValidAzure(p)
      [] p.kind = "webdav" -> ValidWebDav(p)
      [] p.kind = "ftp" -> ValidFtp(p)
      [] p.kind = "sftp" -> ValidSftp(p)
      [] p.kind = "tls" -> ValidTls(p)

-----------------------------------------------------------------------------
(***************************************************************************)
(* The outcomes of a load: profile p as found (NoProfile when there is     *)
(* none), q the same with its defaults, missing and prompted what the      *)
(* prompts would ask and yield.  It is saved after success if it was       *)
(* changed or new, hence whenever it is not what was found.  A load that   *)
(* is not from a terminal fails where it would have to ask; one that asks  *)
(* fails on an empty answer.  The result "incomplete" is a validation that *)
(* fails although nothing is malformed.                                    *)
(***************************************************************************)
Outcome(result, p, r) == [result |-> result, profile |-> r, save |-> r # p]

Outcomes(p, q, missing, prompted, terminal) ==
    LET Checked(r) == Outcome(IF Valid(r) THEN "ready"
                              ELSE IF Malformed(r) THEN "failed"
                              ELSE "incomplete", p, r)
    IN  IF missing = {} THEN {Checked(q)}
        ELSE {Outcome("failed", p, q)}
                \cup IF terminal THEN {Checked(r) : r \in prompted} ELSE {}

IsLegacy(p) == p.kind = "s3" /\ p.provider = Legacy

(* A profile of provider cloudflare-r2 is refused, and so is the default   *)
(* name while any such profile exists.                                     *)
LoadS3(p, legacy, terminal) ==
    LET found == IF p = NoProfile THEN EmptyS3 ELSE p
        q == Defaults(found, {"provider", "region", "prefix"})
    IN  IF legacy \/ IsLegacy(found)
        THEN {Outcome("failed", p, found)}
        ELSE Outcomes(p, q, MissingS3(q), PromptS3(q), terminal)

LoadR2(p, terminal) ==
    LET q == Defaults(IF p = NoProfile THEN EmptyR2 ELSE p, {"prefix"})
    IN  Outcomes(p, q, MissingR2(q), PromptR2(q), terminal)

LoadAzure(p, terminal) ==
    LET q == Defaults(IF p = NoProfile THEN EmptyAzure ELSE p, {"prefix"})
    IN  Outcomes(p, q, MissingAzure(q), PromptAzure(q, p = NoProfile), terminal)

LoadWebDav(p, terminal) ==
    LET q == Defaults(IF p = NoProfile THEN EmptyWebDav ELSE p, {"remote_dir"})
    IN  Outcomes(p, q, MissingWebDav(q), PromptWebDav(q), terminal)

LoadFtp(p, terminal) ==
    LET q == Defaults(IF p = NoProfile THEN EmptyFtp ELSE p, {"remote_dir"})
    IN  Outcomes(p, q, MissingFtp(q), PromptFtp(q), terminal)

LoadSftp(p, terminal) ==
    LET q == Defaults(IF p = NoProfile THEN EmptySftp ELSE p, {"remote_dir"})
    IN  Outcomes(p, q, MissingSftp(q), PromptSftp(q, p = NoProfile), terminal)

-----------------------------------------------------------------------------
(* The profiles a portable ticket t may carry: webdav_profile_from_portable*)
(* and its like.  `ii send` issues what it has validated, but a ticket is  *)
(* no more than its text.                                                  *)
Said(t) == {t, Blank}
SaidParsed(t) == {t, Blank, Bad}

WebDavFrom(t) == [kind : {"webdav"}, url : SaidParsed(t), username : Said(t),
                  password : Said(t), remote_dir : {Own}]

FtpFrom(t) == [kind : {"ftp"}, url : SaidParsed(t), username : Said(t),
               password : Said(t), remote_dir : {t}]

(* The key of a ticket is in a file that was made for it.                  *)
SftpFrom(t) ==
    [kind : {"sftp"}, auth : {"password"}, host : SaidParsed(t), username : Said(t),
     password : Said(t), private_key_path : {Blank}, remote_dir : {t}]
    \cup
    [kind : {"sftp"}, auth : {"private-key"}, host : SaidParsed(t), username : Said(t),
     password : {Blank}, private_key_path : {t}, remote_dir : {t}]

(* Which of them are taken: FTP and SFTP ones are validated as any other   *)
(* is, of a WebDAV one nothing but the URL, by build_webdav_client.        *)
Taken(p) == IF p.kind = "webdav" THEN p.url \notin {Blank, Bad} ELSE Valid(p)
=============================================================================
