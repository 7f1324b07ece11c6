------------------------------- MODULE Secrets -------------------------------
(***************************************************************************)
(* users.settings: one JSON document per user with the secrets and the     *)
(* other preferences.  Every writer reads the whole document, changes its  *)
(* part and writes the whole document back; listing the secrets of a       *)
(* workspace also rewrites the documents of its members, when they still   *)
(* hold plaintext.                                                         *)
(***************************************************************************)
EXTENDS Naturals, FiniteSets

CONSTANTS
    Holders, Admins,  \* the members of a workspace; owners and admins of it
    Names, AutoNames, \* names of secrets; the auto-<service>-<n> among them
    SecretValues,     \* values
    SettingsJobs,     \* requests being served at once
    NoHolder, NoName, NoSecret,
    MaxSettingsWrites \* bound: documents written

ASSUME SecretsAssumption ==
    /\ IsFiniteSet(Holders) /\ IsFiniteSet(Names) /\ IsFiniteSet(SecretValues) /\ IsFiniteSet(SettingsJobs)
    /\ Admins \subseteq Holders /\ AutoNames \subseteq Names
    /\ "prefs" \notin Names /\ NoName \notin Names \cup {"prefs"}
    /\ NoHolder \notin Holders /\ NoSecret \notin SecretValues
    /\ MaxSettingsWrites \in Nat

VARIABLES
    settings,        \* the document of each user
    job,             \* the requests being served
    meant,           \* history: what the last writer of each field wrote
    lost,            \* history: fields that were overwritten with a stale copy
    writes

settingsVars == <<settings, job, meant, lost, writes>>

\* A stored secret is a text under some layers of encryption; plaintext has none.
Cells == [text: SecretValues, layers: 0..2] \cup {[text |-> NoSecret, layers |-> 0]}
NoCell == [text |-> NoSecret, layers |-> 0]
Documents == [secrets: [Names -> Cells], prefs: BOOLEAN]
Empty == [secrets |-> [n \in Names |-> NoCell], prefs |-> FALSE]
Fields == Names \cup {"prefs"}

JobOps == {"none", "list", "upsert", "delete", "sync", "prefs"}
NoJob == [pc |-> "idle", op |-> "none", by |-> NoHolder, name |-> NoName, value |-> NoSecret,
          at |-> NoHolder, todo |-> {}, all |-> FALSE, copy |-> Empty]

SecretsTypeOK ==
    /\ settings \in [Holders -> Documents]
    /\ job \in [SettingsJobs -> [pc: {"idle", "load", "write"}, op: JobOps, by: Holders \cup {NoHolder},
                                 name: Names \cup {NoName}, value: SecretValues \cup {NoSecret},
                                 at: Holders \cup {NoHolder}, todo: SUBSET Holders, all: BOOLEAN,
                                 copy: Documents]]
    /\ meant \in [Holders -> [Fields -> SecretValues \cup {NoSecret} \cup BOOLEAN]]
    /\ lost \subseteq Holders \X Fields
    /\ writes \in 0..MaxSettingsWrites

----------------------------------------------------------------------------
\* decrypt_secret_value: a value without the prefix is taken as it is.
Decrypted(cell) == [cell EXCEPT !.layers = IF @ > 0 THEN @ - 1 ELSE 0]
Encrypted(cell) == IF cell.text = NoSecret THEN NoCell ELSE [cell EXCEPT !.layers = @ + 1]
Readable(cell) == IF Decrypted(cell).layers = 0 THEN cell.text ELSE NoSecret

\* SecretStoreRead::needs_rewrite
NeedsRewrite(doc) == \E n \in Names : doc.secrets[n].text # NoSecret /\ doc.secrets[n].layers = 0

FieldOf(doc, f) == IF f = "prefs" THEN doc.prefs ELSE Readable(doc.secrets[f])

\* Mutant: the store is written without having been decrypted.
ReencryptedBlindly(secrets) == [n \in Names |-> Encrypted(secrets[n])]

\* read_secret_store, then write_secret_store.
Reencrypted(secrets) == [n \in Names |-> Encrypted(Decrypted(secrets[n]))]

\* Some users have secrets from before they were encrypted.
SecretsInit ==
    /\ \E legacy \in SUBSET Holders, n \in Names \ AutoNames, v \in SecretValues :
         settings = [u \in Holders |->
                       IF u \in legacy THEN [Empty EXCEPT !.secrets[n] = [text |-> v, layers |-> 0]]
                                       ELSE Empty]
    /\ job = [q \in SettingsJobs |-> NoJob]
    /\ meant = [u \in Holders |-> [f \in Fields |-> FieldOf(settings[u], f)]]
    /\ lost = {} /\ writes = 0

----------------------------------------------------------------------------
JobAt(q, pc) == job[q].pc = pc
EndJob(q) == job' = [job EXCEPT ![q] = NoJob]

\* The requests, in a workspace or not.  There list and delete look through all
\* members; the other requests look at the document of the user who makes them.
BeginJob(q, op, u, n, v, all) ==
    /\ JobAt(q, "idle")
    /\ (n = NoName) = (op \notin {"upsert", "delete"})
    /\ (v = NoSecret) = (op \notin {"upsert", "sync"})
    /\ all => op \in {"list", "upsert", "delete"}
    /\ job' = [job EXCEPT ![q] = [NoJob EXCEPT !.pc = "load", !.op = op, !.by = u, !.name = n,
                                               !.value = v, !.all = all,
                                               !.todo = IF all /\ op # "upsert" THEN Holders ELSE {u}]]
    /\ UNCHANGED <<settings, meant, lost, writes>>

\* ensure_secret_exists: the value is stored under some name already.
Known(doc, v) == \E n \in Names : Readable(doc.secrets[n]) = v

HasName(doc, n) == doc.secrets[n].text # NoSecret

\* Whether the document as read will be written: for its own sake, or because the
\* operation changes it.
Writes(q, doc) ==
    CASE job[q].op = "list"   -> NeedsRewrite(doc)
      [] job[q].op = "delete" -> HasName(doc, job[q].name) \/ NeedsRewrite(doc)
      [] job[q].op = "sync"   -> ~Known(doc, job[q].value) \/ NeedsRewrite(doc)
      [] OTHER -> TRUE

NextStep(q, j) ==
    IF j.todo = {} THEN EndJob(q) ELSE job' = [job EXCEPT ![q] = [j EXCEPT !.pc = "load"]]

\* get_user_settings of the next member.  The first member with a secret of the
\* name is the one it is deleted from, if the role allows it.
LoadSettings(q) ==
    /\ JobAt(q, "load")
    /\ \E u \in job[q].todo :
         LET doc == settings[u]
             j == [job[q] EXCEPT !.at = u, !.todo = @ \ {u}, !.copy = doc]
             mayDelete == u = j.by \/ j.by \in Admins
         IN IF j.op = "delete" /\ HasName(doc, j.name) /\ ~mayDelete THEN EndJob(q)
            ELSE IF Writes(q, doc) THEN job' = [job EXCEPT ![q] = [j EXCEPT !.pc = "write"]]
            ELSE NextStep(q, j)
    /\ UNCHANGED <<settings, meant, lost, writes>>

\* The field the request is about: none for a mere rewrite.
AutoName(doc) ==
    LET free == {n \in AutoNames : ~HasName(doc, n)} IN
    IF free = {} THEN NoName ELSE CHOOSE n \in free : TRUE
Target(q) ==
    LET j == job[q] IN
    CASE j.op = "upsert" -> j.name
      [] j.op = "delete" /\ HasName(j.copy, j.name) -> j.name
      [] j.op = "sync" /\ ~Known(j.copy, j.value) -> AutoName(j.copy)
      [] j.op = "prefs" -> "prefs"
      [] OTHER -> NoName

\* The copy with the change.
Changed(q) ==
    LET j == job[q]  f == Target(q) IN
    CASE f = NoName -> [j.copy EXCEPT !.secrets = Reencrypted(@)]
      [] f = "prefs" -> [j.copy EXCEPT !.prefs = ~@]
      [] f \in Names /\ j.op = "delete" -> [j.copy EXCEPT !.secrets = [Reencrypted(@) EXCEPT ![f] = NoCell]]
      [] f \in Names /\ j.op # "delete" -> [j.copy EXCEPT !.secrets =
                     [Reencrypted(@) EXCEPT ![f] = [text |-> j.value, layers |-> 1]]]

\* After a change in a workspace its secrets are listed for the answer.
AfterWrite(q) ==
    IF Target(q) = NoName THEN job[q]
    ELSE [job[q] EXCEPT !.op = "list", !.todo = IF job[q].all THEN Holders ELSE {}]

\* update_user_settings: the whole document.  Fields that changed since it was
\* read are lost.
WriteSettings(q) ==
    LET j == job[q]  u == j.at  f == Target(q)  doc == Changed(q) IN
    /\ JobAt(q, "write") /\ writes < MaxSettingsWrites
    /\ settings' = [settings EXCEPT ![u] = doc]
    /\ meant' = IF f = NoName THEN meant ELSE [meant EXCEPT ![u][f] = FieldOf(doc, f)]
    /\ lost' = {l \in lost : l # <<u, f>>}
                 \cup {<<u, g>> : g \in {g \in Fields \ {f} : FieldOf(j.copy, g) # FieldOf(settings[u], g)}}
    /\ NextStep(q, AfterWrite(q))
    /\ writes' = writes + 1

\* A statement fails, or the client goes away.
JobFails(q) ==
    /\ ~JobAt(q, "idle") /\ EndJob(q)
    /\ UNCHANGED <<settings, meant, lost, writes>>

SecretsNext ==
    \E q \in SettingsJobs :
      \/ \E op \in JobOps \ {"none"}, u \in Holders, n \in Names \cup {NoName}, v \in SecretValues \cup {NoSecret},
            all \in BOOLEAN : BeginJob(q, op, u, n, v, all)
      \/ LoadSettings(q) \/ WriteSettings(q) \/ JobFails(q)

SecretsSpec == SecretsInit /\ [][SecretsNext]_settingsVars

----------------------------------------------------------------------------
(* A secret reads back what was last stored under its name, and a preference   *)
(* is what was last set, however often listings and other writers rewrite the  *)
(* document and encrypt what is in it, unless a request wrote back a copy that *)
(* was read before the field changed.                                          *)
SettingsKeepTheirFields ==
    \A u \in Holders, f \in Fields :
      <<u, f>> \notin lost => FieldOf(settings[u], f) = meant[u][f]
=============================================================================
