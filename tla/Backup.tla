------------------------------- MODULE Backup -------------------------------
(***************************************************************************)
(* riscdom-backup export (backup lib.rs, main.rs) while the node it        *)
(* exports goes on working.  Each file of the data directory and each      *)
(* snapshot is read once for the manifest, with its size and digest, and   *)
(* once more when the archive is built; the audit store is taken through   *)
(* VACUUM INTO; the keyring is asked for the accounts settings.json names. *)
(*                                                                         *)
(* A file's content is the number of its version, 0 when there is none.    *)
(***************************************************************************)
EXTENDS Naturals, FiniteSets

CONSTANTS File,      \* the files taken as they stand, "settings" among them
          Account,   \* the keyring accounts settings.json may name
          MaxWrites, \* bound: changes the node makes
          MaxKills   \* bound: exports killed

BackupAssumption == "settings" \in File

VARIABLES content,   \* per file: the version on the disk
          named,     \* the accounts the settings name, per version of the settings
          rows,      \* rows committed to the audit store
          inFile,    \* of these, those the database file itself holds: the others are in its WAL
          stored,    \* the accounts the keyring holds
          keyringUp,
          tool,      \* the export: where it is, and what it has so far
          copies,    \* copies of the audit store in the temporary directory
          output,    \* the file at --output: a package, or "none", "old", "torn"
          opened,    \* history: what was read back, and whether somebody had altered it
          writes, kills

node == <<content, named, rows, inFile, stored, keyringUp, writes>>
vars == <<node, tool, copies, output, opened, kills>>

AuditEntry == "audit.db"
Resting == [at |-> "idle", force |-> FALSE, todo |-> {}, entries |-> {}, body |-> {},
            accounts |-> {}, carried |-> {}, notDerived |-> {}, since |-> 0]
Entry(name, version) == [name |-> name, version |-> version]
NoPackage(state) == [state |-> state, entries |-> {}, body |-> {}, carried |-> {}, notDerived |-> {}, read |-> {}, since |-> 0]

Init == /\ content = [f \in File |-> 1]
        /\ named = [v \in {1} |-> Account]
        /\ rows = 1 /\ inFile = 0
        /\ stored \in SUBSET Account /\ keyringUp \in BOOLEAN
        /\ tool = Resting /\ copies = 0
        /\ output \in {NoPackage("none"), NoPackage("old")}
        /\ opened = {} /\ writes = 0 /\ kills = 0

At(loc) == tool.at = loc
Refused == tool' = Resting

-----------------------------------------------------------------------------
(* The node goes on.  A settings file that is being written reads as one that
   names nothing; it is a version of its own. *)
WriteFile(f) ==
    /\ writes < MaxWrites /\ writes' = writes + 1
    /\ \E v \in {0, writes + 2} : v # content[f] /\ content' = [content EXCEPT ![f] = v]
    /\ \E accounts \in SUBSET Account :
         named' = IF f = "settings" /\ content'[f] # 0
                  THEN [v \in DOMAIN named \cup {content'[f]} |-> IF v \in DOMAIN named THEN named[v] ELSE accounts]
                  ELSE named
    /\ UNCHANGED <<rows, inFile, stored, keyringUp, tool, copies, output, opened, kills>>

CommitRow ==
    /\ writes < MaxWrites /\ writes' = writes + 1
    /\ rows' = rows + 1
    /\ inFile' \in {inFile, rows'}
    /\ UNCHANGED <<content, named, stored, keyringUp, tool, copies, output, opened, kills>>

ForgetKey(a) ==
    /\ writes < MaxWrites /\ writes' = writes + 1
    /\ a \in stored /\ stored' = stored \ {a}
    /\ UNCHANGED <<content, named, rows, inFile, keyringUp, tool, copies, output, opened, kills>>

-----------------------------------------------------------------------------

(* main.rs, export: an existing output is refused without --force. *)
Begin(force) ==
    /\ At("idle") /\ (force \/ output.state = "none")
    /\ tool' = [Resting EXCEPT !.at = "files", !.force = force, !.todo = File, !.since = rows]
    /\ UNCHANGED <<node, copies, output, opened, kills>>

(* settings.json is the first file there is. *)
FirstFirst(f, left) == f = "settings" \/ "settings" \notin left

(* collect_data_dir, collect_snapshots, collect_file: absent is no error. *)
CollectFile(f) ==
    /\ At("files") /\ f \in tool.todo /\ FirstFirst(f, tool.todo)
    /\ tool' = [tool EXCEPT !.todo = @ \ {f},
                            !.entries = IF content[f] = 0 THEN @ ELSE @ \cup {Entry(f, content[f])}]
    /\ UNCHANGED <<node, copies, output, opened, kills>>

(* mutant: the database file is copied as it is *)
CopyAuditBytes == inFile

(* VACUUM INTO: a read transaction, so what is committed, WAL and all. *)
CopyAudit == rows

CollectAudit ==
    /\ At("files") /\ tool.todo = {}
    /\ tool' = [tool EXCEPT !.at = "vacuumed", !.entries = @ \cup {Entry(AuditEntry, CopyAudit)},
                            !.body = @ \cup {Entry(AuditEntry, CopyAudit)}]
    /\ copies' = copies + 1
    /\ UNCHANGED <<node, output, opened, kills>>

(* mutant: the copy is forgotten *)
ForgetCopy ==
    /\ At("vacuumed")
    /\ tool' = [tool EXCEPT !.at = "naming"]
    /\ UNCHANGED <<node, copies, output, opened, kills>>

(* The copy is read, and removed when its name goes out of scope. *)
DropCopy ==
    /\ At("vacuumed")
    /\ tool' = [tool EXCEPT !.at = "naming"]
    /\ copies' = copies - 1
    /\ UNCHANGED <<node, output, opened, kills>>

(* collect_credentials: settings.json is read again, for the accounts it names. *)
NameAccounts ==
    /\ At("naming")
    /\ \E readable \in BOOLEAN :
         tool' = IF content["settings"] = 0 THEN [tool EXCEPT !.at = "building"]
                 ELSE IF readable
                 THEN [tool EXCEPT !.at = "deriving", !.accounts = named[content["settings"]],
                                   !.todo = named[content["settings"]]]
                 ELSE [tool EXCEPT !.at = "building", !.notDerived = {"settings"}]
    /\ UNCHANGED <<node, copies, output, opened, kills>>

(* mutant: a keyring that will not answer ends the search without a line *)
DeriveGivesUp(a) ==
    /\ At("deriving") /\ a \in tool.todo
    /\ tool' = IF ~keyringUp THEN [tool EXCEPT !.todo = {}]
               ELSE IF a \in stored THEN [tool EXCEPT !.todo = @ \ {a}, !.carried = @ \cup {a}]
               ELSE [tool EXCEPT !.todo = @ \ {a}, !.notDerived = @ \cup {a}]
    /\ UNCHANGED <<node, copies, output, opened, kills>>

(* One account: carried, or a line that says it is not. *)
Derive(a) ==
    /\ At("deriving") /\ a \in tool.todo
    /\ tool' = [tool EXCEPT !.todo = @ \ {a},
                            !.carried = IF keyringUp /\ a \in stored THEN @ \cup {a} ELSE @,
                            !.notDerived = IF ~keyringUp THEN @ \cup {"keyring"}
                                           ELSE IF a \in stored THEN @ ELSE @ \cup {a}]
    /\ UNCHANGED <<node, copies, output, opened, kills>>

Derived ==
    /\ At("deriving") /\ tool.todo = {}
    /\ tool' = [tool EXCEPT !.at = "building"]
    /\ UNCHANGED <<node, copies, output, opened, kills>>

Waiting == {e.name : e \in tool.entries} \ {e.name : e \in tool.body}

(* mutant: a file that has gone is left out *)
AppendFileIfThere(e) ==
    /\ At("building") /\ e \in tool.entries /\ e.name \in Waiting /\ FirstFirst(e.name, Waiting)
    /\ tool' = IF content[e.name] = 0
               THEN [tool EXCEPT !.body = @ \cup {Entry(e.name, 0)}]
               ELSE [tool EXCEPT !.body = @ \cup {Entry(e.name, content[e.name])}]
    /\ UNCHANGED <<node, copies, output, opened, kills>>

(* build_tar: the file is opened again; one that has gone ends the export. *)
AppendFile(e) ==
    /\ At("building") /\ e \in tool.entries /\ e.name \in Waiting /\ FirstFirst(e.name, Waiting)
    /\ IF content[e.name] = 0 THEN Refused
       ELSE tool' = [tool EXCEPT !.body = @ \cup {Entry(e.name, content[e.name])}]
    /\ UNCHANGED <<node, copies, output, opened, kills>>

(* gzip, encrypt, and the write to --output, which is not atomic. *)
WriteOutput ==
    /\ At("building") /\ Waiting = {}
    /\ tool' = [tool EXCEPT !.at = "writing"]
    /\ output' = NoPackage("torn")
    /\ UNCHANGED <<node, copies, opened, kills>>

Finish ==
    /\ At("writing")
    /\ output' = [state |-> "package", entries |-> tool.entries, body |-> tool.body,
                  carried |-> tool.carried, notDerived |-> tool.notDerived, read |-> tool.accounts,
                  since |-> tool.since]
    /\ Refused
    /\ UNCHANGED <<node, copies, opened, kills>>

Kill ==
    /\ ~At("idle") /\ kills < MaxKills
    /\ Refused /\ kills' = kills + 1
    /\ UNCHANGED <<node, copies, output, opened>>

(* mutant: what decrypts is believed *)
OpensAnyway(altered) == output.state \in {"package", "torn"}

(* decrypt: a short file and a wrong magic are malformed, anything else the
   seal does not cover is refused. *)
Opens(altered) == output.state = "package" /\ ~altered

(* read_manifest, with the right passphrase; altered by somebody in between or not. *)
ReadManifest ==
    /\ \E altered \in BOOLEAN :
         Opens(altered) /\ opened' = opened \cup {<<output.state, altered>>}
    /\ UNCHANGED <<node, tool, copies, output, kills>>

-----------------------------------------------------------------------------
Next == \/ \E f \in File : WriteFile(f) \/ CollectFile(f)
        \/ CommitRow \/ CollectAudit \/ DropCopy \/ NameAccounts \/ Derived
        \/ \E a \in Account : ForgetKey(a) \/ Derive(a)
        \/ \E e \in tool.entries : AppendFile(e)
        \/ \E force \in BOOLEAN : Begin(force)
        \/ WriteOutput \/ Finish \/ Kill \/ ReadManifest

Spec == Init /\ [][Next]_vars

-----------------------------------------------------------------------------
Exported == output.state = "package"
In(entries, name) == {e.version : e \in {x \in entries : x.name = name}}

(***************************************************************************)
(* The package's history is no shorter than the history was when the       *)
(* export began ("a byte copy of the file alone can miss frames still in   *)
(* -wal").                                                                 *)
(***************************************************************************)
HistoryIsWhole == Exported => \A v \in In(output.body, AuditEntry) : v >= output.since

(***************************************************************************)
(* The package is all or nothing: every file its manifest lists is in it,  *)
(* whatever the node removed while it was built.                           *)
(***************************************************************************)
ManifestIsCarried == Exported => \A e \in output.entries : \E v \in In(output.body, e.name) : v # 0

(***************************************************************************)
(* "What cannot be derived is reported, never silently missed": every      *)
(* account that was named is carried or has its line, or the keyring as a  *)
(* whole has one.                                                          *)
(***************************************************************************)
NothingIsMissedSilently ==
    Exported => \A a \in output.read : a \in output.carried \cup output.notDerived \/ "keyring" \in output.notDerived

(***************************************************************************)
(* An export that is not killed leaves no copy of the history behind.      *)
(***************************************************************************)
NothingIsLeft == kills = 0 /\ At("idle") => copies = 0

(***************************************************************************)
(* What a reader is shown was sealed by an export that finished.           *)
(***************************************************************************)
OpenedIsSealed == opened \subseteq {<<"package", FALSE>>}

(***************************************************************************)
(* A package made while the node writes carries all it lists and a history *)
(* no shorter than at the start, reports what it could not read, leaves no *)
(* copy behind, and opens as what was sealed (export_with, TempPath,       *)
(* decrypt).                                                               *)
(***************************************************************************)
PackageInv ==
    /\ HistoryIsWhole /\ ManifestIsCarried /\ NothingIsMissedSilently /\ NothingIsLeft
    /\ OpenedIsSealed

(***************************************************************************)
(* "Its SHA-256" (ManifestEntry): the manifest's record of an entry is of  *)
(* the bytes the package holds.                                            *)
(***************************************************************************)
ManifestMatches == Exported => output.entries = output.body

(***************************************************************************)
(* The credentials that travel are those of the settings that travel.      *)
(***************************************************************************)
KeysGoWithSettings ==
    Exported => \A v \in In(output.body, "settings") :
        \A a \in named[v] : a \in output.carried \cup output.notDerived \/ output.notDerived \cap {"keyring", "settings"} # {}
=============================================================================
