----------------------------- MODULE Onboarding -----------------------------
(***************************************************************************)
(* A device gets its identity (crates/hit-app-core/src/state.rs): a key    *)
(* made or imported goes into the keychain, then app.json names it, then   *)
(* the person backs it up, then the node runs.  The window runs one step   *)
(* at a time, and beside it a backup to a file whose dialog was open; the  *)
(* process may be killed between any two writes.                           *)
(*                                                                         *)
(*   chosen    app.json: the npub and whether it is backed up              *)
(*   keychain  the identities whose key it holds                           *)
(*   kept      the identities whose key the person holds elsewhere         *)
(*   running   the identity the node runs for, or None                     *)
(*   alive     the process runs                                            *)
(*   job       the step each of the two tasks is in, or None               *)
(*   losses    bound: keys the keychain lost                               *)
(*   mistaken  history: identities called backed up by a backup of another *)
(*             one, whose key went missing while its file was being made   *)
(***************************************************************************)
EXTENDS NodeBase

CONSTANTS Keys,      \* the identities there may be
          Held,      \* those whose key the person brings along
          MaxLosses  \* bound: keys the keychain loses

VARIABLES chosen, keychain, kept, running, alive, job, losses, mistaken

ovars == <<chosen, keychain, kept, running, alive, job, losses, mistaken>>

Tasks == {"step", "dialog"}
NoOneYet == [npub |-> None, backed |-> FALSE]

OInit ==
    /\ chosen = NoOneYet
    /\ keychain = {} /\ kept = Held
    /\ running = None
    /\ alive = TRUE
    /\ job = [t \in Tasks |-> None]
    /\ losses = 0 /\ mistaken = {}

Stage == CASE chosen.npub = None -> "new"
           [] ~chosen.backed -> "backup"
           [] OTHER -> "ready"

\* App::person: None as well when the keychain has lost the key.
Person == IF chosen.npub \in keychain THEN chosen.npub ELSE None

RequireNew == chosen.npub = None \/ Person = None

Goes(t, at, who) == job' = [job EXCEPT ![t] = [at |-> at, who |-> who]]
Ends(t) == job' = [job EXCEPT ![t] = None]
At(t, at) == alive /\ job[t] # None /\ job[t].at = at

\* create_identity and import_identity begin: only on a device with none.
Begin(at, k) ==
    /\ alive /\ job["step"] = None
    /\ RequireNew
    /\ k \notin keychain
    /\ at = "import" <=> k \in Held
    /\ Goes("step", at, k)
    /\ UNCHANGED <<chosen, keychain, kept, running, alive, losses, mistaken>>

\* The key goes into the keychain before app.json names it.
SaveKey ==
    /\ job["step"] # None /\ job["step"].at \in {"create", "import"}
    /\ keychain' = keychain \cup {job["step"].who}
    /\ Goes("step", IF job["step"].at = "create" THEN "name_create" ELSE "name_import",
            job["step"].who)
    /\ UNCHANGED <<chosen, kept, running, alive, losses, mistaken>>

\* Mutant: the new identity keeps all of the old file.
NameCreatedBase ==
    /\ At("step", "name_create")
    /\ chosen' = [chosen EXCEPT !.npub = job["step"].who]
    /\ Ends("step")
    /\ UNCHANGED <<keychain, kept, running, alive, losses, mistaken>>

\* save_file of create_identity: the backup comes next.
NameCreated ==
    /\ At("step", "name_create")
    /\ chosen' = [npub |-> job["step"].who, backed |-> FALSE]
    /\ Ends("step")
    /\ UNCHANGED <<keychain, kept, running, alive, losses, mistaken>>

\* save_file of import_identity: the person is holding the key.
NameImported ==
    /\ At("step", "name_import")
    /\ chosen' = [npub |-> job["step"].who, backed |-> TRUE]
    /\ Goes("step", "start", job["step"].who)
    /\ UNCHANGED <<keychain, kept, running, alive, losses, mistaken>>

\* reveal_key and confirm_backup: the key's tail typed from a copy of it.
ConfirmBackup ==
    /\ alive /\ job["step"] = None
    /\ Stage = "backup" /\ Person # None
    /\ kept' = kept \cup {Person}
    /\ Goes("step", "backed", Person)
    /\ UNCHANGED <<chosen, keychain, running, alive, losses, mistaken>>

\* backup_to_file, at the backup step or any time after it: the key is read
\* and encrypted, which takes its time.
BackupToFile ==
    /\ alive /\ job["dialog"] = None
    /\ Person # None
    /\ Goes("dialog", "encrypting", Person)
    /\ UNCHANGED <<chosen, keychain, kept, running, alive, losses, mistaken>>

\* ... then written where the person chose, or not written at all.
WriteFile ==
    /\ At("dialog", "encrypting")
    /\ \/ kept' = kept \cup {job["dialog"].who} /\ Goes("dialog", "written", job["dialog"].who)
       \/ kept' = kept /\ Ends("dialog")
    /\ UNCHANGED <<chosen, keychain, running, alive, losses, mistaken>>

\* ... which completes the backup step, if it is the step the device is at.
FileWritten ==
    /\ At("dialog", "written")
    /\ IF Stage = "backup" THEN Goes("dialog", "backed", job["dialog"].who) ELSE Ends("dialog")
    /\ UNCHANGED <<chosen, keychain, kept, running, alive, losses, mistaken>>

\* backed_up: app.json says so, and the node starts.
BackedUp(t) ==
    /\ At(t, "backed")
    /\ chosen' = [chosen EXCEPT !.backed = TRUE]
    /\ mistaken' = mistaken \cup ({chosen.npub} \ {job[t].who})
    /\ IF Person = None THEN Ends(t) ELSE Goes(t, "start", Person)
    /\ UNCHANGED <<keychain, kept, running, alive, losses>>

\* App::start: once; a node that cannot start leaves the device Ready.
StartNode(t) ==
    /\ At(t, "start")
    /\ Ends(t)
    /\ running' \in {running, IF running = None THEN job[t].who ELSE running}
    /\ UNCHANGED <<chosen, keychain, kept, alive, losses, mistaken>>

\* The process ends: shut down, or killed at any point.
Killed ==
    /\ alive
    /\ alive' = FALSE /\ running' = None
    /\ job' = [t \in Tasks |-> None]
    /\ UNCHANGED <<chosen, keychain, kept, losses, mistaken>>

\* A keychain reset, at any time, or a copied data directory.
LoseKey(k) ==
    /\ losses < MaxLosses
    /\ k \in keychain
    /\ keychain' = keychain \ {k}
    /\ losses' = losses + 1
    /\ UNCHANGED <<chosen, kept, running, alive, job, mistaken>>

\* App::open.
OpenApp ==
    /\ ~alive
    /\ alive' = TRUE
    /\ running' = IF Stage = "ready" THEN Person ELSE None
    /\ UNCHANGED <<chosen, keychain, kept, job, losses, mistaken>>

ONext ==
    \/ \E k \in Keys, at \in {"create", "import"} : Begin(at, k)
    \/ SaveKey \/ NameCreated \/ NameImported
    \/ ConfirmBackup \/ BackupToFile \/ WriteFile \/ FileWritten
    \/ \E t \in Tasks : BackedUp(t) \/ StartNode(t)
    \/ Killed \/ OpenApp
    \/ \E k \in Keys : LoseKey(k)

OSpec == OInit /\ [][ONext]_ovars

(***************************************************************************)
(* "this device's identity is backed up" is true of the identity it names. *)
(***************************************************************************)
\* When app.json says the identity is backed up, or a node runs for it, the
\* person holds that identity's key outside this device: also after the
\* keychain lost a key and another was made in its place, and wherever the
\* process was killed.  Excused by name: backed_up marks whichever identity
\* app.json names by then, so a file still being made of a key that went
\* missing meanwhile vouches for the one made in its place (mistaken); with
\* no key lost there is none.
BackedUpIsHeld ==
    /\ chosen.backed => chosen.npub \in kept \cup mistaken
    /\ running # None => running \in kept \cup mistaken
    /\ mistaken # {} => losses > 0
=============================================================================
