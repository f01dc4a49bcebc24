---------------------------- MODULE AccountMigration ----------------------------
(***************************************************************************)
(* How the accounts come back when the server starts                       *)
(* (src/auth/account-persistence.ts): the one account of the older         *)
(* auth.json is migrated, the entries of older releases are completed, and *)
(* what was loaded is all the pool has.                                    *)
(*                                                                         *)
(* The migration writes accounts.json in place, a save writes a file       *)
(* beside it and renames that.  A write, a rename or a read may fail, and  *)
(* the process may be killed between any two steps.                        *)
(***************************************************************************)

CONSTANTS Older,      \* accounts of an older release, one of them that of auth.json
          Newer       \* accounts an operator adds

ASSUME MigrationAssumption == Older # {}

VARIABLES
    authFile,     \* auth.json: "none", "there"; "bak" once it is renamed
    file,         \* accounts.json
    migrated,     \* what migrateFromLegacy returned
    pool,         \* entries in memory
    starting,     \* where the process is
    harm,         \* a migration failed or was cut as it wrote, or a file could not be read
    removed       \* accounts the operator deleted

migrationVars == <<authFile, file, migrated, pool, starting, harm, removed>>

Legacy == CHOOSE a \in Older : TRUE

\* complete: the entry has every field the pool reads, window_reset_at among them.
Entry == [account : Older \cup Newer, complete : BOOLEAN]
Missing == [is |-> "missing", entries |-> {}]
Broken == [is |-> "broken", entries |-> {}]
Holding(entries) == [is |-> "whole", entries |-> entries]

Accounts(entries) == {e.account : e \in entries}

MigratedEntry == [account |-> Legacy, complete |-> FALSE]

-----------------------------------------------------------------------------
(* migrateFromLegacy *)

\* Mutant: an accounts.json that is there is no reason not to migrate.
NeedsMigrationAlways == authFile = "there"

NeedsMigration == file = Missing /\ authFile = "there"

Start ==
    /\ starting = "down"
    /\ starting' = IF NeedsMigration THEN "migrating" ELSE "loading"
    /\ UNCHANGED <<authFile, file, migrated, pool, harm, removed>>

\* writeFileSync truncates the file first.
WriteBegins ==
    /\ starting = "migrating"
    /\ file' = Broken /\ starting' = "writing"
    /\ UNCHANGED <<authFile, migrated, pool, harm, removed>>

WriteEnds ==
    /\ starting = "writing"
    /\ file' = Holding({MigratedEntry}) /\ starting' = "renaming"
    /\ UNCHANGED <<authFile, migrated, pool, harm, removed>>

\* The whole is in one try: nothing is returned, and what was written stays.
MigrationFails ==
    /\ starting \in {"migrating", "writing", "renaming"}
    /\ starting' = "loading" /\ harm' = (harm \/ starting # "renaming")
    /\ UNCHANGED <<authFile, file, migrated, pool, removed>>

RenameLegacy ==
    /\ starting = "renaming"
    /\ authFile' = "bak" /\ migrated' = {MigratedEntry} /\ starting' = "loading"
    /\ UNCHANGED <<file, pool, harm, removed>>

-----------------------------------------------------------------------------
(* loadPersisted and load *)

\* Mutant: an entry of an older release is left out.
BackfillComplete(entries) == {e \in entries : e.complete}

Backfill(entries) == {[e EXCEPT !.complete = TRUE] : e \in entries}

\* What was completed is saved at once; a save that fails is only logged.
LoadPersisted ==
    LET loaded == Backfill(file.entries) IN
    /\ starting = "loading"
    /\ pool' = IF loaded = {} THEN migrated ELSE loaded
    /\ \/ /\ loaded # file.entries /\ file' = Holding(loaded)
       \/ UNCHANGED file
    /\ migrated' = {} /\ starting' = "running"
    /\ UNCHANGED <<authFile, harm, removed>>

\* A read that fails is only logged too.
LoadFails ==
    /\ starting = "loading" /\ file # Missing
    /\ pool' = migrated /\ harm' = TRUE
    /\ migrated' = {} /\ starting' = "running"
    /\ UNCHANGED <<authFile, file, removed>>

-----------------------------------------------------------------------------
(* The pool changes and is saved; the process ends *)

SaveAs(entries) == file' = Holding(entries) \/ UNCHANGED file

AddAccount(a) ==
    /\ starting = "running" /\ a \notin Accounts(pool)
    /\ pool' = pool \cup {[account |-> a, complete |-> TRUE]}
    /\ SaveAs(pool')
    /\ UNCHANGED <<authFile, migrated, starting, harm, removed>>

RemoveAccount(a) ==
    /\ starting = "running" /\ a \in Accounts(pool)
    /\ pool' = {e \in pool : e.account # a} /\ removed' = removed \cup {a}
    /\ SaveAs(pool')
    /\ UNCHANGED <<authFile, migrated, starting, harm>>

ProcessEnds ==
    /\ starting # "down"
    /\ pool' = {} /\ migrated' = {} /\ starting' = "down"
    /\ harm' = (harm \/ starting = "writing")
    /\ UNCHANGED <<authFile, file, removed>>

MigrationInit ==
    /\ \/ authFile = "there" /\ file = Missing
       \/ authFile \in {"none", "there"}
          /\ file = Holding({[account |-> a, complete |-> FALSE] : a \in Older})
    /\ migrated = {} /\ pool = {} /\ starting = "down" /\ harm = FALSE /\ removed = {}

MigrationNext ==
    \/ Start \/ WriteBegins \/ WriteEnds \/ MigrationFails \/ RenameLegacy
    \/ LoadPersisted \/ LoadFails \/ ProcessEnds
    \/ \E a \in Newer : AddAccount(a)
    \/ \E a \in Older \cup Newer : RemoveAccount(a)

MigrationSpec == MigrationInit /\ [][MigrationNext]_migrationVars

-----------------------------------------------------------------------------
(* Properties *)

\* The files hold entries, and only a process that runs has a pool.
MigrationTypeOK ==
    /\ file \in {Missing, Broken} \/ (file.is = "whole" /\ file.entries \subseteq Entry)
    /\ pool \subseteq Entry /\ migrated \subseteq {MigratedEntry}
    /\ authFile = "bak" => file # Missing
    /\ pool # {} => starting = "running"

\* Wherever a start is killed or fails, but in the middle of writing the migrated file or
\* reading a file, the next one has the account of auth.json, and no entry goes into use
\* without its fields ("missing causes NaN", account-persistence.ts:188).
AccountsSurviveStarts ==
    LET kept == IF file = Missing /\ authFile = "there" THEN {Legacy} ELSE Accounts(file.entries)
    IN  ~harm =>
        /\ starting = "running" => \A e \in pool : e.complete
        /\ starting \in {"down", "loading"} /\ authFile # "none" => Legacy \in kept \cup removed

\* An account that is in accounts.json is never written out of it, unless an operator
\* deletes it or the file was unread (the save that follows a failed load).
NothingWrittenOut ==
    [][~harm => Accounts(file.entries) \subseteq Accounts(file'.entries) \cup removed']_migrationVars

\* No account is lost over the starts, whether it is still in auth.json or already moved.
MigrationKeepsAccounts == []MigrationTypeOK /\ []AccountsSurviveStarts /\ NothingWrittenOut

\* "Migrate from legacy auth.json if needed" (account-persistence.ts:38): a start that
\* finds auth.json has its account in the end, or a later start has.  A write cut short
\* leaves an accounts.json that cannot be read, and the migration is never tried again.
MigrationSurvivesCrash ==
    starting = "running" /\ authFile = "there" => Legacy \in Accounts(pool) \cup removed

\* What is saved over a file holds all of it that no operator deleted, even if it could
\* not be read at the start.
UnreadFileKept ==
    [][Accounts(file.entries) \subseteq Accounts(file'.entries) \cup removed']_migrationVars
=============================================================================
