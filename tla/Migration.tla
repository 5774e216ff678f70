------------------------------ MODULE Migration ------------------------------
(***************************************************************************)
(* `doctorclaw migrate run generic <path>`: cmd_migrate of src/src/main.c  *)
(* and src/src/migration/migration.c.  A JSON file goes item by item into  *)
(* the memory of the workspace, a directory file by file into the          *)
(* workspace.  The command may be killed and run again, and single steps   *)
(* fail.                                                                   *)
(***************************************************************************)
EXTENDS MemoryStore

CONSTANTS Names,       \* the files of the two directories
          Exports,     \* the JSON files there may be: sequences of items, of
                       \* which some are no pair of strings
          MaxKills     \* bound: how often the command is killed

NoPair == <<>>

ASSUME MigrationAssumption ==
    /\ Exports \subseteq Seq((Keys \X Values) \cup {NoPair}) /\ MaxKills \in Nat
    /\ IsFiniteSet(Names)

VARIABLES json,            \* the path is a .json file, and what is in it
          regular,         \* the names that are regular files in the source
          dest,            \* dest[n]: the file in the workspace
          mstate,          \* migration_t: state
          items_scanned, items_migrated, items_failed,
          pending,         \* the names readdir has yet to return
          kills

migrationVars == <<memoryVars, json, regular, dest, mstate, items_scanned, items_migrated,
                   items_failed, pending, kills>>
counters == <<items_scanned, items_migrated, items_failed>>

MigrationInit ==
    /\ MemoryInit
    /\ json = <<>> /\ regular = {} /\ dest = [n \in Names |-> "old"]
    /\ mstate = "unset" /\ items_scanned = 0 /\ items_migrated = 0 /\ items_failed = 0
    /\ pending = {} /\ kills = 0

\* The user has an export, or a directory with regular files among others.
Prepare ==
    /\ mstate = "unset"
    /\ \/ json' \in Exports /\ UNCHANGED regular
       \/ regular' \in SUBSET Names /\ UNCHANGED json
    /\ mstate' = "pending"
    /\ UNCHANGED <<memoryVars, dest, counters, pending, kills>>

\* migration_add and migration_execute up to the loop: the file is of the right
\* size and memory_init opens the database (or not, which it does not tell).
ExecuteJson ==
    /\ mstate = "pending" /\ json /= <<>>
    /\ db_handle' \in BOOLEAN /\ backend' = "sqlite"
    /\ items_scanned' = 0 /\ items_migrated' = 0 /\ items_failed' = 0
    /\ mstate' = "migrating"
    /\ UNCHANGED <<rows, clock, wrote, exported, muninnVars, cacheVars, chunkVars, json, regular, dest,
                   pending, kills>>

\* The source cannot be opened, or is too large.
ExecuteFails ==
    /\ mstate = "pending"
    /\ mstate' = "failed"
    /\ UNCHANGED <<memoryVars, json, regular, dest, counters, pending, kills>>

\* Mistake: an item is only taken when a comma follows it, so not the last one.
parse_one_kv_comma == items_scanned + 1 < Len(json) /\ json[items_scanned + 1] /= NoPair

\* The next item; the first one that is no pair of strings is the end.
parse_one_kv == items_scanned < Len(json) /\ json[items_scanned + 1] /= NoPair

ImportItem ==
    /\ mstate = "migrating" /\ json /= <<>> /\ parse_one_kv
    /\ LET item == json[items_scanned + 1]
       IN  \/ /\ memory_store(item[1], item[2])
              /\ items_migrated' = items_migrated + 1 /\ UNCHANGED items_failed
           \/ items_failed' = items_failed + 1 /\ UNCHANGED <<memoryVars, items_migrated>>
    /\ items_scanned' = items_scanned + 1
    /\ UNCHANGED <<json, regular, dest, mstate, pending, kills>>

ImportEnds ==
    /\ mstate = "migrating" /\ json /= <<>> /\ ~parse_one_kv
    /\ mstate' = "completed"
    /\ backend' = "none" /\ db_handle' = FALSE
    /\ UNCHANGED <<rows, clock, wrote, exported, muninnVars, cacheVars, chunkVars, json, regular, dest,
                   counters, pending, kills>>

\* migration_scan_directory counts all names; then they are gone through again.
ExecuteDirectory ==
    /\ mstate = "pending" /\ json = <<>>
    /\ items_scanned' = Cardinality(Names) /\ items_migrated' = 0 /\ items_failed' = 0
    /\ pending' = Names /\ mstate' = "migrating"
    /\ UNCHANGED <<memoryVars, json, regular, dest, kills>>

\* Mistake: a destination that was only emptied is counted.
CopyFileCounts(n) ==
    /\ mstate = "migrating" /\ n \in pending
    /\ pending' = pending \ {n}
    /\ \/ /\ n \in regular
          /\ \E d \in {"copy", "short", "torn"} : dest' = [dest EXCEPT ![n] = d]
          /\ items_migrated' = items_migrated + 1
       \/ UNCHANGED <<dest, items_migrated>>
    /\ UNCHANGED <<memoryVars, json, regular, mstate, items_scanned, items_failed, kills>>

\* One round of migration_copy_files.  The results of fread, fwrite and fclose are
\* not looked at: a file of which the disk took only a part ("short") counts like
\* a copy.  The destination is emptied ("torn") before it is known that the source
\* can be opened.
CopyFile(n) ==
    /\ mstate = "migrating" /\ n \in pending
    /\ pending' = pending \ {n}
    /\ \/ /\ n \in regular
          /\ \E d \in {"copy", "short"} : dest' = [dest EXCEPT ![n] = d]
          /\ items_migrated' = items_migrated + 1
       \/ /\ n \in regular
          /\ dest' = [dest EXCEPT ![n] = "torn"] /\ UNCHANGED items_migrated
       \/ UNCHANGED <<dest, items_migrated>>
    /\ UNCHANGED <<memoryVars, json, regular, mstate, items_scanned, items_failed, kills>>

CopyEnds ==
    /\ mstate = "migrating" /\ json = <<>> /\ pending = {}
    /\ mstate' = "completed"
    /\ UNCHANGED <<memoryVars, json, regular, dest, counters, pending, kills>>

\* The command is killed, in the middle of a copy or between two items, or has
\* failed; the user runs it again.
Again ==
    /\ kills < MaxKills /\ mstate \in {"migrating", "failed", "completed"}
    /\ kills' = kills + 1
    /\ mstate' = "pending" /\ backend' = "none" /\ db_handle' = FALSE
    /\ dest' \in {dest} \cup {[dest EXCEPT ![n] = "torn"] : n \in pending \cap regular}
    /\ pending' = {}
    /\ UNCHANGED <<rows, clock, wrote, exported, muninnVars, cacheVars, chunkVars, json, regular,
                   counters>>

MigrationNext == \/ Prepare \/ ExecuteJson \/ ExecuteFails \/ ImportItem \/ ImportEnds
                 \/ ExecuteDirectory \/ (\E n \in Names : CopyFile(n)) \/ CopyEnds \/ Again

MigrationSpec == MigrationInit /\ [][MigrationNext]_migrationVars
-----------------------------------------------------------------------------
Parsed(f) == {i \in DOMAIN f : \A j \in 1..i : f[j] /= NoPair}

\* A run that is completed has accounted for every item up to the first that is
\* no pair of strings; if none of them failed, the memory holds the last value
\* of each key, however often the command was killed before.
CompletedIsImported ==
    mstate = "completed" /\ json /= <<>> =>
        /\ items_scanned = items_migrated + items_failed
        /\ items_scanned = Cardinality(Parsed(json))
        /\ items_failed = 0 =>
              \A i \in Parsed(json) :
                 (\A j \in Parsed(json) : j > i => json[j][1] /= json[i][1])
                 => memory_recall(json[i][1]) = {json[i][2]}

Rewritten == {n \in Names : dest[n] \in {"copy", "short"}}

\* "Migrated %zu items" (main.c): at least so many files of the workspace were
\* written from their sources - each of them whole, or as much of it as the disk
\* took.  If the number is that of the regular files, no destination is left
\* empty or as a killed run left it.  A file of the workspace is touched only if
\* the source has a regular file of its name.
CountedIsRewritten ==
    /\ json = <<>> /\ mstate = "completed" =>
          /\ items_migrated <= Cardinality(Rewritten)
          /\ items_migrated = Cardinality(regular) => Rewritten = regular
    /\ \A n \in Names : dest[n] /= "old" => n \in regular

\* What a migration reports as done has been done.
MigrationFaithful == CompletedIsImported /\ CountedIsRewritten
=============================================================================
