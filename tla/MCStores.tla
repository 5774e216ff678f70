------------------------------- MODULE MCStores -------------------------------
(***************************************************************************)
(* Everything the program keeps in a table or a file of its own, one at a  *)
(* time: the cron table, the memory with its cache and its chunker, the    *)
(* migration into it, the registries and the RAG index; and the tools,     *)
(* whose handlers share one buffer.                                        *)
(* Their code shares no data, so each is explored by itself: store says    *)
(* which one this behaviour is about; the others stay as they were.        *)
(***************************************************************************)
EXTENDS MCCron, Migration, Registries, Rag, MCTools

TwoExports == {<<<<"a", "v">>, <<"key", "v">>, <<"a", "value">>>>,
               <<<<"a", "v">>, NoPair, <<"key", "v">>>>}

\* A text "v" holds the words of every key.
TwoMatches == [k \in Keys |-> {pair \in Keys \X Values : pair[1] = k \/ pair[2] = "v"}]
\* exp(-0.693 d / 7) is just above one half after seven days.
Halving == [t \in 0..MaxMemTime |-> CASE t = 0 -> 10 [] t = 1 -> 19 [] OTHER -> 37]
CutPrompts == [p \in Prompts |-> IF p = "pp" THEN "p" ELSE p]
CutResponses == [r \in Responses |-> IF r = "rr" THEN "r" ELSE r]

VARIABLE store

storesVars == <<cronVars, migrationVars, registryVars, ragVars, toolVars, store>>

StoresInit ==
    /\ store \in {"cron", "memory", "cache", "chunks", "migration", "auth",
                  "muninn", "skills", "instances", "approvals", "health", "rag", "pieces", "tools"}
    /\ CronInit /\ MigrationInit /\ RegistriesInit /\ RagInit /\ ToolsInit

OnlyCron == store = "cron" /\ UNCHANGED <<migrationVars, registryVars, ragVars, toolVars, store>>
OnlyMigration == store = "migration"
                 /\ UNCHANGED <<cronVars, registryVars, ragVars, toolVars, store>>
OnlyMemory(s, Action) ==
    /\ store = s /\ Action
    /\ UNCHANGED <<json, regular, dest, mstate, counters, pending, kills>>
    /\ UNCHANGED <<cronVars, registryVars, ragVars, toolVars, store>>
OnlyRegistry(s, Action) ==
    /\ store = s /\ Action
    /\ UNCHANGED <<cronVars, migrationVars, ragVars, toolVars, store>>
OnlyRag(s, Action) ==
    /\ store = s /\ Action
    /\ UNCHANGED <<cronVars, migrationVars, registryVars, toolVars, store>>

OnlyTools == store = "tools"
             /\ UNCHANGED <<cronVars, migrationVars, registryVars, ragVars, store>>

StoresNext ==
    \/ OnlyCron /\ CronNext
    \/ OnlyMemory("memory", MemoryStoreNext)
    \/ OnlyMemory("muninn", MemoryMuninnNext)
    \/ OnlyMemory("cache", MemoryCacheNext)
    \/ OnlyMemory("chunks", MemoryChunkNext)
    \/ OnlyMigration /\ MigrationNext
    \/ OnlyRegistry("auth", AuthNext)
    \/ OnlyRegistry("skills", SkillsNext)
    \/ OnlyRegistry("instances", InstancesNext)
    \/ OnlyRegistry("approvals", ApprovalsNext)
    \/ OnlyRegistry("health", HealthNext)
    \/ OnlyRag("rag", RagIndexNext)
    \/ OnlyRag("pieces", RagChunkNext)
    \/ OnlyTools /\ ToolsNext

StoresSpec == StoresInit /\ [][StoresNext]_storesVars
-----------------------------------------------------------------------------
\* The variables of every store have their types.
StoresTypeOK == CronTypeOK /\ MemoryTypeOK /\ RegistriesTypeOK /\ RagTypeOK

\* Steps that select from a table take what they should and leave the rest: the
\* export, the sweep, the run of a skill and the clearing of old requests.
StepsSelectRight == ExportIsNewest /\ SweepSparesFresh /\ DisabledNeverRuns /\ AnswersStay
=============================================================================
