----------------------------- MODULE MemoryStore -----------------------------
(***************************************************************************)
(* The memory backends of src/src/memory/memory.c: the table of the SQLite *)
(* backend with its sweep and its JSON export and import, the engrams of   *)
(* the muninn backend (src/src/muninn/muninn.c), the cache of responses,   *)
(* and the text chunker.  SQLite is modelled by what its statements do:    *)
(* each one happens as a whole or fails.                                   *)
(***************************************************************************)
EXTENDS Integers, Sequences, FiniteSets, SequencesExt, FiniteSetsExt

CONSTANTS Keys, Values,        \* "key" and "value" among them
          Matches,             \* Matches[k]: the pairs of a key and a value that a full
                               \* text search for k finds
          Recency,             \* Recency[t]: the weight of an access at time t; it
                               \* halves in seven days
          MaxCandidates,       \* MAX_ACTIVATE_CANDIDATES
          MaxEngrams, MaxAccess,    \* bounds: engrams, and accesses of one
          Prompts, Responses,
          CutPrompt, CutResponse,   \* the first 2047 and 4095 characters of each
          EmptyPrompt,
          ListLimit,           \* LIMIT 100 in memory_list
          CacheSize,           \* CACHE_SIZE
          ChunkSize, BreakWindow,   \* chunk_size; 20
          TextLength,          \* bound: the length of a text
          MaxMemTime,          \* bound: the clock
          Wrap,                \* the unsigned cutoff is computed modulo Wrap
          MaxSets              \* bound: calls of memory_response_cache_set

ASSUME MemoryAssumption ==
    /\ "key" \in Keys /\ "value" \in Values
    /\ ListLimit \in Nat \ {0} /\ CacheSize \in Nat \ {0} /\ ChunkSize \in Nat \ {0}
    /\ BreakWindow \in Nat /\ TextLength \in Nat /\ MaxMemTime \in Nat /\ MaxSets \in Nat
    /\ Wrap \in Nat /\ Wrap > MaxMemTime
    /\ Matches \in [Keys -> SUBSET (Keys \X Values)]
    /\ Recency \in [0..MaxMemTime -> Nat \ {0}]
    /\ \A t, u \in 0..MaxMemTime : t <= u => Recency[t] <= Recency[u]
    /\ MaxCandidates \in Nat \ {0} /\ MaxEngrams \in Nat /\ MaxAccess \in Nat
    /\ CutPrompt \in [Prompts -> Prompts] /\ CutResponse \in [Responses -> Responses]
    /\ \A p \in Prompts : CutPrompt[CutPrompt[p]] = CutPrompt[p]
    /\ EmptyPrompt \in Prompts /\ CutPrompt[EmptyPrompt] = EmptyPrompt

VARIABLES backend, db_handle,  \* memory_t: the backend, and whether it is open
          rows,                \* the table, a set of rows
          clock,               \* the time
          wrote,               \* wrote[k]: what was last stored under k, {} if it
                               \* was deleted since
          exported,            \* the file of memory_export_json, newest row first
          engrams,             \* muninn's table, in the order of the ids
          recalled,            \* the key and the engram of the last recall that
                               \* matched, <<>> if something newer was stored since
          g_cache, g_cache_count,   \* the ring of responses
          sets,                \* the pairs given to memory_response_cache_set
          spaces, chunks       \* a text (where its spaces are) and its chunks

muninnVars == <<engrams, recalled>>
storeVars == <<backend, db_handle, rows, clock, wrote, exported, muninnVars>>
cacheVars == <<g_cache, g_cache_count, sets>>
chunkVars == <<spaces, chunks>>
memoryVars == <<storeVars, cacheVars, chunkVars>>

Row == [key : Keys, value : Values, timestamp : 0..MaxMemTime]
Engram == [concept : Keys, content : Values, access_count : 0..MaxAccess,
           last_access : 0..MaxMemTime]
Backends == {"none", "sqlite", "muninn", "markdown", "lucid", "postgres"}

MemoryInit ==
    /\ backend = "none" /\ db_handle = FALSE
    /\ rows = {} /\ clock = 0 /\ wrote = [k \in Keys |-> {}]
    /\ exported = <<>> /\ engrams = <<>> /\ recalled = <<>>
    /\ g_cache = [i \in 0..CacheSize - 1 |-> <<>>] /\ g_cache_count = 0 /\ sets = <<>>
    /\ spaces = <<>> /\ chunks = <<>>
-----------------------------------------------------------------------------
(* The table. *)

\* memory_create: an unknown name means markdown, which like lucid and postgres
\* has no store behind memory_store; a database that cannot be opened leaves the
\* handle without one (memory_create returns an error for muninn only).
memory_create ==
    /\ backend = "none"
    /\ backend' \in Backends
    /\ db_handle' \in IF backend' \in {"sqlite", "muninn"} THEN BOOLEAN ELSE {FALSE}
    /\ UNCHANGED <<rows, clock, wrote, exported, muninnVars, cacheVars, chunkVars>>

Open == backend = "sqlite" /\ db_handle

\* Mistake: INSERT without OR REPLACE.
StoredTwice(r, k, v, t) == r \cup {[key |-> k, value |-> v, timestamp |-> t]}

\* INSERT OR REPLACE, key is the primary key.
Stored(r, k, v, t) ==
    {x \in r : x.key /= k} \cup {[key |-> k, value |-> v, timestamp |-> t]}

memory_store(k, v) ==
    /\ Open
    /\ rows' = Stored(rows, k, v, clock) /\ wrote' = [wrote EXCEPT ![k] = {v}]
    /\ UNCHANGED <<backend, db_handle, clock, exported, muninnVars, cacheVars, chunkVars>>

memory_delete(k) ==
    /\ Open
    /\ rows' = {x \in rows : x.key /= k} /\ wrote' = [wrote EXCEPT ![k] = {}]
    /\ UNCHANGED <<backend, db_handle, clock, exported, muninnVars, cacheVars, chunkVars>>

memory_clear ==
    /\ Open
    /\ rows' = {} /\ wrote' = [k \in Keys |-> {}]
    /\ UNCHANGED <<backend, db_handle, clock, exported, muninnVars, cacheVars, chunkVars>>

\* memory_free closes the database, which is opened again by the next process.
memory_free ==
    /\ backend /= "none"
    /\ backend' = "none" /\ db_handle' = FALSE
    /\ UNCHANGED <<rows, clock, wrote, exported, muninnVars, cacheVars, chunkVars>>

MemoryClock == /\ clock < MaxMemTime
               /\ clock' = clock + 1
               /\ UNCHANGED <<backend, db_handle, rows, wrote, exported, muninnVars,
                              cacheVars, chunkVars>>

\* An age beyond the beginning of time wraps round.
cutoff(days) == (clock - days) % Wrap

memory_hygiene_run(days) ==
    /\ Open /\ days > 0
    /\ LET old == {x \in rows : x.timestamp < cutoff(days)}
       IN  /\ rows' = rows \ old
           /\ wrote' = [k \in Keys |-> IF \E x \in old : x.key = k THEN {} ELSE wrote[k]]
    /\ UNCHANGED <<backend, db_handle, clock, exported, muninnVars, cacheVars, chunkVars>>

\* What memory_recall finds: one row, or none.
memory_recall(k) == {x.value : x \in {y \in rows : y.key = k}}

\* Mistake: no LIMIT.
ListingsAll == {s \in [1..Cardinality(rows) -> rows] : IsInjective(s)}

\* ORDER BY timestamp DESC LIMIT: rows of the same time come in any order.
Listings ==
    LET Newer(s) == \A i, j \in DOMAIN s : i < j => s[i].timestamp >= s[j].timestamp
        n == IF Cardinality(rows) < ListLimit THEN Cardinality(rows) ELSE ListLimit
    IN  {s \in [1..n -> rows] :
            /\ IsInjective(s) /\ Newer(s)
            /\ \A x \in rows \ ToSet(s) : \A i \in DOMAIN s : s[i].timestamp >= x.timestamp}

\* memory_export_json writes the list; an empty one leaves the file alone.
memory_export_json ==
    /\ Open /\ rows /= {}
    /\ exported' \in Listings
    /\ UNCHANGED <<backend, db_handle, rows, clock, wrote, muninnVars, cacheVars, chunkVars>>

\* memory_import_json finds the quote before the name of a field again, so it
\* takes "key" for the key and "value" for the value of every item.
memory_import_json ==
    /\ Open /\ exported /= <<>>
    /\ rows' = Stored(rows, "key", "value", clock)
    /\ wrote' = [wrote EXCEPT !["key"] = {"value"}]
    /\ UNCHANGED <<backend, db_handle, clock, exported, muninnVars, cacheVars, chunkVars>>
-----------------------------------------------------------------------------
(* The muninn backend.  memory_delete, the sweep, the list and the import of *)
(* memory.c do nothing on it; the clearing says that it did.                 *)

OpenMuninn == backend = "muninn" /\ db_handle

\* memory_store on muninn is muninn_write: always a new engram.
memory_muninn_store(k, v) ==
    /\ OpenMuninn /\ Len(engrams) < MaxEngrams
    /\ engrams' = Append(engrams, [concept |-> k, content |-> v, access_count |-> 0,
                                   last_access |-> clock])
    /\ recalled' = IF recalled /= <<>> /\ engrams[recalled[2]].last_access = clock
                   THEN recalled ELSE <<>>
    /\ UNCHANGED <<backend, db_handle, rows, clock, wrote, exported, cacheVars, chunkVars>>

\* temporal_priority, without the factor that the present time gives to all.
Priority(e) == (1 + e.access_count) * Recency[e.last_access]

Hits(k) == {i \in DOMAIN engrams : <<engrams[i].concept, engrams[i].content>> \in Matches[k]}

\* The first MaxCandidates matches (the confidence of every engram is 0.8).
MatchedFor(k) == {i \in Hits(k) : Cardinality({j \in Hits(k) : j < i}) < MaxCandidates}

\* ORDER BY last_access_sec DESC, access_count DESC, when nothing matches.
Fallbacks ==
    LET Before(d, e) == \/ d.last_access > e.last_access
                        \/ d.last_access = e.last_access /\ d.access_count > e.access_count
    IN  {C \in SUBSET DOMAIN engrams :
            /\ Cardinality(C) = IF Len(engrams) < MaxCandidates THEN Len(engrams)
                                                               ELSE MaxCandidates
            /\ \A i \in C, j \in DOMAIN engrams \ C : ~Before(engrams[j], engrams[i])}

\* The best of the candidates; which of several is up to the search.
Strongest(C) == {i \in C : \A j \in C : Priority(engrams[j]) <= Priority(engrams[i])}

\* Mistake: the access is not recorded.
Unrecorded(i) == engrams

\* muninn_activate records the access to what it returns.
Accessed(i) == [engrams EXCEPT ![i].access_count = @ + 1, ![i].last_access = clock]

\* memory_recall on muninn is muninn_activate for the best one.
memory_muninn_recall(k) ==
    /\ OpenMuninn /\ engrams /= <<>>
    /\ \E C \in IF Hits(k) = {} THEN Fallbacks ELSE {MatchedFor(k)} :
       \E i \in Strongest(C) :
          /\ engrams[i].access_count < MaxAccess
          /\ engrams' = Accessed(i)
          /\ recalled' = IF Hits(k) = {} THEN <<>> ELSE <<k, i>>
    /\ UNCHANGED <<backend, db_handle, rows, clock, wrote, exported, cacheVars, chunkVars>>
-----------------------------------------------------------------------------
(* The cache of responses. *)

\* snprintf cuts the prompt and the answer to the slot.
Slot(p, r) == <<CutPrompt[p], CutResponse[r]>>

memory_response_cache_set(p, r) ==
    /\ Len(sets) < MaxSets
    /\ g_cache' = [g_cache EXCEPT ![g_cache_count % CacheSize] = Slot(p, r)]
    /\ g_cache_count' = g_cache_count + 1
    /\ sets' = Append(sets, <<p, r>>)
    /\ UNCHANGED <<storeVars, chunkVars>>

\* memory_response_cache_get: the first slot with the prompt, which is not cut for
\* the comparison; {} if there is none.  An empty prompt is a free slot.
memory_response_cache_get(p) ==
    LET hits == {i \in DOMAIN g_cache : /\ g_cache[i] /= <<>> /\ g_cache[i][1] /= EmptyPrompt
                                        /\ g_cache[i][1] = p}
    IN  IF hits = {} THEN {} ELSE {g_cache[Min(hits)][2]}
-----------------------------------------------------------------------------
(* memory_chunk_text, one chunk at a time. *)

num_chunks == (Len(spaces) + ChunkSize - 1) \div ChunkSize
Offset == IF chunks = <<>> THEN 0 ELSE Last(chunks).end

NewText ==
    /\ spaces = <<>>
    /\ \E n \in 1..TextLength : spaces' \in [1..n -> BOOLEAN]
    /\ UNCHANGED <<chunks, storeVars, cacheVars>>

copy_len == IF Offset + ChunkSize > Len(spaces) THEN Len(spaces) - Offset ELSE ChunkSize

\* Behind the last space among the last BreakWindow characters.
break_pos ==
    LET back == {i \in 0..BreakWindow - 1 : i < copy_len /\ spaces[Offset + copy_len - i]}
    IN  IF back = {} THEN copy_len ELSE copy_len - Min(back)

memory_chunk_text ==
    /\ Offset < Len(spaces) /\ Len(chunks) < num_chunks
    /\ chunks' = Append(chunks, [start |-> Offset, end |-> Offset + break_pos])
    /\ UNCHANGED <<spaces, storeVars, cacheVars>>

MemoryStoreNext ==
    \/ memory_create \/ memory_clear \/ memory_free \/ MemoryClock
    \/ \E k \in Keys, v \in Values : memory_store(k, v)
    \/ \E k \in Keys : memory_delete(k)
    \/ \E days \in 1..MaxMemTime + 1 : memory_hygiene_run(days)
    \/ memory_export_json \/ memory_import_json
MemoryMuninnNext ==
    \/ memory_create \/ memory_free \/ MemoryClock
    \/ \E k \in Keys, v \in Values : memory_muninn_store(k, v)
    \/ \E k \in Keys : memory_muninn_recall(k)
MemoryCacheNext == \E p \in Prompts, r \in Responses : memory_response_cache_set(p, r)
MemoryChunkNext == NewText \/ memory_chunk_text

MemoryNext == MemoryStoreNext \/ MemoryMuninnNext \/ MemoryCacheNext \/ MemoryChunkNext
MemorySpec == MemoryInit /\ [][MemoryNext]_memoryVars
-----------------------------------------------------------------------------
\* The tables and the ring.
MemoryTypeOK ==
    /\ backend \in Backends /\ db_handle \in BOOLEAN
    /\ rows \subseteq Row /\ clock \in 0..MaxMemTime /\ wrote \in [Keys -> SUBSET Values]
    /\ Len(exported) <= ListLimit /\ engrams \in Seq(Engram)
    /\ \A i \in DOMAIN g_cache : g_cache[i] = <<>> \/ g_cache[i] \in Prompts \X Responses

\* On the SQLite backend memory_recall returns what was stored last under the key
\* and not deleted, cleared or swept since, also after the database was closed and
\* opened again and whatever was imported.
RecallsLast == \A k \in Keys : memory_recall(k) = wrote[k]

\* A sweep for an age within the time that has passed removes nothing that is
\* younger.  (For a greater age the cutoff wraps and everything is removed.)
SweepSparesFresh ==
    [][\A days \in 1..clock :
          memory_hygiene_run(days) => \A x \in rows \ rows' : clock - x.timestamp > days
      ]_memoryVars

\* The export leaves out a row only for newer ones: it was taken in one
\* statement from the rows of that moment.
ExportIsNewest ==
    [][exported' /= exported =>
          \A x \in rows : \/ x \in ToSet(exported')
                          \/ /\ Len(exported') = ListLimit
                             /\ \A y \in ToSet(exported') : y.timestamp >= x.timestamp
      ]_memoryVars

\* What muninn's memory_recall returned for a key that matched is the only best
\* one for it from then on, until another recall or a store at a later time: a
\* value stored under the same key at that time does not come out, however often
\* one asks, and time alone changes nothing.
RecalledStays == recalled /= <<>> => Strongest(MatchedFor(recalled[1])) = {recalled[2]}

\* An answer from the cache is the beginning of one of the last CacheSize answers,
\* given for this prompt or for a longer one that was cut to it; so a prompt that
\* does not fit a slot is never found.  The latest answer has a hit, under as much
\* of its prompt as fits and unless that is empty.
CachedForPrompt ==
    /\ \A p \in Prompts : \A r \in memory_response_cache_get(p) :
          /\ CutPrompt[p] = p
          /\ \E i \in DOMAIN sets : i > Len(sets) - CacheSize /\ Slot(sets[i][1], sets[i][2]) = <<p, r>>
    /\ sets /= <<>> =>
          LET p == CutPrompt[Last(sets)[1]]
          IN  p /= EmptyPrompt => memory_response_cache_get(p) /= {}

\* The chunks are the text from its beginning, without a gap or an overlap,
\* none is empty and none longer than ChunkSize; unless a chunk was cut short
\* at a space they are all of it.
ChunksFollow ==
    /\ \A i \in DOMAIN chunks :
          /\ chunks[i].start = IF i = 1 THEN 0 ELSE chunks[i - 1].end
          /\ chunks[i].end - chunks[i].start \in 1..ChunkSize
          /\ chunks[i].end <= Len(spaces)
    /\ /\ Len(chunks) = num_chunks
       /\ \A i \in 1..Len(chunks) - 1 : chunks[i].end - chunks[i].start = ChunkSize
       /\ spaces /= <<>> /\ Offset < Len(spaces)
       => Last(chunks).end - Last(chunks).start < ChunkSize /\ spaces[Offset]

\* What was put into the memory, its cache or its chunker comes out again.
MemoryFaithful == RecallsLast /\ RecalledStays /\ CachedForPrompt /\ ChunksFollow
=============================================================================
