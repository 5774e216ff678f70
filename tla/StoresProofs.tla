----------------------------- MODULE StoresProofs -----------------------------
(***************************************************************************)
(* Proofs about the stores, for every value of their constants: modules    *)
(* Cron, MemoryStore, Migration, Registries, Rag and Tools one by one, and *)
(* then all of them together, as MCStores has them.  Commands, schedules,  *)
(* names, keys, texts, requests and the sizes of the tables are arbitrary. *)
(* A crash in the middle of a save, a save that fails and a migration that *)
(* is killed are part of what is proved.  Where a theorem needs it, it     *)
(* assumes OneAtATime, that the daemon and the cron command do not run     *)
(* together: CronRace.cfg shows what happens when they do.                 *)
(***************************************************************************)
EXTENDS MCStores, OperatorLemmas, FiniteSetTheorems, TLAPS

USE DEF cronVars
-----------------------------------------------------------------------------
(* The schedule. *)

LEMMA CronNats ==
    /\ MaxTasks \in Nat /\ MaxTime \in Nat /\ Minute \in Nat \ {0} /\ Hour \in Nat \ {0}
    /\ Minute <= Hour
  BY CronAssumption

LEMMA IntervalType == ASSUME NEW e PROVE Interval(e) \in Nat \ {0} /\ Interval(e) <= Hour
  BY CronNats DEF Interval

\* The next run is later, by at most an hour, and not in the interval of any
\* time before.
LEMMA NextRun ==
    ASSUME NEW e, NEW from \in Nat
    PROVE  /\ calculate_next_run(e, from) \in from + 1..from + Hour
           /\ \A r \in 0..from : Spaced(e, r, calculate_next_run(e, from))
<1>1. CASE e \in Short
  BY <1>1, CronNats DEF calculate_next_run, Spaced
<1>2. CASE e \notin Short
  <2>1. PICK n \in Nat \ {0} : n = Interval(e) /\ n <= Hour
    BY IntervalType
  <2>2. PICK q \in Nat : q = from \div n /\ n * q <= from /\ from < n * (q + 1)
    BY DivBounds
  <2>3. PICK c \in Nat : c = (q + 1) * n
    BY SMT
  <2>4. c = n * (q + 1) /\ n * (q + 1) = n * q + n /\ n * q \in Nat
    BY <2>3, SMT
  <2>5. calculate_next_run(e, from) = c
    BY <1>2, <2>1, <2>2, <2>3 DEF calculate_next_run
  <2>6. c \div n = q + 1
    BY <2>3, DivOfMultiple
  <2>7. ASSUME NEW r \in 0..from PROVE Spaced(e, r, c)
    <3>1. r \div n <= q /\ r \div n \in Nat
      BY <2>2, DivMonotone, DivBounds
    <3>2. QED
      BY <1>2, <2>1, <2>6, <3>1 DEF Spaced
  <2>8. c \in from + 1..from + Hour
    BY <2>1, <2>2, <2>4, CronNats
  <2>9. QED
    BY <2>5, <2>7, <2>8
<1>3. QED
  BY <1>1, <1>2

\* A later time is spaced too.
LEMMA SpacedLater ==
    ASSUME NEW e, NEW r \in Nat, NEW n \in Nat, NEW m \in Nat, Spaced(e, r, n), n <= m
    PROVE  Spaced(e, r, m)
<1>1. CASE e \in Short
  BY <1>1, CronNats DEF Spaced
<1>2. CASE e \notin Short
  <2>1. PICK d \in Nat \ {0} : d = Interval(e)
    BY IntervalType
  <2>2. n \div d <= m \div d /\ n \div d \in Nat /\ m \div d \in Nat /\ r \div d \in Nat
    BY DivMonotone, DivBounds
  <2>3. n \div d > r \div d
    BY <1>2, <2>1 DEF Spaced
  <2>4. m \div d > r \div d
    BY <2>2, <2>3
  <2>5. QED
    BY <1>2, <2>1, <2>4 DEF Spaced
<1>3. QED
  BY <1>1, <1>2
-----------------------------------------------------------------------------
(* The types. *)

States == {"down", "idle", "run", "op", "save", "saveWrite", "end", "endWrite"}

\* CronTypeOK, and nothing was read from the clock that is ahead of it.
TypeInv ==
    /\ now \in 0..MaxTime
    /\ file \in Seq(Tasks)
    /\ g_tasks \in [Procs -> Seq(Tasks)] /\ \A p \in Procs : Len(g_tasks[p]) <= MaxTasks
    /\ pc \in [Procs -> States]
    /\ req \in [Procs -> Requests]
    /\ at \in 0..MaxTasks + 1 /\ (pc[Daemon] = "run" => at >= 1)
    /\ tick \in 0..now /\ loaded \in 0..now
    /\ ran \in [Ids -> -1..MaxTime] /\ (\A id \in Ids : ran[id] <= now)
    /\ added \in [Ids -> BOOLEAN]

\* What is asked for in a request.
LEMMA RequestFields ==
    ASSUME NEW r \in Requests
    PROVE  /\ r.op \in {"remove", "add", "added"} => r.id \in Ids
           /\ r.op = "add" => r.expression \in Exprs /\ r.command \in Cmds
  BY DEF Requests

\* A line that is loaded keeps its id, its expression and its command; one that
\* is not split keeps the rest, but for a time that has passed.
LEMMA LoadedRow ==
    ASSUME NEW t \in Tasks, now \in 0..MaxTime
    PROVE  /\ Loaded(t) \in Tasks
           /\ Loaded(t).id = t.id /\ Loaded(t).expression = t.expression
           /\ Loaded(t).command = t.command
           /\ t.command \notin Piped => Loaded(t).whole = t.whole /\ Loaded(t).enabled = t.enabled
           /\ \/ Loaded(t).next_run = calculate_next_run(t.expression, now)
              \/ Loaded(t).next_run = t.next_run /\ t.next_run >= now
           /\ Loaded(t).enabled /\ Loaded(t).next_run /= t.next_run => t.next_run < now
<1> DEFINE split == t.whole /\ t.command \in Piped
<1>0. /\ t.whole \in BOOLEAN /\ t.enabled \in BOOLEAN /\ t.next_run \in 0..MaxTime + Hour
      /\ t.expression \in Exprs /\ MaxTime \in Nat /\ Hour \in Nat
  BY CronNats DEF Tasks
<1>1. PICK w \in BOOLEAN : w = (t.whole /\ ~split)
  OBVIOUS
<1>2. PICK b \in BOOLEAN : b = (t.enabled /\ ~split)
  OBVIOUS
<1>3. PICK c \in 0..MaxTime + Hour : c = calculate_next_run(t.expression, now)
  <2>1. calculate_next_run(t.expression, now) \in now + 1..now + Hour
    BY NextRun
  <2>2. QED
    BY <1>0, <2>1
<1>4. PICK n \in 0..MaxTime + Hour :
         n = IF split \/ t.next_run < now THEN c ELSE t.next_run
  BY <1>0
<1>5. Loaded(t) = [t EXCEPT !.whole = w, !.enabled = b, !.next_run = n]
  BY <1>1, <1>2, <1>3, <1>4 DEF Loaded
<1>6. PICK l \in Tasks : l = Loaded(t) /\ l.whole = w /\ l.enabled = b /\ l.next_run = n
         /\ l.id = t.id /\ l.expression = t.expression /\ l.command = t.command
  BY <1>5 DEF Tasks
<1>7. t.command \notin Piped => w = t.whole /\ b = t.enabled
  BY <1>0, <1>1, <1>2
<1>8. n = c \/ (n = t.next_run /\ t.next_run >= now)
  BY <1>0, <1>4
<1>a. b => ~split
  BY <1>2
<1>b. b /\ n /= t.next_run => t.next_run < now
  BY <1>4, <1>a
<1>9. QED
  BY <1>3, <1>6, <1>7, <1>8, <1>b

\* The table is what its lines become, up to MaxTasks of them.
LEMMA LoadedTable ==
    ASSUME file \in Seq(Tasks), now \in 0..MaxTime
    PROVE  /\ load_tasks_from_disk \in Seq(Tasks)
           /\ Len(load_tasks_from_disk) = IF Len(file) < MaxTasks THEN Len(file) ELSE MaxTasks
           /\ \A i \in 1..Len(load_tasks_from_disk) :
                 load_tasks_from_disk[i] = Loaded(file[i]) /\ i \in 1..Len(file)
<1>1. PICK n \in Nat : n = (IF Len(file) < MaxTasks THEN Len(file) ELSE MaxTasks)
                       /\ n <= MaxTasks /\ n <= Len(file)
  BY CronNats
<1>2. load_tasks_from_disk = [i \in 1..n |-> Loaded(file[i])]
  BY <1>1 DEF load_tasks_from_disk
<1>3. \A i \in 1..n : i \in 1..Len(file) /\ file[i] \in Tasks /\ Loaded(file[i]) \in Tasks
  <2> TAKE i \in 1..n
  <2>1. i \in 1..Len(file)
    BY <1>1
  <2>2. file[i] \in Tasks
    BY <2>1
  <2>3. QED
    BY <2>1, <2>2, LoadedRow
<1>4. load_tasks_from_disk \in [1..n -> Tasks]
  BY <1>2, <1>3
<1>5. load_tasks_from_disk \in Seq(Tasks) /\ Len(load_tasks_from_disk) = n
  BY <1>4
<1>6. QED
  BY <1>1, <1>2, <1>3, <1>5

\* One table is replaced.
LEMMA TableChanged ==
    ASSUME TypeInv, NEW p \in Procs, NEW s \in Seq(Tasks), Len(s) <= MaxTasks,
           g_tasks' = [g_tasks EXCEPT ![p] = s]
    PROVE  /\ g_tasks' \in [Procs -> Seq(Tasks)]
           /\ \A q \in Procs : Len(g_tasks'[q]) <= MaxTasks
           /\ g_tasks'[p] = s /\ \A q \in Procs : q /= p => g_tasks'[q] = g_tasks[q]
<1>1. g_tasks \in [Procs -> Seq(Tasks)] /\ \A q \in Procs : Len(g_tasks[q]) <= MaxTasks
  BY DEF TypeInv
<1>2. QED
  BY <1>1

\* The row that cron_add_task appends.
LEMMA AddFacts ==
    ASSUME TypeInv, NEW p \in Procs, cron_add_task(p)
    PROVE  \E t \in Tasks :
              /\ t.id = req[p].id /\ t.id \in Ids /\ t.whole /\ t.enabled
              /\ g_tasks' = [g_tasks EXCEPT ![p] = Append(g_tasks[p], t)]
              /\ Append(g_tasks[p], t) \in Seq(Tasks)
              /\ Len(Append(g_tasks[p], t)) <= MaxTasks
<1>1. req[p] \in Requests /\ req[p].op = "add" /\ now \in Nat /\ now <= MaxTime
      /\ g_tasks[p] \in Seq(Tasks)
  BY CronNats DEF TypeInv, cron_add_task
<1>2. req[p].id \in Ids /\ req[p].expression \in Exprs /\ req[p].command \in Cmds
  BY <1>1, RequestFields
<1>3. PICK c \in 0..MaxTime + Hour : c = calculate_next_run(req[p].expression, now)
  <2>1. calculate_next_run(req[p].expression, now) \in now + 1..now + Hour
    BY <1>1, NextRun
  <2>2. QED
    BY <1>1, <2>1, CronNats
<1> DEFINE t == [id |-> req[p].id, expression |-> req[p].expression,
                 command |-> req[p].command, whole |-> TRUE, enabled |-> TRUE,
                 next_run |-> c]
<1>4. t \in Tasks /\ t.id = req[p].id /\ t.whole /\ t.enabled
  BY <1>2 DEF Tasks
<1>5. g_tasks' = [g_tasks EXCEPT ![p] = Append(g_tasks[p], t)]
  BY <1>3 DEF cron_add_task
<1> HIDE DEF t
<1>6. Append(g_tasks[p], t) \in Seq(Tasks) /\ Len(Append(g_tasks[p], t)) = Len(g_tasks[p]) + 1
  BY <1>1, <1>4, AppendProperties
<1>7. Len(g_tasks[p]) + 1 <= MaxTasks
  BY <1>1, CronNats DEF cron_add_task
<1>8. QED
  BY <1>2, <1>4, <1>5, <1>6, <1>7

\* The row that cron_remove_task takes out.
LEMMA RemoveFacts ==
    ASSUME TypeInv, NEW p \in Procs, cron_remove_task(p)
    PROVE  \E i \in 1..Len(g_tasks[p]) :
              /\ g_tasks[p][i].id = req[p].id
              /\ g_tasks' = [g_tasks EXCEPT ![p] = RemoveAt(g_tasks[p], i)]
              /\ RemoveAt(g_tasks[p], i) \in Seq(Tasks)
              /\ Len(RemoveAt(g_tasks[p], i)) = Len(g_tasks[p]) - 1
              /\ \A j \in 1..Len(g_tasks[p]) - 1 :
                    RemoveAt(g_tasks[p], i)[j] = IF j < i THEN g_tasks[p][j] ELSE g_tasks[p][j + 1]
<1>1. g_tasks[p] \in Seq(Tasks)
  BY DEF TypeInv
<1>2. PICK i \in DOMAIN g_tasks[p] :
         /\ g_tasks[p][i].id = req[p].id
         /\ g_tasks' = [g_tasks EXCEPT ![p] = RemoveAt(@, i)]
  BY DEF cron_remove_task
<1>3. i \in 1..Len(g_tasks[p])
  BY <1>1
<1>4. g_tasks' = [g_tasks EXCEPT ![p] = RemoveAt(g_tasks[p], i)]
  BY <1>2
<1>5. QED
  BY <1>1, <1>2, <1>3, <1>4, RemoveAtProperties

\* What a round of cron_run_pending does to the table.
LEMMA RunFacts ==
    ASSUME TypeInv, RunTask
    PROVE  \E t \in Tasks :
              /\ at \in 1..Len(g_tasks[Daemon]) /\ t = g_tasks[Daemon][at]
              /\ \/ ~Due(t) /\ UNCHANGED <<ran, g_tasks>>
                 \/ /\ Due(t) /\ ran' = [ran EXCEPT ![t.id] = tick]
                    /\ \E u \in Tasks, s \in Seq(Tasks) :
                          /\ u.id = t.id /\ u.expression = t.expression /\ u.command = t.command
                          /\ u.whole = t.whole /\ u.enabled = t.enabled
                          /\ u.next_run = calculate_next_run(t.expression, tick)
                          /\ g_tasks' = [g_tasks EXCEPT ![Daemon] = s]
                          /\ Len(s) = Len(g_tasks[Daemon]) /\ s[at] = u
                          /\ \A i \in 1..Len(s) : i /= at => s[i] = g_tasks[Daemon][i]
<1>1. PICK g \in Seq(Tasks) : g = g_tasks[Daemon]
  BY DEF TypeInv, Procs
<1>2. at \in 1..Len(g)
  BY <1>1 DEF RunTask, TypeInv
<1>3. PICK t \in Tasks : t = g[at]
  BY <1>2
<1>4. PICK c \in 0..MaxTime + Hour : c = calculate_next_run(t.expression, tick)
  <2>1. tick \in Nat /\ tick <= MaxTime
    BY CronNats DEF TypeInv
  <2>2. calculate_next_run(t.expression, tick) \in tick + 1..tick + Hour
    BY <2>1, NextRun
  <2>3. QED
    BY <2>1, <2>2, CronNats
<1>5. PICK u \in Tasks : u = [t EXCEPT !.next_run = c] /\ u.next_run = c
         /\ u.id = t.id /\ u.expression = t.expression /\ u.command = t.command
         /\ u.whole = t.whole /\ u.enabled = t.enabled
  <2> DEFINE v == [t EXCEPT !.next_run = c]
  <2>1. /\ v \in Tasks /\ v.next_run = c
        /\ v.id = t.id /\ v.expression = t.expression /\ v.command = t.command
        /\ v.whole = t.whole /\ v.enabled = t.enabled
    BY DEF Tasks
  <2>2. QED
    BY <2>1
<1>6. PICK s \in Seq(Tasks) : s = [g EXCEPT ![at] = u] /\ Len(s) = Len(g) /\ s[at] = u
         /\ \A i \in 1..Len(s) : i /= at => s[i] = g[i]
  <2> DEFINE r == [g EXCEPT ![at] = u]
  <2>1. r \in Seq(Tasks) /\ Len(r) = Len(g) /\ r[at] = u
        /\ \A i \in 1..Len(r) : i /= at => r[i] = g[i]
    BY <1>2
  <2> HIDE DEF r
  <2>2. QED
    BY <2>1 DEF r
<1>7. CASE Due(t)
  <2>1. /\ ran' = [ran EXCEPT ![t.id] = tick]
        /\ g_tasks' = [g_tasks EXCEPT ![Daemon][at].next_run = c]
    BY <1>1, <1>3, <1>4, <1>7 DEF RunTask
  <2>2. g_tasks' = [g_tasks EXCEPT ![Daemon] = s]
    BY <1>1, <1>3, <1>5, <1>6, <2>1
  <2>3. /\ u.next_run = calculate_next_run(t.expression, tick)
        /\ Len(s) = Len(g_tasks[Daemon]) /\ s[at] = u
        /\ \A i \in 1..Len(s) : i /= at => s[i] = g_tasks[Daemon][i]
    BY <1>1, <1>4, <1>5, <1>6
  <2>4. /\ at \in 1..Len(g_tasks[Daemon]) /\ t = g_tasks[Daemon][at]
        /\ u.id = t.id /\ u.expression = t.expression /\ u.command = t.command
        /\ u.whole = t.whole /\ u.enabled = t.enabled
    BY <1>1, <1>2, <1>3, <1>5
  <2>5. QED
    BY <1>7, <2>1, <2>2, <2>3, <2>4, Zenon
<1>8. CASE ~Due(t)
  <2>1. UNCHANGED <<ran, g_tasks>>
    BY <1>1, <1>3, <1>8 DEF RunTask
  <2>2. QED
    BY <1>1, <1>2, <1>3, <1>8, <2>1
<1>9. QED
  BY <1>7, <1>8

\* What a save makes of the file.
LEMMA WrittenFacts ==
    ASSUME TypeInv, NEW p \in Procs
    PROVE  Written(p) \in Seq(Tasks) /\ (file = <<>> => Written(p) = g_tasks[p])
<1>1. PICK g \in Seq(Tasks) : g = g_tasks[p]
  BY DEF TypeInv
<1>2. file \in Seq(Tasks) /\ Len(file) \in Nat /\ Len(g) \in Nat
  BY DEF TypeInv
<1>3. PICK b : b = SubSeq(file, Len(g) + 1, Len(file))
  OBVIOUS
<1>4. b \in Seq(Tasks)
  <2>1. \A i \in Len(g) + 1..Len(file) : file[i] \in Tasks
    BY <1>2
  <2>2. Len(g) + 1 \in Int /\ Len(file) \in Int
    BY <1>2
  <2>3. QED
    BY <1>3, <2>1, <2>2, SubSeqProperties
<1>5. file = <<>> => Len(b) = 0
  <2>1. SUFFICES ASSUME file = <<>> PROVE Len(b) = 0
    OBVIOUS
  <2>2. Len(file) = 0
    BY <2>1
  <2>3. QED
    BY <1>2, <1>3, <2>2
<1>6. Written(p) = g \o b
  BY <1>1, <1>3 DEF Written
<1>7. file = <<>> => b = <<>>
  BY <1>4, <1>5, EmptySeq
<1>8. g \o b \in Seq(Tasks) /\ g \o <<>> = g
  BY <1>4, ConcatProperties, ConcatEmptySeq
<1>9. QED
  BY <1>1, <1>6, <1>7, <1>8

\* What is left of a save when the disk is full.
LEMMA CutFacts ==
    ASSUME TypeInv, NEW p \in Procs, NEW n \in 0..Len(g_tasks[p]) - 1
    PROVE  /\ WrittenUpTo(p, n) \in Seq(Tasks)
           /\ file = <<>> => /\ Len(WrittenUpTo(p, n)) = n
                             /\ \A i \in 1..n : WrittenUpTo(p, n)[i] = g_tasks[p][i]
<1>1. PICK g \in Seq(Tasks) : g = g_tasks[p] /\ n \in Nat /\ n <= Len(g)
  BY DEF TypeInv
<1>2. file \in Seq(Tasks) /\ Len(file) \in Nat /\ Len(g) \in Nat
  BY DEF TypeInv
<1>3. PICK a : a = SubSeq(g, 1, n) /\ a \in Seq(Tasks) /\ Len(a) = n /\ \A i \in 1..n : a[i] = g[i]
  <2>1. PICK c : c = SubSeq(g, 1, n)
    OBVIOUS
  <2>2. c \in Seq(Tasks) /\ Len(c) = n /\ \A i \in 1..n : c[i] = g[i]
    BY <1>1, <1>2, <2>1
  <2>3. QED
    BY <2>1, <2>2
<1>4. PICK b : b = SubSeq(file, n + 1, Len(file))
  OBVIOUS
<1>5. b \in Seq(Tasks)
  <2>1. \A i \in n + 1..Len(file) : file[i] \in Tasks
    BY <1>1, <1>2
  <2>2. n + 1 \in Int /\ Len(file) \in Int
    BY <1>1, <1>2
  <2>3. QED
    BY <1>4, <2>1, <2>2, SubSeqProperties
<1>6. file = <<>> => b = <<>>
  <2>1. SUFFICES ASSUME file = <<>> PROVE b = <<>>
    OBVIOUS
  <2>2. Len(file) = 0
    BY <2>1
  <2>3. Len(b) = 0
    BY <1>1, <1>2, <1>4, <2>2
  <2>4. QED
    BY <1>5, <2>3, EmptySeq
<1>7. WrittenUpTo(p, n) = a \o b
  BY <1>1, <1>3, <1>4 DEF WrittenUpTo
<1>8. a \o b \in Seq(Tasks) /\ a \o <<>> = a
  BY <1>3, <1>5, ConcatProperties, ConcatEmptySeq
<1>9. QED
  BY <1>1, <1>3, <1>6, <1>7, <1>8

LEMMA TypeInit == CronInit => TypeInv
  BY CronNats DEF CronInit, TypeInv, States, Requests, NoRequest, Procs

LEMMA TypeStep == TypeInv /\ [CronNext]_cronVars => TypeInv'
<1> SUFFICES ASSUME TypeInv, [CronNext]_cronVars PROVE TypeInv'
  OBVIOUS
<1>0. /\ MaxTasks \in Nat /\ MaxTime \in Nat /\ Daemon \in Procs /\ Clis \subseteq Procs
      /\ <<>> \in Seq(Tasks) /\ Len(<<>>) <= MaxTasks /\ NoRequest \in Requests
      /\ now \in Nat
  BY CronNats DEF Procs, NoRequest, Requests, TypeInv
<1>1. load_tasks_from_disk \in Seq(Tasks) /\ Len(load_tasks_from_disk) <= MaxTasks
  <2>1. file \in Seq(Tasks) /\ now \in 0..MaxTime
    BY DEF TypeInv
  <2>2. QED
    BY <1>0, <2>1, LoadedTable
<1>2. CASE DaemonStart
  BY <1>0, <1>1, <1>2, TableChanged DEF DaemonStart, TypeInv, States
<1>3. CASE RunBegin
  BY <1>0, <1>3 DEF RunBegin, TypeInv, States
<1>4. CASE RunTask
  <2>1. PICK t \in Tasks :
           /\ at \in 1..Len(g_tasks[Daemon])
           /\ \/ UNCHANGED <<ran, g_tasks>>
              \/ /\ ran' = [ran EXCEPT ![t.id] = tick]
                 /\ \E s \in Seq(Tasks) : /\ g_tasks' = [g_tasks EXCEPT ![Daemon] = s]
                                          /\ Len(s) = Len(g_tasks[Daemon])
    BY <1>4, RunFacts
  <2>2. Len(g_tasks[Daemon]) <= MaxTasks /\ g_tasks[Daemon] \in Seq(Tasks)
    BY <1>0 DEF TypeInv
  <2>3. g_tasks' \in [Procs -> Seq(Tasks)] /\ \A p \in Procs : Len(g_tasks'[p]) <= MaxTasks
    <3>1. CASE UNCHANGED g_tasks
      BY <3>1 DEF TypeInv
    <3>2. CASE ~UNCHANGED g_tasks
      <4>1. PICK s \in Seq(Tasks) : /\ g_tasks' = [g_tasks EXCEPT ![Daemon] = s]
                                    /\ Len(s) = Len(g_tasks[Daemon])
        BY <2>1, <3>2
      <4>2. QED
        BY <1>0, <2>2, <4>1, TableChanged
    <3>3. QED
      BY <3>1, <3>2
  <2>4. tick \in 0..now /\ tick \in -1..MaxTime
    BY <1>0 DEF TypeInv
  <2>5. ran' \in [Ids -> -1..MaxTime] /\ \A id \in Ids : ran'[id] <= now
    <3>1. ran \in [Ids -> -1..MaxTime] /\ \A id \in Ids : ran[id] <= now
      BY DEF TypeInv
    <3>2. CASE UNCHANGED ran
      BY <3>1, <3>2
    <3>3. CASE ran' = [ran EXCEPT ![t.id] = tick]
      <4>1. ran' \in [Ids -> -1..MaxTime]
        BY <2>4, <3>1, <3>3
      <4>2. \A id \in Ids : ran'[id] = ran[id] \/ ran'[id] = tick
        BY <3>1, <3>3
      <4>3. tick <= now
        BY <1>0, <2>4
      <4>4. QED
        BY <3>1, <4>1, <4>2, <4>3
    <3>4. QED
      BY <2>1, <3>2, <3>3
  <2>6. UNCHANGED <<now, file, pc, req, tick, added, loaded>> /\ at' = at + 1
    BY <1>4 DEF RunTask
  <2>7. at' \in 0..MaxTasks + 1 /\ at' >= 1
    BY <1>0, <2>1, <2>2, <2>6
  <2>8. QED
    BY <2>3, <2>5, <2>6, <2>7 DEF TypeInv
<1>5. CASE RunEnd
  BY <1>0, <1>5 DEF RunEnd, TypeInv, States
<1>6. CASE DaemonStop
  BY <1>0, <1>6 DEF DaemonStop, TypeInv, States
<1>7. CASE Clock
  BY <1>0, <1>7 DEF Clock, TypeInv
<1>8. ASSUME NEW p \in Clis, CliStart(p) PROVE TypeInv'
  <2>0. p \in Procs /\ p /= Daemon
    BY <1>0, CronAssumption
  <2>1. PICK r \in Requests : req' = [req EXCEPT ![p] = r]
    BY <1>8 DEF CliStart
  <2>2. QED
    BY <1>0, <1>1, <1>8, <2>0, <2>1, TableChanged DEF CliStart, TypeInv, States
<1>9. ASSUME NEW p \in Clis, cron_add_task(p) PROVE TypeInv'
  <2>0. p \in Procs /\ p /= Daemon
    BY <1>0, CronAssumption
  <2>1. PICK t \in Tasks :
              /\ t.id = req[p].id /\ t.id \in Ids
              /\ g_tasks' = [g_tasks EXCEPT ![p] = Append(g_tasks[p], t)]
              /\ Append(g_tasks[p], t) \in Seq(Tasks)
              /\ Len(Append(g_tasks[p], t)) <= MaxTasks
    BY <1>9, <2>0, AddFacts
  <2>2. g_tasks' \in [Procs -> Seq(Tasks)] /\ \A q \in Procs : Len(g_tasks'[q]) <= MaxTasks
    BY <2>0, <2>1, TableChanged
  <2>3. [op |-> "added", id |-> req[p].id] \in Requests
    BY <2>1 DEF Requests
  <2>4. req' \in [Procs -> Requests]
    BY <1>9, <2>3 DEF cron_add_task, TypeInv
  <2>5. ran' \in [Ids -> -1..MaxTime] /\ \A id \in Ids : ran'[id] <= now
    <3>1. ran \in [Ids -> -1..MaxTime] /\ \A id \in Ids : ran[id] <= now
      BY DEF TypeInv
    <3>2. ran' = [ran EXCEPT ![req[p].id] = -1] /\ -1 \in -1..MaxTime /\ -1 <= now
      BY <1>0, <1>9 DEF cron_add_task
    <3>3. ran' \in [Ids -> -1..MaxTime]
      BY <3>1, <3>2
    <3>4. \A id \in Ids : ran'[id] = ran[id] \/ ran'[id] = -1
      BY <3>1, <3>2
    <3>5. QED
      BY <3>1, <3>2, <3>3, <3>4
  <2>6. /\ pc' = [pc EXCEPT ![p] = "save"]
        /\ UNCHANGED <<now, file, at, tick, added, loaded>>
    BY <1>9 DEF cron_add_task
  <2>7. QED
    BY <2>0, <2>2, <2>4, <2>5, <2>6 DEF TypeInv, States
<1>10. ASSUME NEW p \in Clis, cron_remove_task(p) PROVE TypeInv'
  <2>0. p \in Procs /\ p /= Daemon /\ Len(g_tasks[p]) <= MaxTasks
    BY <1>0, CronAssumption DEF TypeInv
  <2>1. PICK i \in 1..Len(g_tasks[p]) :
              /\ g_tasks' = [g_tasks EXCEPT ![p] = RemoveAt(g_tasks[p], i)]
              /\ RemoveAt(g_tasks[p], i) \in Seq(Tasks)
              /\ Len(RemoveAt(g_tasks[p], i)) = Len(g_tasks[p]) - 1
    BY <1>10, <2>0, RemoveFacts
  <2>2. Len(RemoveAt(g_tasks[p], i)) <= MaxTasks
    <3>1. g_tasks[p] \in Seq(Tasks)
      BY <2>0 DEF TypeInv
    <3>2. Len(g_tasks[p]) \in Nat
      BY <3>1
    <3>3. QED
      BY <1>0, <2>0, <2>1, <3>2
  <2>3. g_tasks' \in [Procs -> Seq(Tasks)] /\ \A q \in Procs : Len(g_tasks'[q]) <= MaxTasks
    BY <2>0, <2>1, <2>2, TableChanged
  <2>4. /\ pc' = [pc EXCEPT ![p] = "save"] /\ added' = [added EXCEPT ![req[p].id] = FALSE]
        /\ UNCHANGED <<now, file, req, at, tick, ran, loaded>>
    BY <1>10 DEF cron_remove_task
  <2>5. added' \in [Ids -> BOOLEAN]
    BY <2>4 DEF TypeInv
  <2>6. QED
    BY <2>0, <2>3, <2>4, <2>5 DEF TypeInv, States
<1>11. ASSUME NEW p \in Clis, CliNothing(p) PROVE TypeInv'
  BY <1>0, <1>11, CronAssumption DEF CliNothing, TypeInv, States
<1>12. ASSUME NEW p \in Procs, SaveOpen(p) PROVE TypeInv'
  BY <1>0, <1>12 DEF SaveOpen, TypeInv, States
<1>13. ASSUME NEW p \in Procs, SaveWrite(p) PROVE TypeInv'
  BY <1>0, <1>13, WrittenFacts DEF SaveWrite, TypeInv, States
<1>14. ASSUME NEW p \in Procs, NEW b \in BOOLEAN, Leave(p, b)
       PROVE  /\ g_tasks' \in [Procs -> Seq(Tasks)]
              /\ \A q \in Procs : Len(g_tasks'[q]) <= MaxTasks
              /\ pc' = [pc EXCEPT ![p] = "down"]
              /\ req' \in [Procs -> Requests] /\ added' \in [Ids -> BOOLEAN]
              /\ tick' \in {0, tick} /\ loaded' \in {0, loaded}
  <2>1. g_tasks' = [g_tasks EXCEPT ![p] = <<>>]
    BY <1>14 DEF Leave, Ends
  <2>2. added' \in [Ids -> BOOLEAN]
    BY <1>14 DEF Leave, Ends, TypeInv
  <2>3. QED
    BY <1>0, <1>14, <2>1, <2>2, TableChanged DEF Leave, Ends, Forget, TypeInv
<1>15. ASSUME NEW p \in Procs, EndWrite(p) PROVE TypeInv'
  <2>1. Leave(p, TRUE) /\ file' = Written(p) /\ UNCHANGED <<now, at, ran>>
    BY <1>15 DEF EndWrite
  <2>2. /\ g_tasks' \in [Procs -> Seq(Tasks)]
        /\ \A q \in Procs : Len(g_tasks'[q]) <= MaxTasks
        /\ pc' = [pc EXCEPT ![p] = "down"]
        /\ req' \in [Procs -> Requests] /\ added' \in [Ids -> BOOLEAN]
        /\ tick' \in {0, tick} /\ loaded' \in {0, loaded}
    BY <1>14, <2>1
  <2>3. tick' \in 0..now' /\ loaded' \in 0..now'
    BY <2>1, <2>2 DEF TypeInv
  <2>4. QED
    BY <2>1, <2>2, <2>3, WrittenFacts DEF TypeInv, States
<1>16. ASSUME NEW p \in Procs, SaveFails(p) PROVE TypeInv'
  <2>1. CASE pc[p] = "end"
    <3>1. Leave(p, FALSE) /\ UNCHANGED <<now, file, at, ran>>
      BY <1>16, <2>1 DEF SaveFails
    <3>2. /\ g_tasks' \in [Procs -> Seq(Tasks)]
          /\ \A q \in Procs : Len(g_tasks'[q]) <= MaxTasks
          /\ pc' = [pc EXCEPT ![p] = "down"]
          /\ req' \in [Procs -> Requests] /\ added' \in [Ids -> BOOLEAN]
          /\ tick' \in {0, tick} /\ loaded' \in {0, loaded}
      BY <1>14, <3>1
    <3>3. tick' \in 0..now' /\ loaded' \in 0..now'
      BY <3>1, <3>2 DEF TypeInv
    <3>4. QED
      BY <3>1, <3>2, <3>3 DEF TypeInv, States
  <2>2. CASE pc[p] /= "end"
    BY <1>0, <1>16, <2>2 DEF SaveFails, TypeInv, States
  <2>3. QED
    BY <2>1, <2>2
<1>17. ASSUME NEW p \in Procs, Crash(p) PROVE TypeInv'
  <2>1. /\ pc' = [pc EXCEPT ![p] = "down"] /\ g_tasks' = [g_tasks EXCEPT ![p] = <<>>]
        /\ req' = [req EXCEPT ![p] = NoRequest] /\ at' \in {0, at}
        /\ added' = [id \in Ids |-> added[id] /\ pc[p] \notin {"saveWrite", "endWrite"}]
        /\ tick' \in {0, tick} /\ loaded' \in {0, loaded}
        /\ UNCHANGED <<now, file, ran>>
        /\ p = Daemon \/ at' = at
    BY <1>17 DEF Crash, Forget
  <2>2. g_tasks' \in [Procs -> Seq(Tasks)] /\ \A q \in Procs : Len(g_tasks'[q]) <= MaxTasks
    BY <1>0, <2>1, TableChanged
  <2>3. added' \in [Ids -> BOOLEAN]
    BY <2>1, Zenon DEF TypeInv
  <2>4. tick' \in 0..now' /\ loaded' \in 0..now'
    BY <2>1 DEF TypeInv
  <2>5. QED
    BY <1>0, <2>1, <2>2, <2>3, <2>4 DEF TypeInv, States
<1>18. ASSUME NEW p \in Procs, SaveCut(p) PROVE TypeInv'
  <2>1. PICK n \in 0..Len(g_tasks[p]) - 1 : file' = WrittenUpTo(p, n)
    BY <1>18 DEF SaveCut
  <2>2. file' \in Seq(Tasks) /\ added' \in [Ids -> BOOLEAN] /\ UNCHANGED <<now, at, ran>>
    BY <1>18, <2>1, CutFacts DEF SaveCut
  <2>3. CASE pc[p] = "endWrite"
    <3>1. /\ g_tasks' = [g_tasks EXCEPT ![p] = <<>>] /\ pc' = [pc EXCEPT ![p] = "down"]
          /\ req' = [req EXCEPT ![p] = NoRequest] /\ tick' \in {0, tick} /\ loaded' \in {0, loaded}
      BY <1>18, <2>3 DEF SaveCut, Ends, Forget
    <3>2. g_tasks' \in [Procs -> Seq(Tasks)] /\ \A q \in Procs : Len(g_tasks'[q]) <= MaxTasks
      BY <1>0, <3>1, TableChanged
    <3>3. tick' \in 0..now' /\ loaded' \in 0..now'
      BY <2>2, <3>1 DEF TypeInv
    <3>4. QED
      BY <1>0, <2>2, <3>1, <3>2, <3>3 DEF TypeInv, States
  <2>4. CASE pc[p] /= "endWrite"
    BY <1>0, <1>18, <2>2, <2>4 DEF SaveCut, TypeInv, States
  <2>5. QED
    BY <2>3, <2>4
<1>19. CASE UNCHANGED cronVars
  BY <1>19 DEF TypeInv
<1>20. QED
  BY <1>2, <1>3, <1>4, <1>5, <1>6, <1>7, <1>8, <1>9, <1>10, <1>11, <1>12, <1>13, <1>15,
     <1>16, <1>17, <1>18, <1>19 DEF CronNext

\* Whatever processes run, are killed or fail to save, at the same time or not: no
\* table gets longer than MaxTasks, and no task is put off by more than an hour.
THEOREM CronTypeCorrect == CronSpec => []CronTypeOK
<1>1. TypeInv => CronTypeOK
  BY CronNats DEF TypeInv, CronTypeOK, States
<1>2. QED
  BY <1>1, TypeInit, TypeStep, PTL DEF CronSpec
-----------------------------------------------------------------------------
(* One process at a time. *)

Writing == {"saveWrite", "endWrite"}

\* One process is up; the file is empty while it is written, so that it never
\* gets longer than a table, and a process that is down has no table.
AloneInv ==
    /\ \A p, q \in Procs : pc[p] /= "down" /\ pc[q] /= "down" => p = q
    /\ \A p \in Procs : pc[p] \in Writing => file = <<>>
    /\ \A p \in Procs : pc[p] = "down" => g_tasks[p] = <<>>
    /\ Len(file) <= MaxTasks

LEMMA AloneInit == CronInit => AloneInv
  BY CronNats DEF CronInit, AloneInv, Writing

\* The step of a process that is up or comes up alone.
LEMMA OneMoves ==
    ASSUME TypeInv, AloneInv, NEW p \in Procs, NEW x \in States,
           pc[p] /= "down" \/ (OneAtATime /\ Alone(p)),
           pc' = [pc EXCEPT ![p] = x],
           \A q \in Procs : q /= p => g_tasks'[q] = g_tasks[q],
           x = "down" => g_tasks'[p] = <<>>,
           x \in Writing => file' = <<>>,
           Len(file') <= MaxTasks
    PROVE  AloneInv'
<1>1. \A q \in Procs : q /= p => pc[q] = "down"
  BY DEF AloneInv, Alone
<1>2. pc'[p] = x /\ \A q \in Procs : q /= p => pc'[q] = "down"
  BY <1>1 DEF TypeInv
<1>3. \A q \in Procs : q /= p => g_tasks'[q] = <<>>
  BY <1>1 DEF AloneInv
<1>4. QED
  BY <1>2, <1>3 DEF AloneInv, Writing

LEMMA AloneStep ==
    ASSUME OneAtATime
    PROVE  TypeInv /\ TypeInv' /\ AloneInv /\ [CronNext]_cronVars => AloneInv'
<1> SUFFICES ASSUME TypeInv, TypeInv', AloneInv, [CronNext]_cronVars PROVE AloneInv'
  OBVIOUS
<1>0. /\ MaxTasks \in Nat /\ Daemon \in Procs /\ Clis \subseteq Procs /\ Len(<<>>) = 0
      /\ Len(file) <= MaxTasks /\ g_tasks \in [Procs -> Seq(Tasks)]
  BY CronNats DEF Procs, AloneInv, TypeInv
<1>1. CASE DaemonStart
  BY <1>0, <1>1, OneMoves DEF DaemonStart, States, Writing
<1>2. CASE RunBegin
  BY <1>0, <1>2, OneMoves DEF RunBegin, States, Writing
<1>3. CASE RunTask
  <2>1. pc[Daemon] = "run" /\ UNCHANGED <<pc, file>>
    BY <1>3 DEF RunTask
  <2>2. \A q \in Procs : q /= Daemon => g_tasks'[q] = g_tasks[q]
    BY <1>0, <1>3, RunFacts
  <2>3. QED
    BY <1>0, <2>1, <2>2 DEF AloneInv
<1>4. CASE RunEnd
  BY <1>0, <1>4, OneMoves DEF RunEnd, States, Writing
<1>5. CASE DaemonStop
  BY <1>0, <1>5, OneMoves DEF DaemonStop, States, Writing
<1>6. CASE Clock
  BY <1>6 DEF Clock, AloneInv
<1>7. ASSUME NEW p \in Clis, CliStart(p) PROVE AloneInv'
  BY <1>0, <1>7, OneMoves DEF CliStart, States, Writing
<1>8. ASSUME NEW p \in Clis, cron_add_task(p) PROVE AloneInv'
  BY <1>0, <1>8, OneMoves DEF cron_add_task, States, Writing
<1>9. ASSUME NEW p \in Clis, cron_remove_task(p) PROVE AloneInv'
  <2>1. /\ pc[p] = "op" /\ pc' = [pc EXCEPT ![p] = "save"] /\ file' = file
        /\ \A q \in Procs : q /= p => g_tasks'[q] = g_tasks[q]
    BY <1>0, <1>9 DEF cron_remove_task
  <2>2. QED
    BY <1>0, <2>1, OneMoves DEF States, Writing
<1>10. ASSUME NEW p \in Clis, CliNothing(p) PROVE AloneInv'
  <2>1. pc[p] = "op" /\ pc' = [pc EXCEPT ![p] = "end"] /\ UNCHANGED <<file, g_tasks>>
    BY <1>10 DEF CliNothing
  <2>2. QED
    BY <1>0, <2>1, OneMoves DEF States, Writing
<1>11. ASSUME NEW p \in Procs, SaveOpen(p) PROVE AloneInv'
  <2>1. PICK x \in Writing : pc' = [pc EXCEPT ![p] = x]
    BY <1>11 DEF SaveOpen, Writing
  <2>2. x \in States /\ x /= "down"
    BY DEF States, Writing
  <2>3. pc[p] /= "down" /\ file' = <<>> /\ UNCHANGED g_tasks
    BY <1>11 DEF SaveOpen, SaveStates
  <2>4. Len(file') <= MaxTasks
    BY <1>0, <2>3
  <2>5. QED
    BY <2>1, <2>2, <2>3, <2>4, OneMoves
<1>12. ASSUME NEW p \in Procs, pc[p] \in Writing
       PROVE  Written(p) = g_tasks[p] /\ Len(Written(p)) <= MaxTasks
  <2>1. file = <<>>
    BY <1>12 DEF AloneInv
  <2>2. QED
    BY <2>1, WrittenFacts DEF TypeInv
<1>13. ASSUME NEW p \in Procs, SaveWrite(p) PROVE AloneInv'
  <2>1. pc[p] \in Writing
    BY <1>13 DEF SaveWrite, Writing
  <2>2. Len(file') <= MaxTasks
    BY <1>12, <1>13, <2>1 DEF SaveWrite
  <2>3. PICK x \in {"idle", "end"} : pc' = [pc EXCEPT ![p] = x]
    BY <1>13 DEF SaveWrite
  <2>4. QED
    BY <1>13, <2>1, <2>2, <2>3, OneMoves DEF SaveWrite, States, Writing
<1>14. ASSUME NEW p \in Procs, EndWrite(p) PROVE AloneInv'
  <2>1. pc[p] \in Writing
    BY <1>14 DEF EndWrite, Writing
  <2>2. Len(file') <= MaxTasks
    BY <1>12, <1>14, <2>1 DEF EndWrite
  <2>3. pc' = [pc EXCEPT ![p] = "down"] /\ g_tasks' = [g_tasks EXCEPT ![p] = <<>>]
    BY <1>14 DEF EndWrite, Leave, Ends
  <2>4. QED
    BY <1>0, <2>1, <2>2, <2>3, OneMoves DEF States, Writing
<1>15. ASSUME NEW p \in Procs, SaveFails(p) PROVE AloneInv'
  <2>1. pc[p] \in {"save", "end"} /\ file' = file
    BY <1>15 DEF SaveFails, SaveStates
  <2>2. CASE pc[p] = "end"
    <3>1. pc' = [pc EXCEPT ![p] = "down"] /\ g_tasks' = [g_tasks EXCEPT ![p] = <<>>]
      BY <1>15, <2>2 DEF SaveFails, Leave, Ends
    <3>2. QED
      BY <1>0, <2>1, <3>1, OneMoves DEF States, Writing
  <2>3. CASE pc[p] = "save"
    <3>1. PICK x \in {"idle", "end"} : pc' = [pc EXCEPT ![p] = x] /\ UNCHANGED g_tasks
      BY <1>15, <2>3 DEF SaveFails
    <3>2. QED
      BY <1>0, <2>1, <3>1, OneMoves DEF States, Writing
  <2>4. QED
    BY <2>1, <2>2, <2>3
<1>16. ASSUME NEW p \in Procs, Crash(p) PROVE AloneInv'
  BY <1>0, <1>16, OneMoves DEF Crash, States, Writing
<1>17. ASSUME NEW p \in Procs, SaveCut(p) PROVE AloneInv'
  <2>1. pc[p] \in Writing
    BY <1>17 DEF SaveCut, Writing
  <2>2. Len(file') <= MaxTasks
    <3>1. PICK n \in 0..Len(g_tasks[p]) - 1 : file' = WrittenUpTo(p, n)
      BY <1>17 DEF SaveCut
    <3>2. file = <<>>
      BY <2>1 DEF AloneInv
    <3>3. Len(file') = n
      BY <3>1, <3>2, CutFacts
    <3>4. Len(g_tasks[p]) \in Nat /\ Len(g_tasks[p]) <= MaxTasks
      BY DEF TypeInv
    <3>5. QED
      BY <1>0, <3>3, <3>4
  <2>3. CASE pc[p] = "endWrite"
    <3>1. pc' = [pc EXCEPT ![p] = "down"] /\ g_tasks' = [g_tasks EXCEPT ![p] = <<>>]
      BY <1>17, <2>3 DEF SaveCut, Ends
    <3>2. QED
      BY <1>0, <2>1, <2>2, <3>1, OneMoves DEF States, Writing
  <2>4. CASE pc[p] /= "endWrite"
    <3>1. PICK x \in {"idle", "end"} : pc' = [pc EXCEPT ![p] = x] /\ UNCHANGED g_tasks
      BY <1>17, <2>4 DEF SaveCut
    <3>2. QED
      BY <1>0, <2>1, <2>2, <3>1, OneMoves DEF States, Writing
  <2>5. QED
    BY <2>3, <2>4
<1>18. CASE UNCHANGED cronVars
  BY <1>18 DEF AloneInv
<1>19. QED
  BY <1>1, <1>2, <1>3, <1>4, <1>5, <1>6, <1>7, <1>8, <1>9, <1>10, <1>11, <1>13, <1>14,
     <1>15, <1>16, <1>17, <1>18 DEF CronNext
-----------------------------------------------------------------------------
(* The tables. *)

\* No two tasks have one id, and only a task whose command holds the column
\* separator may have lost a part of it.
Distinct(s) == \A i, j \in 1..Len(s) : s[i].id = s[j].id => i = j
Intact(s) == \A i \in 1..Len(s) : s[i].command \notin Piped => s[i].whole /\ s[i].enabled
TableOK(s) == Distinct(s) /\ Intact(s)

LEMMA IdsOfSeq ==
    ASSUME NEW s \in Seq(Tasks), NEW id PROVE id \in IdsOf(s) <=> \E i \in 1..Len(s) : s[i].id = id
  BY DEF IdsOf

LEMMA LoadOK ==
    ASSUME TypeInv, AloneInv, TableOK(file)
    PROVE  TableOK(load_tasks_from_disk) /\ IdsOf(load_tasks_from_disk) = IdsOf(file)
<1>1. file \in Seq(Tasks) /\ now \in 0..MaxTime /\ Len(file) <= MaxTasks /\ MaxTasks \in Nat
  BY CronNats DEF TypeInv, AloneInv
<1>2. PICK l \in Seq(Tasks) : l = load_tasks_from_disk /\ Len(l) = Len(file)
         /\ \A i \in 1..Len(l) : l[i] = Loaded(file[i])
  BY <1>1, LoadedTable
<1>3. \A i \in 1..Len(l) :
         /\ file[i] \in Tasks /\ l[i].id = file[i].id /\ l[i].command = file[i].command
         /\ file[i].command \notin Piped => l[i].whole = file[i].whole /\ l[i].enabled = file[i].enabled
  <2> TAKE i \in 1..Len(l)
  <2>1. file[i] \in Tasks
    BY <1>1, <1>2
  <2>2. QED
    BY <1>1, <1>2, <2>1, LoadedRow
<1>4. Distinct(l)
  BY <1>2, <1>3 DEF TableOK, Distinct
<1>5. Intact(l)
  BY <1>2, <1>3 DEF TableOK, Intact
<1>6. \A id : id \in IdsOf(l) <=> id \in IdsOf(file)
  <2> TAKE id
  <2>1. id \in IdsOf(l) <=> \E i \in 1..Len(l) : l[i].id = id
    BY IdsOfSeq
  <2>2. id \in IdsOf(file) <=> \E i \in 1..Len(file) : file[i].id = id
    BY <1>1, IdsOfSeq
  <2>3. QED
    BY <1>2, <1>3, <2>1, <2>2
<1>7. IdsOf(l) = IdsOf(file)
  BY <1>6
<1>8. QED
  BY <1>2, <1>4, <1>5, <1>7 DEF TableOK

LEMMA AppendOK ==
    ASSUME NEW s \in Seq(Tasks), NEW t \in Tasks, TableOK(s), t.id \notin IdsOf(s), t.whole, t.enabled
    PROVE  TableOK(Append(s, t)) /\ IdsOf(s) \subseteq IdsOf(Append(s, t)) /\ t.id \in IdsOf(Append(s, t))
<1>1. PICK n \in Nat : n = Len(s)
  OBVIOUS
<1>2. PICK a \in Seq(Tasks) : a = Append(s, t) /\ Len(a) = n + 1 /\ a[n + 1] = t
         /\ \A i \in 1..n : a[i] = s[i]
  <2>1. /\ Append(s, t) \in Seq(Tasks) /\ Len(Append(s, t)) = Len(s) + 1
        /\ \A i \in 1..Len(s) : Append(s, t)[i] = s[i]
        /\ Append(s, t)[Len(s) + 1] = t
    BY AppendProperties
  <2>2. QED
    BY <1>1, <2>1
<1>3. \A i \in 1..n : s[i].id /= t.id
  BY <1>1, IdsOfSeq
<1>4. \A i \in 1..n + 1 : i \in 1..n \/ i = n + 1
  OBVIOUS
<1>5. Distinct(a)
  BY <1>1, <1>2, <1>3, <1>4 DEF TableOK, Distinct
<1>6. Intact(a)
  BY <1>1, <1>2, <1>4 DEF TableOK, Intact
<1>7. n + 1 \in 1..Len(a) /\ \A i \in 1..n : i \in 1..Len(a)
  BY <1>2
<1>8. ASSUME NEW id \in IdsOf(s) PROVE id \in IdsOf(a)
  <2>1. PICK i \in 1..n : s[i].id = id
    BY <1>1, IdsOfSeq
  <2>2. i \in 1..Len(a) /\ a[i].id = id
    BY <1>2, <1>7, <2>1
  <2>3. QED
    BY <2>2, IdsOfSeq
<1>9. t.id \in IdsOf(a)
  BY <1>2, <1>7, IdsOfSeq
<1>10. QED
  BY <1>2, <1>5, <1>6, <1>8, <1>9 DEF TableOK

LEMMA RemoveOK ==
    ASSUME NEW s \in Seq(Tasks), TableOK(s), NEW i \in 1..Len(s), NEW r \in Seq(Tasks),
           Len(r) = Len(s) - 1,
           \A j \in 1..Len(s) - 1 : r[j] = IF j < i THEN s[j] ELSE s[j + 1]
    PROVE  TableOK(r) /\ \A id \in IdsOf(s) : id /= s[i].id => id \in IdsOf(r)
<1>1. PICK n \in Nat : n = Len(s) /\ Len(r) = n - 1
  OBVIOUS
<1> DEFINE From(j) == IF j < i THEN j ELSE j + 1
<1>2. \A j \in 1..n - 1 : From(j) \in 1..n /\ r[j] = s[From(j)]
  BY <1>1
<1>3. \A j, k \in 1..n - 1 : From(j) = From(k) => j = k
  BY <1>1
<1>4. \A j \in 1..n : j /= i => \E k \in 1..n - 1 : From(k) = j
  <2> TAKE j \in 1..n
  <2> HAVE j /= i
  <2>1. CASE j < i
    <3>1. j \in 1..n - 1 /\ From(j) = j
      BY <1>1, <2>1
    <3>2. QED
      BY <3>1
  <2>2. CASE j > i
    <3>1. j - 1 \in 1..n - 1 /\ From(j - 1) = j
      BY <1>1, <2>2
    <3>2. QED
      BY <3>1
  <2>3. QED
    BY <1>1, <2>1, <2>2
<1> HIDE DEF From
<1>5. Distinct(r)
  BY <1>1, <1>2, <1>3 DEF TableOK, Distinct
<1>6. Intact(r)
  BY <1>1, <1>2 DEF TableOK, Intact
<1>7. ASSUME NEW id \in IdsOf(s), id /= s[i].id PROVE id \in IdsOf(r)
  <2>1. PICK j \in 1..n : s[j].id = id
    BY <1>1, IdsOfSeq
  <2>2. PICK k \in 1..n - 1 : From(k) = j
    BY <1>4, <1>7, <2>1
  <2>3. r[k].id = id
    BY <1>2, <2>1, <2>2
  <2>4. QED
    BY <1>1, <2>3, IdsOfSeq
<1>8. QED
  BY <1>5, <1>6, <1>7 DEF TableOK

\* A table whose times have changed.
LEMMA RetimedOK ==
    ASSUME NEW s \in Seq(Tasks), NEW r \in Seq(Tasks), TableOK(s), Len(r) = Len(s),
           \A i \in 1..Len(s) : /\ r[i].id = s[i].id /\ r[i].command = s[i].command
                                /\ r[i].whole = s[i].whole /\ r[i].enabled = s[i].enabled
    PROVE  TableOK(r) /\ IdsOf(r) = IdsOf(s)
<1>1. TableOK(r)
  BY DEF TableOK, Distinct, Intact
<1>2. \A id : id \in IdsOf(r) <=> id \in IdsOf(s)
  <2> TAKE id
  <2>1. id \in IdsOf(r) <=> \E i \in 1..Len(r) : r[i].id = id
    BY IdsOfSeq
  <2>2. id \in IdsOf(s) <=> \E i \in 1..Len(s) : s[i].id = id
    BY IdsOfSeq
  <2>3. QED
    BY <2>1, <2>2
<1>3. QED
  BY <1>1, <1>2

TableInv == TableOK(file) /\ \A p \in Procs : TableOK(g_tasks[p])

\* What was added is in the file, and in the table of the process that is up;
\* what is about to be reported is in its table.
KeptInv ==
    /\ AddedIsPersisted
    /\ \A p \in Procs : pc[p] /= "down" => \A id \in Ids : added[id] => id \in IdsOf(g_tasks[p])
    /\ \A p \in Procs : req[p].op = "added" => req[p].id \in IdsOf(g_tasks[p])

LEMMA KeptInit == CronInit => TableInv /\ KeptInv
  BY DEF CronInit, TableInv, TableOK, Distinct, Intact, KeptInv, AddedIsPersisted, NoRequest

\* A step of one process that leaves the file alone.
LEMMA KeptMoves ==
    ASSUME TableInv, KeptInv, NEW p \in Procs, pc[p] \notin Writing, UNCHANGED file,
           \A q \in Procs : q /= p => /\ g_tasks'[q] = g_tasks[q] /\ req'[q] = req[q]
                                      /\ pc'[q] = pc[q],
           TableOK(g_tasks'[p]),
           \A id \in Ids : added'[id] => added[id],
           pc'[p] /= "down" => \A id \in Ids : added'[id] => id \in IdsOf(g_tasks'[p]),
           req'[p].op = "added" => req'[p].id \in IdsOf(g_tasks'[p])
    PROVE  TableInv' /\ KeptInv'
<1>1. TableInv'
  <2>1. \A q \in Procs : TableOK(g_tasks'[q])
    BY DEF TableInv
  <2>2. QED
    BY <2>1 DEF TableInv, TableOK, Distinct, Intact
<1>2. AddedIsPersisted'
  <2> SUFFICES ASSUME Quiet', NEW id \in Ids, added'[id] PROVE id \in IdsOf(file)
    BY DEF AddedIsPersisted, IdsOf
  <2>1. Quiet
    BY DEF Quiet, Writing
  <2>2. QED
    BY <2>1 DEF KeptInv, AddedIsPersisted
<1>3. \A q \in Procs : pc'[q] /= "down" => \A id \in Ids : added'[id] => id \in IdsOf(g_tasks'[q])
  BY DEF KeptInv
<1>4. \A q \in Procs : req'[q].op = "added" => req'[q].id \in IdsOf(g_tasks'[q])
  BY DEF KeptInv
<1>5. QED
  BY <1>1, <1>2, <1>3, <1>4 DEF KeptInv, IdsOf

LEMMA KeptStep ==
    ASSUME OneAtATime
    PROVE  TypeInv /\ TypeInv' /\ AloneInv /\ TableInv /\ KeptInv /\ [CronNext]_cronVars
               => TableInv' /\ KeptInv'
<1> SUFFICES ASSUME TypeInv, TypeInv', AloneInv, TableInv, KeptInv, [CronNext]_cronVars
             PROVE  TableInv' /\ KeptInv'
  OBVIOUS
<1>0. /\ Daemon \in Procs /\ Clis \subseteq Procs /\ pc \in [Procs -> States]
      /\ g_tasks \in [Procs -> Seq(Tasks)] /\ req \in [Procs -> Requests]
      /\ TableOK(<<>>)
  BY DEF Procs, TypeInv, TableOK, Distinct, Intact
<1>1. ASSUME NEW p \in Procs, pc[p] = "down", OneAtATime => \A q \in Procs \ {p} : pc[q] = "down"
      PROVE  /\ TableOK(load_tasks_from_disk)
             /\ \A id \in Ids : added[id] => id \in IdsOf(load_tasks_from_disk)
  <2>1. Quiet
    BY <1>1 DEF Quiet
  <2>2. QED
    BY <2>1, LoadOK DEF TableInv, KeptInv, AddedIsPersisted
<1>2. CASE DaemonStart
  <2>1. /\ pc[Daemon] = "down" /\ g_tasks' = [g_tasks EXCEPT ![Daemon] = load_tasks_from_disk]
        /\ pc' = [pc EXCEPT ![Daemon] = "idle"] /\ UNCHANGED <<file, req, added>>
        /\ OneAtATime => \A q \in Procs \ {Daemon} : pc[q] = "down"
    BY <1>2 DEF DaemonStart, Alone
  <2>2. req[Daemon].op /= "added"
    <3>1. g_tasks[Daemon] = <<>>
      BY <1>0, <2>1 DEF AloneInv
    <3>2. QED
      BY <1>0, <3>1 DEF KeptInv, IdsOf
  <2>3. QED
    BY <1>0, <1>1, <2>1, <2>2, KeptMoves DEF Writing
<1>3. CASE RunBegin \/ RunEnd \/ DaemonStop
  <2>1. PICK x \in States : /\ pc[Daemon] \in {"idle", "run"} /\ pc' = [pc EXCEPT ![Daemon] = x]
                            /\ UNCHANGED <<file, req, added, g_tasks>>
    BY <1>3 DEF RunBegin, RunEnd, DaemonStop, States
  <2>2. QED
    BY <1>0, <2>1, KeptMoves DEF Writing, TableInv, KeptInv
<1>4. CASE RunTask
  <2>1. pc[Daemon] = "run" /\ UNCHANGED <<file, req, added, pc>>
    BY <1>4 DEF RunTask
  <2>2. CASE UNCHANGED g_tasks
    BY <1>0, <2>1, <2>2, KeptMoves DEF Writing, TableInv, KeptInv
  <2>3. CASE ~UNCHANGED g_tasks
    <3>1. PICK t \in Tasks, u \in Tasks, s \in Seq(Tasks) :
             /\ t = g_tasks[Daemon][at]
             /\ u.id = t.id /\ u.command = t.command
             /\ u.whole = t.whole /\ u.enabled = t.enabled
             /\ g_tasks' = [g_tasks EXCEPT ![Daemon] = s]
             /\ Len(s) = Len(g_tasks[Daemon]) /\ s[at] = u
             /\ \A i \in 1..Len(s) : i /= at => s[i] = g_tasks[Daemon][i]
      <4>1. PICK t \in Tasks :
              /\ t = g_tasks[Daemon][at]
              /\ \E u \in Tasks, s \in Seq(Tasks) :
                          /\ u.id = t.id /\ u.command = t.command
                          /\ u.whole = t.whole /\ u.enabled = t.enabled
                          /\ g_tasks' = [g_tasks EXCEPT ![Daemon] = s]
                          /\ Len(s) = Len(g_tasks[Daemon]) /\ s[at] = u
                          /\ \A i \in 1..Len(s) : i /= at => s[i] = g_tasks[Daemon][i]
        BY <1>4, <2>3, RunFacts
      <4>2. QED
        BY <4>1
    <3>2. PICK g \in Seq(Tasks) : g = g_tasks[Daemon] /\ TableOK(g)
      BY <1>0 DEF TableInv
    <3>3. \A i \in 1..Len(g) : /\ s[i].id = g[i].id /\ s[i].command = g[i].command
                               /\ s[i].whole = g[i].whole /\ s[i].enabled = g[i].enabled
      BY <3>1, <3>2
    <3>4. TableOK(s) /\ IdsOf(s) = IdsOf(g)
      BY <3>1, <3>2, <3>3, RetimedOK
    <3>5. g_tasks'[Daemon] = s /\ \A q \in Procs : q /= Daemon => g_tasks'[q] = g_tasks[q]
      BY <1>0, <3>1
    <3>6. QED
      BY <1>0, <2>1, <3>2, <3>4, <3>5, KeptMoves DEF Writing, KeptInv
  <2>4. QED
    BY <2>2, <2>3
<1>5. CASE Clock
  BY <1>5 DEF Clock, TableInv, TableOK, Distinct, Intact, KeptInv, AddedIsPersisted, Quiet, IdsOf
<1>6. ASSUME NEW p \in Clis, CliStart(p) PROVE TableInv' /\ KeptInv'
  <2>1. PICK r \in Requests : r.op \in {"list", "add", "remove"} /\ req' = [req EXCEPT ![p] = r]
    BY <1>6 DEF CliStart
  <2>2. /\ pc[p] = "down" /\ g_tasks' = [g_tasks EXCEPT ![p] = load_tasks_from_disk]
        /\ pc' = [pc EXCEPT ![p] = "op"] /\ UNCHANGED <<file, added>>
        /\ OneAtATime => \A q \in Procs \ {p} : pc[q] = "down"
    BY <1>6 DEF CliStart, Alone
  <2>3. QED
    BY <1>0, <1>1, <2>1, <2>2, KeptMoves DEF Writing
<1>7. ASSUME NEW p \in Clis, cron_add_task(p) PROVE TableInv' /\ KeptInv'
  <2>0. p \in Procs
    BY <1>0
  <2>1. PICK t \in Tasks :
              /\ t.id = req[p].id /\ t.whole /\ t.enabled
              /\ g_tasks' = [g_tasks EXCEPT ![p] = Append(g_tasks[p], t)]
    BY <1>7, <2>0, AddFacts
  <2>2. /\ pc[p] = "op" /\ req[p].id \notin IdsOf(g_tasks[p])
        /\ req' = [req EXCEPT ![p] = [op |-> "added", id |-> req[p].id]]
        /\ pc' = [pc EXCEPT ![p] = "save"] /\ UNCHANGED <<file, added>>
    BY <1>7 DEF cron_add_task
  <2>3. g_tasks[p] \in Seq(Tasks) /\ TableOK(g_tasks[p])
    BY <1>0, <2>0 DEF TableInv
  <2>4. PICK a : /\ a = Append(g_tasks[p], t)
                 /\ TableOK(a) /\ IdsOf(g_tasks[p]) \subseteq IdsOf(a) /\ t.id \in IdsOf(a)
    BY <2>1, <2>2, <2>3, AppendOK
  <2>5. \A id \in Ids : added[id] => id \in IdsOf(a)
    BY <2>0, <2>2, <2>4 DEF KeptInv
  <2>6. g_tasks'[p] = a /\ \A q \in Procs : q /= p => g_tasks'[q] = g_tasks[q]
    BY <1>0, <2>0, <2>1, <2>4
  <2>7. req'[p].id = t.id /\ \A q \in Procs : q /= p => req'[q] = req[q] /\ pc'[q] = pc[q]
    BY <1>0, <2>0, <2>1, <2>2
  <2>8. QED
    BY <2>0, <2>2, <2>4, <2>5, <2>6, <2>7, KeptMoves DEF Writing
<1>8. ASSUME NEW p \in Clis, cron_remove_task(p) PROVE TableInv' /\ KeptInv'
  <2>0. p \in Procs
    BY <1>0
  <2>1. PICK g \in Seq(Tasks) : g = g_tasks[p] /\ TableOK(g)
    BY <1>0, <2>0 DEF TableInv
  <2>2. PICK i \in 1..Len(g), r \in Seq(Tasks) :
              /\ g[i].id = req[p].id
              /\ g_tasks' = [g_tasks EXCEPT ![p] = r]
              /\ Len(r) = Len(g) - 1
              /\ \A j \in 1..Len(g) - 1 : r[j] = IF j < i THEN g[j] ELSE g[j + 1]
    BY <1>8, <2>0, <2>1, RemoveFacts
  <2>3. TableOK(r) /\ \A id \in IdsOf(g) : id /= req[p].id => id \in IdsOf(r)
    BY <2>1, <2>2, RemoveOK
  <2>4. /\ pc[p] = "op" /\ req[p].op = "remove" /\ pc' = [pc EXCEPT ![p] = "save"]
        /\ added' = [added EXCEPT ![req[p].id] = FALSE] /\ UNCHANGED <<file, req>>
    BY <1>8 DEF cron_remove_task
  <2>5. \A id \in Ids : added'[id] => added[id] /\ id /= req[p].id
    BY <2>4 DEF TypeInv
  <2>6. \A id \in Ids : added'[id] => id \in IdsOf(r)
    BY <2>0, <2>1, <2>3, <2>4, <2>5 DEF KeptInv
  <2>7. g_tasks'[p] = r /\ \A q \in Procs : q /= p => g_tasks'[q] = g_tasks[q] /\ pc'[q] = pc[q]
    BY <1>0, <2>0, <2>2, <2>4
  <2>8. QED
    BY <2>0, <2>3, <2>4, <2>5, <2>6, <2>7, KeptMoves DEF Writing
<1>9. ASSUME NEW p \in Clis, CliNothing(p) PROVE TableInv' /\ KeptInv'
  <2>1. p \in Procs /\ pc[p] = "op" /\ pc' = [pc EXCEPT ![p] = "end"]
        /\ UNCHANGED <<file, g_tasks, req, added>>
    BY <1>0, <1>9 DEF CliNothing
  <2>2. QED
    BY <1>0, <2>1, KeptMoves DEF Writing, TableInv, KeptInv
<1>10. ASSUME NEW p \in Procs, SaveOpen(p) PROVE TableInv' /\ KeptInv'
  <2>1. PICK x \in Writing : pc' = [pc EXCEPT ![p] = x]
    BY <1>10 DEF SaveOpen, Writing
  <2>2. pc[p] /= "down" /\ file' = <<>> /\ UNCHANGED <<g_tasks, req, added>>
    BY <1>10 DEF SaveOpen, SaveStates
  <2>3. pc'[p] \in {"saveWrite", "endWrite"} /\ \A q \in Procs : q /= p => pc'[q] = pc[q]
    BY <1>0, <2>1 DEF Writing
  <2>4. ~Quiet'
    BY <2>3 DEF Quiet
  <2>5. TableInv'
    BY <1>0, <2>2 DEF TableInv, TableOK, Distinct, Intact
  <2>6. QED
    BY <2>2, <2>3, <2>4, <2>5 DEF KeptInv, AddedIsPersisted
<1>11. ASSUME NEW p \in Procs, pc[p] \in Writing PROVE Written(p) = g_tasks[p]
  BY <1>11, WrittenFacts DEF AloneInv
<1>12. ASSUME NEW p \in Procs, SaveWrite(p) PROVE TableInv' /\ KeptInv'
  <2>1. pc[p] \in Writing /\ pc[p] /= "down" /\ UNCHANGED <<g_tasks, req, added>>
    BY <1>12 DEF SaveWrite, Writing
  <2>2. file' = g_tasks[p]
    BY <1>11, <1>12, <2>1 DEF SaveWrite
  <2>3. \A q \in Procs : q /= p => pc'[q] = pc[q]
    BY <1>0, <1>12 DEF SaveWrite
  <2>4. TableInv'
    BY <2>1, <2>2 DEF TableInv, TableOK, Distinct, Intact
  <2>5. AddedIsPersisted'
    <3>1. \A id \in Ids : added[id] => id \in IdsOf(g_tasks[p])
      BY <2>1 DEF KeptInv
    <3>2. QED
      BY <2>1, <2>2, <3>1 DEF AddedIsPersisted, IdsOf
  <2>6. QED
    BY <2>1, <2>3, <2>4, <2>5 DEF KeptInv
<1>13. ASSUME NEW p \in Procs, EndWrite(p) PROVE TableInv' /\ KeptInv'
  <2>1. pc[p] \in Writing /\ pc[p] /= "down" /\ Leave(p, TRUE)
    BY <1>13 DEF EndWrite, Writing
  <2>2. file' = g_tasks[p]
    BY <1>11, <1>13, <2>1 DEF EndWrite
  <2>3. /\ g_tasks' = [g_tasks EXCEPT ![p] = <<>>] /\ req' = [req EXCEPT ![p] = NoRequest]
        /\ pc' = [pc EXCEPT ![p] = "down"]
    BY <2>1 DEF Leave, Ends
  <2>4. /\ pc'[p] = "down" /\ g_tasks'[p] = <<>> /\ req'[p].op = "none"
        /\ \A q \in Procs : q /= p => /\ g_tasks'[q] = g_tasks[q] /\ req'[q] = req[q]
                                      /\ pc'[q] = pc[q] /\ pc[q] = "down"
    BY <1>0, <2>1, <2>3 DEF NoRequest, AloneInv
  <2>5. TableInv'
    <3>1. TableOK(file')
      BY <2>2 DEF TableInv
    <3>2. \A q \in Procs : TableOK(g_tasks'[q])
      BY <1>0, <2>4 DEF TableInv
    <3>3. QED
      BY <3>1, <3>2 DEF TableInv, TableOK, Distinct, Intact
  <2>6. \A id \in Ids : added'[id] => id \in IdsOf(g_tasks[p])
    <3>1. CASE req[p].op = "added"
      <4>1. added' = [added EXCEPT ![req[p].id] = TRUE]
        BY <2>1, <3>1 DEF Leave, Ends
      <4>2. \A id \in Ids : added'[id] => added[id] \/ id = req[p].id
        BY <4>1 DEF TypeInv
      <4>3. req[p].id \in IdsOf(g_tasks[p])
        BY <3>1 DEF KeptInv
      <4>4. QED
        BY <2>1, <4>2, <4>3 DEF KeptInv
    <3>2. CASE req[p].op /= "added"
      <4>1. added' = added
        BY <2>1, <3>2 DEF Leave, Ends
      <4>2. QED
        BY <2>1, <4>1 DEF KeptInv
    <3>3. QED
      BY <3>1, <3>2
  <2>7. AddedIsPersisted'
    BY <2>2, <2>6 DEF AddedIsPersisted, IdsOf
  <2>8. \A q \in Procs : pc'[q] = "down" /\ (req'[q].op = "added" => req'[q].id \in IdsOf(g_tasks'[q]))
    BY <2>4 DEF KeptInv
  <2>9. QED
    BY <2>5, <2>7, <2>8 DEF KeptInv, IdsOf
<1>14. ASSUME NEW p \in Procs, SaveFails(p) PROVE TableInv' /\ KeptInv'
  <2>1. pc[p] \in {"save", "end"} /\ UNCHANGED file
    BY <1>14 DEF SaveFails, SaveStates
  <2>2. CASE pc[p] = "end"
    <3>1. Leave(p, FALSE)
      BY <1>14, <2>2 DEF SaveFails
    <3>2. /\ g_tasks' = [g_tasks EXCEPT ![p] = <<>>] /\ req' = [req EXCEPT ![p] = NoRequest]
          /\ pc' = [pc EXCEPT ![p] = "down"] /\ UNCHANGED added
      BY <3>1 DEF Leave, Ends
    <3>3. req'[p].op = "none"
      BY <1>0, <3>2 DEF NoRequest
    <3>4. QED
      BY <1>0, <2>1, <3>2, <3>3, KeptMoves DEF Writing
  <2>3. CASE pc[p] = "save"
    <3>1. PICK x \in {"idle", "end"} : /\ pc' = [pc EXCEPT ![p] = x]
                                       /\ UNCHANGED <<g_tasks, req, added>>
      BY <1>14, <2>3 DEF SaveFails
    <3>2. QED
      BY <1>0, <2>1, <2>3, <3>1, KeptMoves DEF Writing, TableInv, KeptInv
  <2>4. QED
    BY <2>1, <2>2, <2>3
<1>15. ASSUME NEW p \in Procs, Crash(p) PROVE TableInv' /\ KeptInv'
  <2>1. /\ pc[p] /= "down" /\ g_tasks' = [g_tasks EXCEPT ![p] = <<>>]
        /\ req' = [req EXCEPT ![p] = NoRequest] /\ pc' = [pc EXCEPT ![p] = "down"]
        /\ added' = [id \in Ids |-> added[id] /\ pc[p] \notin {"saveWrite", "endWrite"}]
        /\ UNCHANGED file
    BY <1>15 DEF Crash
  <2>2. /\ pc'[p] = "down" /\ g_tasks'[p] = <<>> /\ req'[p].op = "none"
        /\ \A q \in Procs : q /= p => /\ g_tasks'[q] = g_tasks[q] /\ req'[q] = req[q]
                                      /\ pc'[q] = pc[q] /\ pc[q] = "down"
    BY <1>0, <2>1 DEF NoRequest, AloneInv
  <2>3. \A id \in Ids : added'[id] => added[id] /\ pc[p] \notin Writing
    BY <2>1 DEF Writing
  <2>4. CASE pc[p] \notin Writing
    BY <1>0, <2>1, <2>2, <2>3, <2>4, KeptMoves
  <2>5. CASE pc[p] \in Writing
    <3>1. \A id \in Ids : ~added'[id]
      BY <2>3, <2>5
    <3>2. TableInv'
      BY <1>0, <2>1, <2>2 DEF TableInv, TableOK, Distinct, Intact
    <3>3. QED
      BY <2>2, <3>1, <3>2 DEF KeptInv, AddedIsPersisted, IdsOf
  <2>6. QED
    BY <2>4, <2>5
<1>16. ASSUME NEW p \in Procs, SaveCut(p) PROVE TableInv' /\ KeptInv'
  <2>1. pc[p] \in Writing /\ pc[p] /= "down"
    BY <1>16 DEF SaveCut, Writing
  <2>2. PICK n \in 0..Len(g_tasks[p]) - 1 : file' = WrittenUpTo(p, n)
    BY <1>16 DEF SaveCut
  <2>3. Len(file') = n /\ \A i \in 1..n : file'[i] = g_tasks[p][i] /\ i \in 1..Len(g_tasks[p])
    <3>1. file = <<>> /\ Len(g_tasks[p]) \in Nat
      BY <2>1 DEF AloneInv, TypeInv
    <3>2. QED
      BY <2>2, <3>1, CutFacts
  <2>4. TableOK(file')
    <3>1. TableOK(g_tasks[p])
      BY DEF TableInv
    <3>2. QED
      BY <2>3, <3>1 DEF TableOK, Distinct, Intact
  <2>5. \A id \in Ids : ~added'[id]
    BY <1>16 DEF SaveCut
  <2>6. /\ \A q \in Procs : g_tasks'[q] = g_tasks[q] \/ g_tasks'[q] = <<>>
        /\ \A q \in Procs : req'[q].op = "added" => req'[q] = req[q] /\ g_tasks'[q] = g_tasks[q]
    <3>1. CASE pc[p] = "endWrite"
      <4>1. g_tasks' = [g_tasks EXCEPT ![p] = <<>>] /\ req' = [req EXCEPT ![p] = NoRequest]
        BY <1>16, <3>1 DEF SaveCut, Ends
      <4>2. QED
        BY <1>0, <4>1 DEF NoRequest
    <3>2. CASE pc[p] /= "endWrite"
      BY <1>16, <3>2 DEF SaveCut
    <3>3. QED
      BY <3>1, <3>2
  <2>7. TableInv'
    <3>1. \A q \in Procs : TableOK(g_tasks'[q])
      BY <1>0, <2>6 DEF TableInv
    <3>2. QED
      BY <2>4, <3>1 DEF TableInv, TableOK, Distinct, Intact
  <2>8. QED
    BY <2>5, <2>6, <2>7 DEF KeptInv, AddedIsPersisted, IdsOf
<1>17. CASE UNCHANGED cronVars
  BY <1>17 DEF TableInv, TableOK, Distinct, Intact, KeptInv, AddedIsPersisted, Quiet, IdsOf
<1>18. QED
  BY <1>2, <1>3, <1>4, <1>5, <1>6, <1>7, <1>8, <1>9, <1>10, <1>12, <1>13, <1>14, <1>15,
     <1>16, <1>17 DEF CronNext

\* The tasks the loop is past are not due any more.
ServedInv ==
    /\ DueAreServed
    /\ pc[Daemon] = "run" => \A i \in 1..Len(g_tasks[Daemon]) :
          i < at /\ g_tasks[Daemon][i].enabled => g_tasks[Daemon][i].next_run > tick

LEMMA ServedStep == TypeInv /\ TypeInv' /\ ServedInv /\ [CronNext]_cronVars => ServedInv'
<1> SUFFICES ASSUME TypeInv, TypeInv', ServedInv, [CronNext]_cronVars PROVE ServedInv'
  OBVIOUS
<1>0. /\ Daemon \in Procs /\ Daemon \notin Clis /\ pc \in [Procs -> States] /\ tick \in Nat
      /\ g_tasks \in [Procs -> Seq(Tasks)] /\ DOMAIN g_tasks[Daemon] = 1..Len(g_tasks[Daemon])
  BY CronAssumption, CronNats DEF Procs, TypeInv
<1>1. ASSUME pc'[Daemon] \notin {"run", "save"} PROVE ServedInv'
  BY <1>1 DEF ServedInv, DueAreServed
<1>2. CASE RunBegin
  <2>1. at' = 1 /\ pc'[Daemon] = "run" /\ UNCHANGED g_tasks
    BY <1>0, <1>2 DEF RunBegin
  <2>2. QED
    BY <2>1 DEF ServedInv, DueAreServed
<1>3. CASE RunTask
  <2>1. pc[Daemon] = "run" /\ at' = at + 1 /\ UNCHANGED <<pc, tick>>
    BY <1>3 DEF RunTask
  <2>2. PICK t \in Tasks :
              /\ at \in 1..Len(g_tasks[Daemon]) /\ t = g_tasks[Daemon][at]
              /\ \/ ~Due(t) /\ UNCHANGED g_tasks
                 \/ \E u \in Tasks, s \in Seq(Tasks) :
                          /\ u.next_run = calculate_next_run(t.expression, tick)
                          /\ g_tasks' = [g_tasks EXCEPT ![Daemon] = s]
                          /\ Len(s) = Len(g_tasks[Daemon]) /\ s[at] = u
                          /\ \A i \in 1..Len(s) : i /= at => s[i] = g_tasks[Daemon][i]
    BY <1>3, RunFacts
  <2>3. PICK n \in Nat : n = Len(g_tasks[Daemon])
    <3>1. g_tasks[Daemon] \in Seq(Tasks)
      BY <1>0
    <3>2. QED
      BY <3>1
  <2>4. Len(g_tasks'[Daemon]) = n /\ \A i \in 1..n : i /= at => g_tasks'[Daemon][i] = g_tasks[Daemon][i]
    BY <1>0, <2>2, <2>3
  <2>5. g_tasks'[Daemon][at].enabled => g_tasks'[Daemon][at].next_run > tick
    <3>1. CASE ~Due(t) /\ UNCHANGED g_tasks
      <4>1. t.next_run \in Nat
        BY CronNats DEF Tasks
      <4>2. QED
        BY <1>0, <2>2, <3>1, <4>1 DEF Due
    <3>2. CASE ~(~Due(t) /\ UNCHANGED g_tasks)
      <4>1. g_tasks'[Daemon][at].next_run = calculate_next_run(t.expression, tick)
        BY <1>0, <2>2, <3>2
      <4>2. calculate_next_run(t.expression, tick) \in tick + 1..tick + Hour
        BY <1>0, NextRun
      <4>3. QED
        BY <1>0, <4>1, <4>2, CronNats
    <3>3. QED
      BY <3>1, <3>2
  <2>6. \A i \in 1..n : i < at + 1 /\ g_tasks'[Daemon][i].enabled => g_tasks'[Daemon][i].next_run > tick
    <3> TAKE i \in 1..n
    <3>1. CASE i = at
      BY <2>5, <3>1
    <3>2. CASE i /= at
      <4>1. i < at + 1 => i < at
        BY <2>2, <3>2
      <4>2. QED
        BY <2>1, <2>3, <2>4, <3>2, <4>1 DEF ServedInv
    <3>3. QED
      BY <3>1, <3>2
  <2>7. QED
    BY <2>1, <2>4, <2>6 DEF ServedInv, DueAreServed
<1>4. CASE RunEnd
  <2>1. pc[Daemon] = "run" /\ at > Len(g_tasks[Daemon]) /\ pc'[Daemon] = "save"
        /\ UNCHANGED <<g_tasks, tick>>
    BY <1>0, <1>4 DEF RunEnd
  <2>2. \A i \in 1..Len(g_tasks[Daemon]) : i < at
    <3>1. at \in Nat /\ Len(g_tasks[Daemon]) \in Nat
      BY <1>0, CronNats DEF TypeInv
    <3>2. QED
      BY <2>1, <3>1
  <2>3. QED
    BY <1>0, <2>1, <2>2 DEF ServedInv, DueAreServed
<1>5. ASSUME g_tasks'[Daemon] = g_tasks[Daemon], pc'[Daemon] = pc[Daemon], UNCHANGED <<tick, at>>
      PROVE  ServedInv'
  BY <1>5 DEF ServedInv, DueAreServed
<1>6. CASE DaemonStart \/ DaemonStop
  BY <1>0, <1>1, <1>6 DEF DaemonStart, DaemonStop
<1>7. CASE Clock \/ UNCHANGED cronVars
  BY <1>5, <1>7 DEF Clock
<1>8. ASSUME NEW p \in Clis, CliStart(p) \/ cron_add_task(p) \/ cron_remove_task(p) \/ CliNothing(p)
      PROVE  ServedInv'
  <2>1. p /= Daemon
    BY <1>0
  <2>2. g_tasks'[Daemon] = g_tasks[Daemon] /\ pc'[Daemon] = pc[Daemon] /\ UNCHANGED <<tick, at>>
    BY <1>0, <1>8, <2>1 DEF CliStart, cron_add_task, cron_remove_task, CliNothing
  <2>3. QED
    BY <1>5, <2>2
<1>9. ASSUME NEW p \in Procs,
             SaveOpen(p) \/ SaveWrite(p) \/ EndWrite(p) \/ SaveFails(p) \/ SaveCut(p) \/ Crash(p)
      PROVE  ServedInv'
  <2>1. CASE p = Daemon
    <3>1. pc'[Daemon] \notin {"run", "save"}
      BY <1>0, <1>9, <2>1 DEF SaveOpen, SaveWrite, EndWrite, SaveFails, SaveCut, Crash, Leave, Ends
    <3>2. QED
      BY <1>1, <3>1
  <2>2. CASE p /= Daemon
    <3>1. g_tasks'[Daemon] = g_tasks[Daemon] /\ pc'[Daemon] = pc[Daemon] /\ UNCHANGED <<tick, at>>
      BY <1>0, <1>9, <2>2 DEF SaveOpen, SaveWrite, EndWrite, SaveFails, SaveCut, Crash, Leave, Ends, Forget
    <3>2. QED
      BY <1>5, <3>1
  <2>3. QED
    BY <2>1, <2>2
<1>10. QED
  BY <1>2, <1>3, <1>4, <1>6, <1>7, <1>8, <1>9 DEF CronNext

LEMMA CronInvariants ==
    ASSUME OneAtATime
    PROVE  CronSpec => [](TypeInv /\ AloneInv /\ TableInv /\ KeptInv /\ ServedInv)
<1>1. CronInit => ServedInv
  BY DEF CronInit, ServedInv, DueAreServed, Procs
<1>2. QED
  BY <1>1, TypeInit, TypeStep, AloneInit, AloneStep, KeptInit, KeptStep, ServedStep, PTL
     DEF CronSpec

\* A task that was added stays in cron.db until it is removed, through the saves of
\* the daemon and of other commands, restarts, kills outside a save and saves that
\* cannot open the file, as long as no two processes are up together (CronRace.cfg
\* shows why).
THEOREM AddedTasksStay == ASSUME OneAtATime PROVE CronSpec => []AddedIsPersisted
<1>1. KeptInv => AddedIsPersisted
  BY DEF KeptInv
<1>2. QED
  BY <1>1, CronInvariants, PTL

\* With as many ids as places no two places have the same.
LEMMA DistinctIds ==
    ASSUME NEW s \in Seq(Tasks), Distinct(s) PROVE Cardinality(IdsOf(s)) = Len(s)
<1>1. PICK n \in Nat : n = Len(s)
  OBVIOUS
<1> DEFINE f == [i \in 1..n |-> s[i].id]
<1>2. f \in Bijection(1..n, IdsOf(s))
  <2>1. f \in [1..n -> IdsOf(s)]
    BY <1>1 DEF IdsOf
  <2>2. \A i, j \in 1..n : f[i] = f[j] => i = j
    BY <1>1 DEF Distinct
  <2>3. \A id \in IdsOf(s) : \E i \in 1..n : f[i] = id
    BY <1>1, IdsOfSeq
  <2> HIDE DEF f
  <2>4. QED
    BY <2>1, <2>2, <2>3 DEF Bijection, Injection, Surjection, IsInjective
<1>3. IsFiniteSet(1..n) /\ Cardinality(1..n) = n
  BY FS_Interval
<1>4. ExistsBijection(1..n, IdsOf(s))
  BY <1>2 DEF ExistsBijection
<1>5. Cardinality(IdsOf(s)) = Cardinality(1..n)
  BY <1>3, <1>4, FS_Bijection
<1>6. QED
  BY <1>1, <1>3, <1>5

\* One process at a time: every table has one task per id, no task is left due by a
\* round of the daemon's loop, and what is in cron.db is whole and enabled unless its
\* command holds the column separator.
THEOREM CronIsFaithful == ASSUME OneAtATime PROVE CronSpec => []CronFaithful
<1>1. TypeInv /\ TableInv /\ ServedInv => CronFaithful
  <2> SUFFICES ASSUME TypeInv, TableInv, ServedInv PROVE CronFaithful
    OBVIOUS
  <2>1. \A p \in Procs : g_tasks[p] \in Seq(Tasks) /\ Distinct(g_tasks[p])
    BY DEF TypeInv, TableInv, TableOK
  <2>2. UniqueIds
    BY <2>1, DistinctIds DEF UniqueIds
  <2>3. file \in Seq(Tasks) /\ Intact(file)
    BY DEF TypeInv, TableInv, TableOK
  <2>4. AddedIsFaithful
    BY <2>3 DEF AddedIsFaithful, Intact
  <2>5. QED
    BY <2>2, <2>4 DEF CronFaithful, ServedInv
<1>2. QED
  BY <1>1, CronInvariants, PTL
-----------------------------------------------------------------------------
(* When tasks run. *)

Exact == ~MayCrash /\ ~SaveMayFail

\* The next run of a task lies an interval behind its last one; or, while the save
\* after that run is yet to come or was lost, it is that run or before.
Fresh(r, t) == r[t.id] >= 0 => Spaced(t.expression, r[t.id], t.next_run)
Old(r, t) == t.next_run <= r[t.id]

\* A task with an old time gets into the daemon's table only in the second of its
\* last run, and no line of the file is ahead of the daemon.
SpacedInv ==
    /\ \A i \in 1..Len(file) : Fresh(ran, file[i]) \/ Old(ran, file[i])
    /\ \A p \in Procs : \A i \in 1..Len(g_tasks[p]) : Fresh(ran, g_tasks[p][i]) \/ Old(ran, g_tasks[p][i])
    /\ \A i \in 1..Len(g_tasks[Daemon]) :
          Fresh(ran, g_tasks[Daemon][i]) \/ loaded = ran[g_tasks[Daemon][i].id]
    /\ \A i \in 1..Len(g_tasks[Daemon]), j \in 1..Len(file) :
          file[j].id = g_tasks[Daemon][i].id /\ g_tasks[Daemon][i].enabled =>
              file[j].next_run <= g_tasks[Daemon][i].next_run
    /\ Exact => /\ \A p \in Procs : \A i \in 1..Len(g_tasks[p]) : Fresh(ran, g_tasks[p][i])
                /\ pc[Daemon] = "down" => \A i \in 1..Len(file) : Fresh(ran, file[i])

\* What a row becomes when it is loaded.
LEMMA LoadedSpaced ==
    ASSUME TypeInv, NEW t \in Tasks, Fresh(ran, t) \/ Old(ran, t)
    PROVE  /\ Fresh(ran, Loaded(t)) \/ Old(ran, Loaded(t))
           /\ Fresh(ran, Loaded(t)) \/ now = ran[t.id]
           /\ Fresh(ran, t) => Fresh(ran, Loaded(t))
           /\ Loaded(t).enabled => t.next_run <= Loaded(t).next_run
<1>1. /\ now \in 0..MaxTime /\ now \in Nat /\ t.id \in Ids /\ t.next_run \in Nat
      /\ ran[t.id] \in Int /\ ran[t.id] <= now
  BY CronNats DEF TypeInv, Tasks
<1>2. PICK l \in Tasks : l = Loaded(t)
  BY <1>1, LoadedRow
<1>3. /\ l.id = t.id /\ l.expression = t.expression
      /\ \/ l.next_run = calculate_next_run(t.expression, now)
         \/ l.next_run = t.next_run /\ t.next_run >= now
      /\ l.enabled /\ l.next_run /= t.next_run => t.next_run < now
  BY <1>1, <1>2, LoadedRow
<1>4. PICK c \in Nat : /\ c = calculate_next_run(t.expression, now) /\ c > now
                       /\ \A r \in 0..now : Spaced(t.expression, r, c)
  <2>1. calculate_next_run(t.expression, now) \in now + 1..now + Hour
    BY <1>1, NextRun
  <2>2. \A r \in 0..now : Spaced(t.expression, r, calculate_next_run(t.expression, now))
    BY <1>1, NextRun
  <2>3. QED
    BY <1>1, <2>1, <2>2, CronNats
<1>5. l.enabled => t.next_run <= l.next_run
  BY <1>1, <1>3, <1>4
<1>6. CASE l.next_run = c
  <2>1. Fresh(ran, l)
    <3>1. SUFFICES ASSUME ran[t.id] >= 0 PROVE Spaced(t.expression, ran[t.id], c)
      BY <1>3, <1>6 DEF Fresh
    <3>2. ran[t.id] \in 0..now
      BY <1>1, <3>1
    <3>3. QED
      BY <1>4, <3>2
  <2>2. QED
    BY <1>2, <1>5, <2>1
<1>7. CASE l.next_run = t.next_run /\ t.next_run >= now
  <2>1. Fresh(ran, l) <=> Fresh(ran, t)
    BY <1>3, <1>7 DEF Fresh
  <2>2. Old(ran, t) => Old(ran, l) /\ now = ran[t.id]
    BY <1>1, <1>3, <1>7 DEF Old
  <2>3. QED
    BY <1>2, <1>5, <2>1, <2>2
<1>8. QED
  BY <1>3, <1>4, <1>6, <1>7

\* Rows go, and none changes.
LEMMA SpacedKeep ==
    ASSUME SpacedInv, UNCHANGED ran, loaded' = loaded \/ Len(g_tasks'[Daemon]) = 0,
           \A p \in Procs : \A i \in 1..Len(g_tasks'[p]) :
              \E j \in 1..Len(g_tasks[p]) : g_tasks'[p][i] = g_tasks[p][j],
           \A i \in 1..Len(file') : \E j \in 1..Len(file) : file'[i] = file[j],
           Exact => (pc'[Daemon] = "down" => pc[Daemon] = "down")
    PROVE  SpacedInv'
<1>0. Daemon \in Procs
  BY DEF Procs
<1>1. \A i \in 1..Len(file') : Fresh(ran, file'[i]) \/ Old(ran, file'[i])
  BY DEF SpacedInv
<1>2. \A p \in Procs : \A i \in 1..Len(g_tasks'[p]) :
         Fresh(ran, g_tasks'[p][i]) \/ Old(ran, g_tasks'[p][i])
  BY DEF SpacedInv
<1>3. \A i \in 1..Len(g_tasks'[Daemon]) :
         Fresh(ran, g_tasks'[Daemon][i]) \/ loaded' = ran[g_tasks'[Daemon][i].id]
  BY <1>0 DEF SpacedInv
<1>4. ASSUME NEW i \in 1..Len(g_tasks'[Daemon]), NEW j \in 1..Len(file'),
             file'[j].id = g_tasks'[Daemon][i].id, g_tasks'[Daemon][i].enabled
      PROVE  file'[j].next_run <= g_tasks'[Daemon][i].next_run
  <2>1. PICK k \in 1..Len(g_tasks[Daemon]) : g_tasks'[Daemon][i] = g_tasks[Daemon][k]
    BY <1>0
  <2>2. PICK m \in 1..Len(file) : file'[j] = file[m]
    OBVIOUS
  <2>3. QED
    BY <1>4, <2>1, <2>2 DEF SpacedInv
<1>5. ASSUME Exact
      PROVE  /\ \A p \in Procs : \A i \in 1..Len(g_tasks'[p]) : Fresh(ran, g_tasks'[p][i])
             /\ pc'[Daemon] = "down" => \A i \in 1..Len(file') : Fresh(ran, file'[i])
  BY <1>5 DEF SpacedInv
<1>6. Exact' = Exact
  BY DEF Exact
<1>7. QED
  BY <1>1, <1>2, <1>3, <1>4, <1>5, <1>6 DEF SpacedInv

\* The file becomes the table of a process, or the beginning of it, which may be the
\* last it does.
LEMMA SpacedSave ==
    ASSUME TypeInv, AloneInv, TableInv, SpacedInv, NEW p \in Procs, pc[p] /= "down",
           UNCHANGED ran, loaded' = loaded \/ Len(g_tasks'[Daemon]) = 0,
           \A i \in 1..Len(file') : i \in 1..Len(g_tasks[p]) /\ file'[i] = g_tasks[p][i],
           \A q \in Procs : q /= p => g_tasks'[q] = g_tasks[q],
           g_tasks'[p] \in {g_tasks[p], <<>>}
    PROVE  SpacedInv'
<1>0. Daemon \in Procs /\ Exact' = Exact
  BY DEF Procs, Exact
<1>1. \A q \in Procs : g_tasks'[q] = g_tasks[q] \/ Len(g_tasks'[q]) = 0
  OBVIOUS
<1>2. \A i \in 1..Len(file') : Fresh(ran, file'[i]) \/ Old(ran, file'[i])
  BY DEF SpacedInv
<1>3. \A q \in Procs : \A i \in 1..Len(g_tasks'[q]) :
         Fresh(ran, g_tasks'[q][i]) \/ Old(ran, g_tasks'[q][i])
  BY <1>1 DEF SpacedInv
<1>4. \A i \in 1..Len(g_tasks'[Daemon]) :
         Fresh(ran, g_tasks'[Daemon][i]) \/ loaded' = ran[g_tasks'[Daemon][i].id]
  BY <1>0, <1>1 DEF SpacedInv
<1>5. ASSUME NEW i \in 1..Len(g_tasks'[Daemon]), NEW j \in 1..Len(file'),
             file'[j].id = g_tasks'[Daemon][i].id
      PROVE  file'[j].next_run <= g_tasks'[Daemon][i].next_run
  <2>1. g_tasks'[Daemon] = g_tasks[Daemon]
    BY <1>0, <1>1
  <2>2. p = Daemon
    <3>1. SUFFICES ASSUME p /= Daemon PROVE FALSE
      OBVIOUS
    <3>2. g_tasks[Daemon] = <<>>
      BY <1>0, <3>1 DEF AloneInv
    <3>3. QED
      BY <2>1, <3>2
  <2>3. i = j
    BY <1>0, <1>5, <2>1, <2>2 DEF TableInv, TableOK, Distinct
  <2>4. g_tasks[Daemon][i] \in Tasks
    <3>1. g_tasks[Daemon] \in Seq(Tasks)
      BY <1>0 DEF TypeInv
    <3>2. QED
      BY <2>1, <3>1, ElementOfSeq
  <2>5. g_tasks[Daemon][i].next_run \in Nat
    BY <2>4, CronNats DEF Tasks
  <2>6. QED
    BY <2>1, <2>2, <2>3, <2>5
<1>6. ASSUME Exact
      PROVE  /\ \A q \in Procs : \A i \in 1..Len(g_tasks'[q]) : Fresh(ran, g_tasks'[q][i])
             /\ \A i \in 1..Len(file') : Fresh(ran, file'[i])
  BY <1>1, <1>6 DEF SpacedInv
<1>7. QED
  BY <1>0, <1>2, <1>3, <1>4, <1>5, <1>6 DEF SpacedInv

\* A process starts and loads the file.
LEMMA SpacedLoad ==
    ASSUME TypeInv, AloneInv, TableInv, SpacedInv, NEW p \in Procs,
           \A q \in Procs : pc[q] = "down",
           UNCHANGED <<ran, file>>, loaded' = (IF p = Daemon THEN now ELSE loaded),
           g_tasks' = [g_tasks EXCEPT ![p] = load_tasks_from_disk],
           p /= Daemon => pc'[Daemon] = pc[Daemon]
    PROVE  SpacedInv'
<1>0. /\ Daemon \in Procs /\ Exact' = Exact /\ g_tasks \in [Procs -> Seq(Tasks)]
      /\ file \in Seq(Tasks) /\ now \in 0..MaxTime
  BY DEF Procs, Exact, TypeInv
<1>1. PICK l \in Seq(Tasks) : l = load_tasks_from_disk
         /\ \A i \in 1..Len(l) : l[i] = Loaded(file[i]) /\ i \in 1..Len(file)
  BY <1>0, LoadedTable
<1>2. g_tasks'[p] = l /\ \A q \in Procs : q /= p => g_tasks'[q] = g_tasks[q] /\ g_tasks[q] = <<>>
  BY <1>0, <1>1 DEF AloneInv
<1>3. \A i \in 1..Len(l) :
         /\ file[i] \in Tasks
         /\ Fresh(ran, l[i]) \/ Old(ran, l[i])
         /\ Fresh(ran, l[i]) \/ now = ran[file[i].id]
         /\ Fresh(ran, file[i]) => Fresh(ran, l[i])
         /\ l[i].enabled => file[i].next_run <= l[i].next_run
         /\ l[i].id = file[i].id
  <2> TAKE i \in 1..Len(l)
  <2>1. file[i] \in Tasks /\ l[i] = Loaded(file[i]) /\ (Fresh(ran, file[i]) \/ Old(ran, file[i]))
    BY <1>0, <1>1 DEF SpacedInv
  <2>2. QED
    BY <1>0, <2>1, LoadedSpaced, LoadedRow
<1>4. \A q \in Procs : \A i \in 1..Len(g_tasks'[q]) :
         Fresh(ran, g_tasks'[q][i]) \/ Old(ran, g_tasks'[q][i])
  BY <1>2, <1>3
<1>5. \A i \in 1..Len(g_tasks'[Daemon]) :
         Fresh(ran, g_tasks'[Daemon][i]) \/ loaded' = ran[g_tasks'[Daemon][i].id]
  BY <1>0, <1>2, <1>3
<1>6. ASSUME NEW i \in 1..Len(g_tasks'[Daemon]), NEW j \in 1..Len(file),
             file[j].id = g_tasks'[Daemon][i].id, g_tasks'[Daemon][i].enabled
      PROVE  file[j].next_run <= g_tasks'[Daemon][i].next_run
  <2>1. p = Daemon
    BY <1>0, <1>2
  <2>2. i \in 1..Len(l) /\ file[j].id = file[i].id /\ i \in 1..Len(file)
    BY <1>1, <1>2, <1>3, <1>6, <2>1
  <2>3. i = j
    BY <2>2 DEF TableInv, TableOK, Distinct
  <2>4. QED
    BY <1>2, <1>3, <1>6, <2>1, <2>2, <2>3
<1>7. ASSUME Exact
      PROVE  /\ \A q \in Procs : \A i \in 1..Len(g_tasks'[q]) : Fresh(ran, g_tasks'[q][i])
             /\ \A i \in 1..Len(file) : Fresh(ran, file[i])
  <2>1. \A i \in 1..Len(file) : Fresh(ran, file[i])
    BY <1>0, <1>7 DEF SpacedInv
  <2>2. QED
    BY <1>1, <1>2, <1>3, <2>1
<1>8. QED
  BY <1>0, <1>4, <1>5, <1>6, <1>7 DEF SpacedInv

\* A command adds a task, which has not run yet.
LEMMA SpacedAdd ==
    ASSUME TypeInv, AloneInv, SpacedInv, NEW p \in Clis, cron_add_task(p)
    PROVE  SpacedInv'
<1>0. /\ Daemon \in Procs /\ p \in Procs /\ p /= Daemon /\ Exact' = Exact
      /\ g_tasks \in [Procs -> Seq(Tasks)] /\ ran \in [Ids -> -1..MaxTime]
  BY CronAssumption DEF Procs, Exact, TypeInv
<1>1. PICK t \in Tasks :
         /\ t.id = req[p].id /\ t.id \in Ids
         /\ g_tasks' = [g_tasks EXCEPT ![p] = Append(g_tasks[p], t)]
  BY <1>0, AddFacts
<1>2. /\ pc[p] = "op" /\ pc' = [pc EXCEPT ![p] = "save"] /\ UNCHANGED <<file, loaded>>
      /\ ran' = [ran EXCEPT ![t.id] = -1]
  BY <1>1 DEF cron_add_task
<1>3. g_tasks[Daemon] = <<>> /\ g_tasks'[Daemon] = <<>>
  BY <1>0, <1>1, <1>2 DEF AloneInv
<1>4. ran'[t.id] = -1 /\ \A id \in Ids : id /= t.id => ran'[id] = ran[id]
  BY <1>0, <1>1, <1>2
<1>5. \A x \in Tasks : x.id = t.id => Fresh(ran', x)
  BY <1>4 DEF Fresh
<1>6. \A x \in Tasks : x.id /= t.id => ran'[x.id] = ran[x.id]
  BY <1>4 DEF Tasks
<1>7. \A x \in Tasks : /\ Fresh(ran, x) => Fresh(ran', x)
                       /\ Fresh(ran, x) \/ Old(ran, x) => Fresh(ran', x) \/ Old(ran', x)
  BY <1>5, <1>6 DEF Fresh, Old
<1>8. \A i \in 1..Len(file) : file[i] \in Tasks
  BY DEF TypeInv
<1>9. ASSUME NEW q \in Procs, NEW i \in 1..Len(g_tasks'[q])
      PROVE  \/ g_tasks'[q][i] = t
             \/ \E j \in 1..Len(g_tasks[q]) : g_tasks'[q][i] = g_tasks[q][j]
                                              /\ g_tasks[q][j] \in Tasks
  <2>1. PICK g \in Seq(Tasks) : g = g_tasks[q]
    BY <1>0
  <2>2. \A j \in 1..Len(g) : g[j] \in Tasks
    OBVIOUS
  <2>3. CASE q /= p
    BY <1>0, <1>1, <2>1, <2>2, <2>3
  <2>4. CASE q = p
    <3>1. g_tasks'[q] = Append(g, t)
      BY <1>0, <1>1, <2>1, <2>4
    <3>2. /\ Len(Append(g, t)) = Len(g) + 1 /\ Append(g, t)[Len(g) + 1] = t
          /\ \A j \in 1..Len(g) : Append(g, t)[j] = g[j]
      BY AppendProperties
    <3>3. i = Len(g) + 1 \/ i \in 1..Len(g)
      BY <3>1, <3>2
    <3>4. QED
      BY <2>1, <2>2, <3>1, <3>2, <3>3
  <2>5. QED
    BY <2>3, <2>4
<1>10. \A q \in Procs : \A i \in 1..Len(g_tasks'[q]) :
          Fresh(ran', g_tasks'[q][i]) \/ Old(ran', g_tasks'[q][i])
  <2> TAKE q \in Procs
  <2> TAKE i \in 1..Len(g_tasks'[q])
  <2>1. CASE g_tasks'[q][i] = t
    BY <1>5, <2>1
  <2>2. CASE g_tasks'[q][i] /= t
    <3>1. PICK j \in 1..Len(g_tasks[q]) : g_tasks'[q][i] = g_tasks[q][j] /\ g_tasks[q][j] \in Tasks
      BY <1>9, <2>2
    <3>2. QED
      BY <1>7, <3>1 DEF SpacedInv
  <2>3. QED
    BY <2>1, <2>2
<1>11. \A i \in 1..Len(file) : Fresh(ran', file[i]) \/ Old(ran', file[i])
  BY <1>7, <1>8 DEF SpacedInv
<1>12. ASSUME Exact
       PROVE  /\ \A q \in Procs : \A i \in 1..Len(g_tasks'[q]) : Fresh(ran', g_tasks'[q][i])
              /\ pc'[Daemon] = "down" => \A i \in 1..Len(file) : Fresh(ran', file[i])
  <2>1. pc'[Daemon] = pc[Daemon]
    BY <1>0, <1>2 DEF TypeInv
  <2>2. pc[Daemon] = "down" => \A i \in 1..Len(file) : Fresh(ran', file[i])
    BY <1>7, <1>8, <1>12 DEF SpacedInv
  <2>3. ASSUME NEW q \in Procs, NEW i \in 1..Len(g_tasks'[q]) PROVE Fresh(ran', g_tasks'[q][i])
    <3>1. CASE g_tasks'[q][i] = t
      BY <1>5, <3>1
    <3>2. CASE g_tasks'[q][i] /= t
      <4>1. PICK j \in 1..Len(g_tasks[q]) : g_tasks'[q][i] = g_tasks[q][j] /\ g_tasks[q][j] \in Tasks
        BY <1>9, <3>2
      <4>2. QED
        BY <1>7, <1>12, <4>1 DEF SpacedInv
    <3>3. QED
      BY <3>1, <3>2
  <2>4. QED
    BY <2>1, <2>2, <2>3
<1>13. Len(g_tasks'[Daemon]) = 0 /\ file' = file
  BY <1>2, <1>3
<1>14. QED
  BY <1>0, <1>10, <1>11, <1>12, <1>13 DEF SpacedInv

\* The daemon pushes a task that is due.
LEMMA SpacedRun ==
    ASSUME TypeInv, AloneInv, TableInv, SpacedInv, RunTask
    PROVE  SpacedInv'
<1>0. /\ Daemon \in Procs /\ Exact' = Exact /\ tick \in Nat
      /\ g_tasks \in [Procs -> Seq(Tasks)] /\ ran \in [Ids -> -1..MaxTime]
  BY CronNats DEF Procs, Exact, TypeInv
<1>1. pc[Daemon] = "run" /\ UNCHANGED <<pc, file, loaded>>
  BY DEF RunTask
<1>2. PICK t \in Tasks :
        /\ at \in 1..Len(g_tasks[Daemon]) /\ t = g_tasks[Daemon][at]
        /\ \/ ~Due(t) /\ UNCHANGED <<ran, g_tasks>>
           \/ /\ Due(t) /\ ran' = [ran EXCEPT ![t.id] = tick]
              /\ \E u \in Tasks, s \in Seq(Tasks) :
                    /\ u.id = t.id /\ u.expression = t.expression /\ u.enabled = t.enabled
                    /\ u.next_run = calculate_next_run(t.expression, tick)
                    /\ g_tasks' = [g_tasks EXCEPT ![Daemon] = s]
                    /\ Len(s) = Len(g_tasks[Daemon]) /\ s[at] = u
                    /\ \A i \in 1..Len(s) : i /= at => s[i] = g_tasks[Daemon][i]
  BY RunFacts
<1>3. CASE UNCHANGED <<ran, g_tasks>>
  BY <1>1, <1>3, SpacedKeep
<1>4. CASE ~UNCHANGED <<ran, g_tasks>>
  <2>1. PICK g \in Seq(Tasks) : g = g_tasks[Daemon] /\ Distinct(g)
    BY <1>0 DEF TableInv, TableOK
  <2>2. PICK u \in Tasks, s \in Seq(Tasks) :
              /\ u.id = t.id /\ u.expression = t.expression /\ u.enabled = t.enabled
              /\ u.next_run = calculate_next_run(t.expression, tick)
              /\ g_tasks' = [g_tasks EXCEPT ![Daemon] = s]
              /\ Len(s) = Len(g) /\ s[at] = u
              /\ \A i \in 1..Len(s) : i /= at => s[i] = g[i]
    BY <1>2, <1>4, <2>1
  <2>3. /\ at \in 1..Len(g) /\ t = g[at] /\ t.id \in Ids /\ t.enabled /\ tick >= t.next_run
        /\ ran' = [ran EXCEPT ![t.id] = tick]
    BY <1>2, <1>4, <2>1 DEF Due, Tasks
  <2>4. /\ g_tasks'[Daemon] = s
        /\ \A q \in Procs : q /= Daemon => g_tasks'[q] = <<>>
    BY <1>0, <1>1, <2>2 DEF AloneInv
  <2>5. ran'[t.id] = tick /\ \A id \in Ids : id /= t.id => ran'[id] = ran[id]
    BY <1>0, <2>3
  <2>6. \A x \in Tasks : x.id /= t.id => /\ ran'[x.id] = ran[x.id]
                                         /\ Fresh(ran, x) <=> Fresh(ran', x)
                                         /\ Old(ran, x) <=> Old(ran', x)
    BY <2>5 DEF Fresh, Old, Tasks
  <2>7. Fresh(ran', u) /\ u.next_run > tick
    <3>1. Spaced(t.expression, tick, calculate_next_run(t.expression, tick))
      BY <1>0, NextRun
    <3>2. calculate_next_run(t.expression, tick) \in tick + 1..tick + Hour
      BY <1>0, NextRun
    <3>3. QED
      BY <1>0, <2>2, <2>5, <3>1, <3>2, CronNats DEF Fresh
  <2>8. \A i \in 1..Len(s) : i /= at => s[i] \in Tasks /\ s[i].id /= t.id /\ s[i] = g[i] /\ i \in 1..Len(g)
    BY <2>1, <2>2, <2>3 DEF Distinct
  <2>9. \A i \in 1..Len(file) : file[i] \in Tasks
    BY DEF TypeInv
  <2>10. \A j \in 1..Len(file) : file[j].id = t.id => file[j].next_run <= tick
    <3> TAKE j \in 1..Len(file)
    <3> HAVE file[j].id = t.id
    <3>1. file[j].next_run <= t.next_run
      BY <2>1, <2>3 DEF SpacedInv
    <3>2. file[j].next_run \in Nat /\ t.next_run \in Nat
      BY <2>9, CronNats DEF Tasks
    <3>3. QED
      BY <1>0, <2>3, <3>1, <3>2
  <2>11. \A j \in 1..Len(file) : Fresh(ran', file[j]) \/ Old(ran', file[j])
    <3> TAKE j \in 1..Len(file)
    <3>1. CASE file[j].id = t.id
      BY <2>5, <2>10, <3>1 DEF Old
    <3>2. CASE file[j].id /= t.id
      BY <2>6, <2>9, <3>2 DEF SpacedInv
    <3>3. QED
      BY <3>1, <3>2
  <2>12. \A i \in 1..Len(s) : /\ Fresh(ran', s[i]) \/ Old(ran', s[i])
                              /\ Fresh(ran', s[i]) \/ loaded = ran'[s[i].id]
    <3> TAKE i \in 1..Len(s)
    <3>1. CASE i = at
      BY <2>2, <2>7, <3>1
    <3>2. CASE i /= at
      <4>1. s[i] \in Tasks /\ s[i].id /= t.id /\ s[i] = g_tasks[Daemon][i] /\ i \in 1..Len(g_tasks[Daemon])
        BY <2>1, <2>8, <3>2
      <4>2. /\ Fresh(ran, s[i]) \/ Old(ran, s[i])
            /\ Fresh(ran, s[i]) \/ loaded = ran[s[i].id]
        BY <1>0, <4>1 DEF SpacedInv
      <4>3. QED
        BY <2>6, <4>1, <4>2
    <3>3. QED
      BY <3>1, <3>2
  <2>13. ASSUME NEW i \in 1..Len(s), NEW j \in 1..Len(file), file[j].id = s[i].id, s[i].enabled
         PROVE  file[j].next_run <= s[i].next_run
    <3>1. CASE i = at
      <4>1. file[j].next_run <= tick /\ file[j].next_run \in Nat /\ u.next_run \in Nat
        BY <2>2, <2>9, <2>10, <2>13, <3>1, CronNats DEF Tasks
      <4>2. QED
        BY <1>0, <2>2, <2>7, <3>1, <4>1
    <3>2. CASE i /= at
      BY <2>1, <2>8, <2>13, <3>2 DEF SpacedInv
    <3>3. QED
      BY <3>1, <3>2
  <2>14. ASSUME Exact, NEW i \in 1..Len(s) PROVE Fresh(ran', s[i])
    <3>1. CASE i = at
      BY <2>2, <2>7, <3>1
    <3>2. CASE i /= at
      <4>1. s[i] \in Tasks /\ s[i].id /= t.id /\ s[i] = g_tasks[Daemon][i] /\ i \in 1..Len(g_tasks[Daemon])
        BY <2>1, <2>8, <3>2
      <4>2. QED
        BY <1>0, <2>6, <2>14, <4>1 DEF SpacedInv
    <3>3. QED
      BY <3>1, <3>2
  <2>15. pc'[Daemon] /= "down"
    BY <1>1
  <2>16. \A q \in Procs : \A i \in 1..Len(g_tasks'[q]) :
            /\ Fresh(ran', g_tasks'[q][i]) \/ Old(ran', g_tasks'[q][i])
            /\ Exact => Fresh(ran', g_tasks'[q][i])
    BY <2>4, <2>12, <2>14
  <2>17. QED
    BY <1>0, <1>1, <2>4, <2>11, <2>12, <2>13, <2>15, <2>16 DEF SpacedInv
<1>5. QED
  BY <1>3, <1>4

LEMMA SpacedStep ==
    ASSUME OneAtATime
    PROVE  TypeInv /\ AloneInv /\ TableInv /\ SpacedInv /\ [CronNext]_cronVars => SpacedInv'
<1> SUFFICES ASSUME TypeInv, AloneInv, TableInv, SpacedInv, [CronNext]_cronVars
             PROVE  SpacedInv'
  OBVIOUS
<1>0. /\ Daemon \in Procs /\ Clis \subseteq Procs /\ Daemon \notin Clis
      /\ pc \in [Procs -> States] /\ g_tasks \in [Procs -> Seq(Tasks)] /\ file \in Seq(Tasks)
      /\ Len(<<>>) = 0
  BY CronAssumption DEF Procs, TypeInv
<1>1. CASE DaemonStart
  <2>1. /\ \A q \in Procs : pc[q] = "down"
        /\ UNCHANGED <<ran, file>> /\ loaded' = now
        /\ g_tasks' = [g_tasks EXCEPT ![Daemon] = load_tasks_from_disk]
    BY <1>1 DEF DaemonStart, Alone
  <2>2. QED
    BY <1>0, <2>1, SpacedLoad
<1>2. ASSUME UNCHANGED <<ran, loaded, g_tasks, file>>,
             pc'[Daemon] = "down" => pc[Daemon] = "down"
      PROVE  SpacedInv'
  BY <1>2, SpacedKeep
<1>3. CASE RunBegin \/ RunEnd \/ DaemonStop
  BY <1>0, <1>2, <1>3 DEF RunBegin, RunEnd, DaemonStop
<1>4. CASE RunTask
  BY <1>4, SpacedRun
<1>5. CASE Clock \/ UNCHANGED cronVars
  BY <1>2, <1>5 DEF Clock
<1>6. ASSUME NEW p \in Clis, CliStart(p) PROVE SpacedInv'
  <2>1. /\ p \in Procs /\ p /= Daemon /\ \A q \in Procs : pc[q] = "down"
        /\ UNCHANGED <<ran, file, loaded>> /\ pc' = [pc EXCEPT ![p] = "op"]
        /\ g_tasks' = [g_tasks EXCEPT ![p] = load_tasks_from_disk]
    BY <1>0, <1>6 DEF CliStart, Alone
  <2>2. pc'[Daemon] = pc[Daemon]
    BY <1>0, <2>1
  <2>3. QED
    BY <2>1, <2>2, SpacedLoad
<1>7. ASSUME NEW p \in Clis, cron_add_task(p) PROVE SpacedInv'
  BY <1>7, SpacedAdd
<1>8. ASSUME NEW p \in Clis, cron_remove_task(p) PROVE SpacedInv'
  <2>0. p \in Procs /\ p /= Daemon
    BY <1>0
  <2>1. PICK g \in Seq(Tasks) : g = g_tasks[p]
    BY <1>0, <2>0
  <2>2. PICK i \in 1..Len(g), r \in Seq(Tasks) :
              /\ g_tasks' = [g_tasks EXCEPT ![p] = r]
              /\ Len(r) = Len(g) - 1
              /\ \A j \in 1..Len(g) - 1 : r[j] = IF j < i THEN g[j] ELSE g[j + 1]
    BY <1>8, <2>0, <2>1, RemoveFacts
  <2>3. \A j \in 1..Len(r) : \E k \in 1..Len(g) : r[j] = g[k]
    <3> TAKE j \in 1..Len(r)
    <3>1. Len(g) \in Nat /\ j \in 1..Len(g) /\ j + 1 \in 1..Len(g)
      BY <2>2
    <3>2. r[j] = g[j] \/ r[j] = g[j + 1]
      BY <2>2
    <3>3. QED
      BY <3>1, <3>2
  <2>4. \A q \in Procs : \A j \in 1..Len(g_tasks'[q]) :
           \E k \in 1..Len(g_tasks[q]) : g_tasks'[q][j] = g_tasks[q][k]
    <3>1. g_tasks'[p] = r /\ \A q \in Procs : q /= p => g_tasks'[q] = g_tasks[q]
      BY <1>0, <2>0, <2>2
    <3>2. QED
      BY <2>1, <2>3, <3>1
  <2>5. UNCHANGED <<ran, loaded, file>> /\ pc'[Daemon] = pc[Daemon]
    BY <1>0, <1>8, <2>0 DEF cron_remove_task
  <2>6. QED
    BY <2>4, <2>5, SpacedKeep
<1>9. ASSUME NEW p \in Clis, CliNothing(p) PROVE SpacedInv'
  <2>1. p /= Daemon /\ p \in Procs /\ pc' = [pc EXCEPT ![p] = "end"]
        /\ UNCHANGED <<ran, loaded, g_tasks, file>>
    BY <1>0, <1>9 DEF CliNothing
  <2>2. QED
    BY <1>0, <1>2, <2>1
<1>10. ASSUME NEW p \in Procs, SaveOpen(p) PROVE SpacedInv'
  <2>1. /\ file' = <<>> /\ UNCHANGED <<ran, loaded, g_tasks>>
        /\ pc'[Daemon] = "down" => pc[Daemon] = "down"
    BY <1>0, <1>10 DEF SaveOpen
  <2>2. Len(file') = 0
    BY <1>0, <2>1
  <2>3. QED
    BY <2>1, <2>2, SpacedKeep
<1>11. ASSUME NEW p \in Procs, pc[p] \in Writing PROVE Written(p) = g_tasks[p] /\ pc[p] /= "down"
  BY <1>11, WrittenFacts DEF AloneInv, Writing
<1>12. ASSUME NEW p \in Procs, SaveWrite(p) PROVE SpacedInv'
  <2>1. pc[p] \in Writing /\ file' = Written(p) /\ UNCHANGED <<ran, loaded, g_tasks>>
    BY <1>12 DEF SaveWrite, Writing
  <2>2. QED
    BY <1>11, <2>1, SpacedSave
<1>13. ASSUME NEW p \in Procs, EndWrite(p) PROVE SpacedInv'
  <2>1. pc[p] \in Writing /\ file' = Written(p) /\ UNCHANGED ran
        /\ g_tasks' = [g_tasks EXCEPT ![p] = <<>>] /\ (p = Daemon \/ loaded' = loaded)
    BY <1>13 DEF EndWrite, Leave, Ends, Forget, Writing
  <2>2. g_tasks'[p] = <<>> /\ \A q \in Procs : q /= p => g_tasks'[q] = g_tasks[q]
    BY <1>0, <2>1
  <2>3. loaded' = loaded \/ Len(g_tasks'[Daemon]) = 0
    BY <2>1, <2>2
  <2>4. QED
    BY <1>11, <2>1, <2>2, <2>3, SpacedSave
<1>14. ASSUME NEW p \in Procs, g_tasks' = [g_tasks EXCEPT ![p] = <<>>], ~Exact,
              UNCHANGED <<ran, file>>, p = Daemon \/ loaded' = loaded
       PROVE  SpacedInv'
  <2>1. \A q \in Procs : Len(g_tasks'[q]) = 0 \/ g_tasks'[q] = g_tasks[q]
    BY <1>0, <1>14
  <2>2. \A q \in Procs : \A j \in 1..Len(g_tasks'[q]) :
           \E k \in 1..Len(g_tasks[q]) : g_tasks'[q][j] = g_tasks[q][k]
    BY <2>1
  <2>3. loaded' = loaded \/ Len(g_tasks'[Daemon]) = 0
    BY <1>0, <1>14
  <2>4. QED
    BY <1>14, <2>2, <2>3, SpacedKeep
<1>15. ASSUME NEW p \in Procs, SaveFails(p) PROVE SpacedInv'
  <2>1. ~Exact /\ pc[p] \in {"save", "end"} /\ UNCHANGED <<ran, file>>
    BY <1>15 DEF SaveFails, SaveStates, Exact
  <2>2. CASE pc[p] = "end"
    <3>1. g_tasks' = [g_tasks EXCEPT ![p] = <<>>] /\ (p = Daemon \/ loaded' = loaded)
      BY <1>15, <2>2 DEF SaveFails, Leave, Ends, Forget
    <3>2. QED
      BY <1>14, <2>1, <3>1
  <2>3. CASE pc[p] = "save"
    <3>1. UNCHANGED <<g_tasks, loaded>>
      BY <1>15, <2>3 DEF SaveFails
    <3>2. QED
      BY <2>1, <3>1, SpacedKeep
  <2>4. QED
    BY <2>1, <2>2, <2>3
<1>16. ASSUME NEW p \in Procs, Crash(p) PROVE SpacedInv'
  <2>1. ~Exact /\ UNCHANGED <<ran, file>> /\ g_tasks' = [g_tasks EXCEPT ![p] = <<>>]
        /\ (p = Daemon \/ loaded' = loaded)
    BY <1>16 DEF Crash, Forget, Exact
  <2>2. QED
    BY <1>14, <2>1
<1>17. ASSUME NEW p \in Procs, SaveCut(p) PROVE SpacedInv'
  <2>1. pc[p] \in Writing /\ UNCHANGED ran
    BY <1>17 DEF SaveCut, Writing
  <2>2. PICK n \in 0..Len(g_tasks[p]) - 1 : file' = WrittenUpTo(p, n)
    BY <1>17 DEF SaveCut
  <2>3. \A i \in 1..Len(file') : i \in 1..Len(g_tasks[p]) /\ file'[i] = g_tasks[p][i]
    <3>1. file = <<>> /\ Len(g_tasks[p]) \in Nat
      BY <2>1 DEF AloneInv, TypeInv
    <3>2. Len(file') = n /\ \A i \in 1..n : file'[i] = g_tasks[p][i]
      BY <2>2, <3>1, CutFacts
    <3>3. QED
      BY <3>1, <3>2
  <2>4. CASE pc[p] = "endWrite"
    <3>1. g_tasks' = [g_tasks EXCEPT ![p] = <<>>] /\ (p = Daemon \/ loaded' = loaded)
      BY <1>17, <2>4 DEF SaveCut, Ends, Forget
    <3>2. g_tasks'[p] = <<>> /\ \A q \in Procs : q /= p => g_tasks'[q] = g_tasks[q]
      BY <1>0, <3>1
    <3>3. loaded' = loaded \/ Len(g_tasks'[Daemon]) = 0
      BY <3>1, <3>2
    <3>4. QED
      BY <1>11, <2>1, <2>3, <3>2, <3>3, SpacedSave
  <2>5. CASE pc[p] /= "endWrite"
    <3>1. UNCHANGED <<g_tasks, loaded>>
      BY <1>17, <2>5 DEF SaveCut
    <3>2. QED
      BY <1>11, <2>1, <2>3, <3>1, SpacedSave
  <2>6. QED
    BY <2>4, <2>5
<1>18. QED
  BY <1>1, <1>3, <1>4, <1>5, <1>6, <1>7, <1>8, <1>9, <1>10, <1>12, <1>13, <1>15, <1>16, <1>17
     DEF CronNext

\* What RunsAreSpaced says of one step.
SpacedPush ==
    \A id \in Ids :
        (PushedAgain(id) /\ ~((MayCrash \/ SaveMayFail) /\ loaded = ran[id])) =>
            Spaced(g_tasks[Daemon][at].expression, ran[id], ran'[id])

LEMMA PushStep == TypeInv /\ SpacedInv /\ [CronNext]_cronVars => SpacedPush
<1> SUFFICES ASSUME TypeInv, SpacedInv, [CronNext]_cronVars, NEW id \in Ids,
                    ran[id] >= 0, ran'[id] > ran[id],
                    ~((MayCrash \/ SaveMayFail) /\ loaded = ran[id])
             PROVE  Spaced(g_tasks[Daemon][at].expression, ran[id], ran'[id])
  BY DEF SpacedPush, PushedAgain
<1>0. ran \in [Ids -> -1..MaxTime] /\ ran[id] \in Nat /\ tick \in Nat /\ Daemon \in Procs
      /\ g_tasks \in [Procs -> Seq(Tasks)]
  BY CronNats DEF TypeInv, Procs
<1>1. RunTask
  <2>1. ran' /= ran
    BY <1>0
  <2>2. ASSUME NEW p \in Clis, cron_add_task(p) PROVE FALSE
    <3>1. ran' = [ran EXCEPT ![req[p].id] = -1]
      BY <2>2 DEF cron_add_task
    <3>2. ran'[id] = ran[id] \/ ran'[id] = -1
      BY <1>0, <3>1
    <3>3. QED
      BY <1>0, <3>2
  <2>3. QED
    BY <2>1, <2>2 DEF CronNext, DaemonStart, RunBegin, RunEnd, DaemonStop, CliStart,
       cron_remove_task, CliNothing, SaveOpen, SaveWrite, EndWrite, SaveFails, SaveCut, Crash, Clock
<1>2. PICK t \in Tasks : /\ at \in 1..Len(g_tasks[Daemon]) /\ t = g_tasks[Daemon][at]
                         /\ \/ UNCHANGED ran
                            \/ Due(t) /\ ran' = [ran EXCEPT ![t.id] = tick]
  BY <1>1, RunFacts
<1>3. Due(t) /\ t.id = id /\ ran'[id] = tick
  BY <1>0, <1>2
<1>4. t.next_run \in Nat /\ tick >= t.next_run
  BY <1>3, CronNats DEF Due, Tasks
<1>5. Fresh(ran, t)
  <2>1. CASE MayCrash \/ SaveMayFail
    BY <1>2, <1>3, <2>1 DEF SpacedInv
  <2>2. CASE ~(MayCrash \/ SaveMayFail)
    BY <1>0, <1>2, <2>2 DEF SpacedInv, Exact
  <2>3. QED
    BY <2>1, <2>2
<1>6. Spaced(t.expression, ran[id], t.next_run)
  BY <1>3, <1>5 DEF Fresh
<1>7. Spaced(t.expression, ran[id], tick)
  BY <1>0, <1>4, <1>6, SpacedLater
<1>8. QED
  BY <1>2, <1>3, <1>7

\* One process at a time: a task is pushed at most once in an interval of its
\* schedule, and at most once a minute if its expression is short, however often the
\* table is saved and loaded between; only where a save was lost and the daemon was up
\* again within the same second it may be pushed again.
THEOREM RunsAreSpacedOut == ASSUME OneAtATime PROVE CronSpec => RunsAreSpaced
<1>1. CronInit => SpacedInv
  BY DEF CronInit, SpacedInv, Procs
<1>2. TypeInv /\ SpacedInv /\ [CronNext]_cronVars => [SpacedPush]_cronVars
  BY PushStep
<1>3. CronSpec => [](TypeInv /\ SpacedInv)
  BY <1>1, CronInvariants, SpacedStep, PTL DEF CronSpec
<1>4. CronSpec => [][SpacedPush]_cronVars
  BY <1>2, <1>3, PTL DEF CronSpec
<1>5. QED
  BY <1>4 DEF RunsAreSpaced, SpacedPush
-----------------------------------------------------------------------------
(* The table of the memory. *)

USE DEF muninnVars, storeVars, cacheVars, chunkVars, memoryVars

OneRowPerKey == \A x, y \in rows : x.key = y.key => x = y

RowsInv ==
    /\ rows \subseteq Row /\ clock \in 0..MaxMemTime
    /\ IsFiniteSet(rows) /\ OneRowPerKey
    /\ DOMAIN wrote = Keys /\ RecallsLast

LEMMA RowsInit == MemoryInit => RowsInv
<1> SUFFICES ASSUME MemoryInit PROVE RowsInv
  OBVIOUS
<1>1. rows = {} /\ clock = 0 /\ wrote = [k \in Keys |-> {}]
  BY DEF MemoryInit
<1>2. IsFiniteSet(rows)
  BY <1>1, FS_EmptySet
<1>3. clock \in 0..MaxMemTime
  BY <1>1, MemoryAssumption
<1> QED
  BY <1>1, <1>2, <1>3 DEF RowsInv, OneRowPerKey, RecallsLast, memory_recall

\* INSERT OR REPLACE.
LEMMA StoredRows ==
    ASSUME RowsInv, NEW k \in Keys, NEW v \in Values,
           rows' = Stored(rows, k, v, clock), wrote' = [wrote EXCEPT ![k] = {v}],
           clock' = clock
    PROVE  RowsInv'
<1>1. PICK x \in Row : /\ x = [key |-> k, value |-> v, timestamp |-> clock]
                       /\ x.key = k /\ x.value = v
  <2>1. clock \in 0..MaxMemTime
    BY DEF RowsInv
  <2>2. [key |-> k, value |-> v, timestamp |-> clock] \in Row
    BY <2>1 DEF Row
  <2> QED
    BY <2>2
<1> DEFINE others == {y \in rows : y.key /= k}
<1>2. rows' = others \cup {x}
  BY <1>1 DEF Stored
<1>3. IsFiniteSet(others) /\ others \subseteq Row
  <2>1. others \in SUBSET rows
    OBVIOUS
  <2> QED
    BY <2>1, FS_Subset DEF RowsInv
<1>4. IsFiniteSet(rows')
  BY <1>2, <1>3, FS_AddElement
<1>5. rows' \subseteq Row /\ clock' \in 0..MaxMemTime
  BY <1>2, <1>3 DEF RowsInv
<1>6. OneRowPerKey'
  BY <1>1, <1>2 DEF RowsInv, OneRowPerKey
<1>7. DOMAIN wrote' = Keys /\ wrote'[k] = {v} /\ \A j \in Keys : j /= k => wrote'[j] = wrote[j]
  BY DEF RowsInv
<1>8. RecallsLast'
  <2> SUFFICES ASSUME NEW j \in Keys
               PROVE  {y.value : y \in {z \in rows' : z.key = j}} = wrote'[j]
    BY DEF RecallsLast, memory_recall
  <2>1. CASE j = k
    <3>1. {z \in rows' : z.key = j} = {x}
      BY <1>1, <1>2, <2>1
    <3> QED
      BY <1>1, <1>7, <2>1, <3>1
  <2>2. CASE j /= k
    <3>1. {z \in rows' : z.key = j} = {z \in rows : z.key = j}
      BY <1>1, <1>2, <2>2
    <3> QED
      BY <1>7, <2>2, <3>1 DEF RowsInv, RecallsLast, memory_recall
  <2> QED
    BY <2>1, <2>2
<1> QED
  BY <1>4, <1>5, <1>6, <1>7, <1>8 DEF RowsInv

\* Rows are removed with all that was known of their keys.
LEMMA RemovedRows ==
    ASSUME RowsInv, NEW old \in SUBSET rows, rows' = rows \ old, clock' = clock,
           wrote' = [k \in Keys |-> IF \E x \in old : x.key = k THEN {} ELSE wrote[k]]
    PROVE  RowsInv'
<1>1. rows' \in SUBSET rows
  OBVIOUS
<1>2. IsFiniteSet(rows') /\ rows' \subseteq Row /\ clock' \in 0..MaxMemTime
  BY <1>1, FS_Subset DEF RowsInv
<1>3. OneRowPerKey'
  BY <1>1 DEF RowsInv, OneRowPerKey
<1>4. RecallsLast'
  <2> SUFFICES ASSUME NEW j \in Keys
               PROVE  {y.value : y \in {z \in rows' : z.key = j}} = wrote'[j]
    BY DEF RecallsLast, memory_recall
  <2>1. CASE \E x \in old : x.key = j
    <3>1. {z \in rows' : z.key = j} = {}
      BY <2>1 DEF RowsInv, OneRowPerKey
    <3> QED
      BY <2>1, <3>1
  <2>2. CASE ~\E x \in old : x.key = j
    <3>1. {z \in rows' : z.key = j} = {z \in rows : z.key = j}
      BY <2>2
    <3> QED
      BY <2>2, <3>1 DEF RowsInv, RecallsLast, memory_recall
  <2> QED
    BY <2>1, <2>2
<1> QED
  BY <1>2, <1>3, <1>4 DEF RowsInv

LEMMA RowsStep == RowsInv /\ [MemoryNext]_memoryVars => RowsInv'
<1> SUFFICES ASSUME RowsInv, [MemoryNext]_memoryVars PROVE RowsInv'
  OBVIOUS
<1>0. ASSUME UNCHANGED <<rows, wrote>>, clock' \in 0..MaxMemTime PROVE RowsInv'
  BY <1>0 DEF RowsInv, OneRowPerKey, RecallsLast, memory_recall
<1>1. ASSUME NEW k \in Keys, NEW v \in Values, memory_store(k, v) PROVE RowsInv'
  BY <1>1, StoredRows DEF memory_store
<1>2. CASE memory_import_json
  <2>1. "key" \in Keys /\ "value" \in Values
    BY MemoryAssumption
  <2> QED
    BY <1>2, <2>1, StoredRows DEF memory_import_json
<1>3. ASSUME NEW k \in Keys, memory_delete(k) PROVE RowsInv'
  <2> DEFINE old == {x \in rows : x.key = k}
  <2>1. rows' = rows \ old /\ clock' = clock /\ wrote' = [wrote EXCEPT ![k] = {}]
    BY <1>3 DEF memory_delete
  <2>2. \A j \in Keys : (\E x \in old : x.key = j) => j = k
    OBVIOUS
  <2>3. ~(\E x \in old : x.key = k) => wrote[k] = {}
    BY DEF RowsInv, RecallsLast, memory_recall
  <2>4. wrote' = [j \in Keys |-> IF \E x \in old : x.key = j THEN {} ELSE wrote[j]]
    BY <2>1, <2>2, <2>3 DEF RowsInv
  <2>5. old \in SUBSET rows
    OBVIOUS
  <2> HIDE DEF old
  <2> QED
    BY <2>1, <2>4, <2>5, RemovedRows
<1>4. CASE memory_clear
  <2>1. rows' = rows \ rows /\ clock' = clock /\ wrote' = [k \in Keys |-> {}]
    BY <1>4 DEF memory_clear
  <2>2. \A k \in Keys : ~(\E x \in rows : x.key = k) => wrote[k] = {}
    BY DEF RowsInv, RecallsLast, memory_recall
  <2>3. wrote' = [k \in Keys |-> IF \E x \in rows : x.key = k THEN {} ELSE wrote[k]]
    BY <2>1, <2>2
  <2> QED
    BY <2>1, <2>3, RemovedRows
<1>5. ASSUME NEW days \in 1..MaxMemTime + 1, memory_hygiene_run(days) PROVE RowsInv'
  <2> DEFINE old == {x \in rows : x.timestamp < cutoff(days)}
  <2>1. /\ rows' = rows \ old /\ clock' = clock
        /\ wrote' = [k \in Keys |-> IF \E x \in old : x.key = k THEN {} ELSE wrote[k]]
    BY <1>5 DEF memory_hygiene_run
  <2>2. old \in SUBSET rows
    OBVIOUS
  <2> HIDE DEF old
  <2> QED
    BY <2>1, <2>2, RemovedRows
<1>6. CASE MemoryClock
  <2>1. clock + 1 \in 0..MaxMemTime
    BY <1>6, MemoryAssumption DEF MemoryClock, RowsInv
  <2> QED
    BY <1>0, <1>6, <2>1 DEF MemoryClock
<1>7. CASE memory_create \/ memory_free \/ memory_export_json
  BY <1>0, <1>7 DEF memory_create, memory_free, memory_export_json, RowsInv
<1>8. CASE MemoryCacheNext \/ MemoryChunkNext \/ UNCHANGED memoryVars
  <2>1. UNCHANGED storeVars
    BY <1>8 DEF MemoryCacheNext, MemoryChunkNext, memory_response_cache_set, NewText,
                memory_chunk_text
  <2> QED
    BY <1>0, <2>1 DEF RowsInv
<1>9. ASSUME NEW k \in Keys,
             memory_muninn_recall(k) \/ (\E v \in Values : memory_muninn_store(k, v))
      PROVE  RowsInv'
  BY <1>0, <1>9 DEF memory_muninn_recall, memory_muninn_store, RowsInv
<1> QED
  BY <1>1, <1>2, <1>3, <1>4, <1>5, <1>6, <1>7, <1>8, <1>9
     DEF MemoryNext, MemoryStoreNext, MemoryMuninnNext
-----------------------------------------------------------------------------
(* The engrams of muninn. *)

EngramIs(k, v, t) == [concept |-> k, content |-> v, access_count |-> 0, last_access |-> t]

\* What was recalled last has been accessed, and it beats all that match its key.
RecalledInv ==
    /\ engrams \in Seq(Engram)
    /\ \A i \in DOMAIN engrams : engrams[i].last_access <= clock
    /\ recalled /= <<>> =>
          /\ recalled[1] \in Keys /\ recalled[2] \in MatchedFor(recalled[1])
          /\ engrams[recalled[2]].access_count >= 1
          /\ \A j \in MatchedFor(recalled[1]) :
                j /= recalled[2] => Priority(engrams[j]) < Priority(engrams[recalled[2]])

LEMMA RecalledInit == MemoryInit => RecalledInv
  BY DEF MemoryInit, RecalledInv

LEMMA PriorityType == ASSUME NEW e \in Engram PROVE Priority(e) \in Nat
<1>1. e.access_count \in Nat /\ Recency[e.last_access] \in Nat
  BY MemoryAssumption DEF Engram
<1>2. \A a, b \in Nat : (1 + a) * b \in Nat
  OBVIOUS
<1> QED
  BY <1>1, <1>2 DEF Priority

LEMMA HitsAreEngrams == ASSUME NEW k PROVE MatchedFor(k) \subseteq DOMAIN engrams
  BY DEF MatchedFor, Hits

\* A new engram is behind the others and changes no rank among them.
LEMMA StoredBehind ==
    ASSUME RecalledInv, RowsInv, NEW c \in Keys, NEW v \in Values,
           engrams' = Append(engrams, EngramIs(c, v, clock)), NEW k \in Keys
    PROVE  /\ engrams' \in Seq(Engram) /\ Len(engrams') = Len(engrams) + 1
           /\ \A i \in DOMAIN engrams : engrams'[i] = engrams[i]
           /\ engrams'[Len(engrams) + 1] = EngramIs(c, v, clock)
           /\ MatchedFor(k) \subseteq MatchedFor(k)'
           /\ MatchedFor(k)' \subseteq MatchedFor(k) \cup {Len(engrams) + 1}
<1>1. EngramIs(c, v, clock) \in Engram
  BY MemoryAssumption DEF EngramIs, Engram, RowsInv
<1>2. /\ engrams \in Seq(Engram) /\ Len(engrams) \in Nat /\ DOMAIN engrams = 1..Len(engrams)
  BY DEF RecalledInv
<1>3. /\ engrams' \in Seq(Engram) /\ Len(engrams') = Len(engrams) + 1
      /\ \A i \in DOMAIN engrams : engrams'[i] = engrams[i]
      /\ engrams'[Len(engrams) + 1] = EngramIs(c, v, clock)
      /\ DOMAIN engrams' = 1..Len(engrams) + 1
  BY <1>1, <1>2
<1>4. Hits(k) \subseteq DOMAIN engrams /\ Hits(k)' \subseteq DOMAIN engrams'
  BY DEF Hits
<1>5. \A i \in DOMAIN engrams : i \in Hits(k)' <=> i \in Hits(k)
  BY <1>2, <1>3 DEF Hits
<1>6. ASSUME NEW i \in DOMAIN engrams
      PROVE  {j \in Hits(k)' : j < i} = {j \in Hits(k) : j < i}
  BY <1>2, <1>3, <1>4, <1>5
<1>7. \A i \in DOMAIN engrams : i \in MatchedFor(k)' <=> i \in MatchedFor(k)
  BY <1>5, <1>6 DEF MatchedFor
<1>8. MatchedFor(k) \subseteq DOMAIN engrams /\ MatchedFor(k)' \subseteq DOMAIN engrams'
  BY <1>4 DEF MatchedFor
<1>9. DOMAIN engrams' \subseteq DOMAIN engrams \cup {Len(engrams) + 1}
  BY <1>2, <1>3
<1> QED
  BY <1>3, <1>7, <1>8, <1>9

LEMMA RecalledStore ==
    ASSUME RecalledInv, RowsInv, NEW c \in Keys, NEW v \in Values, memory_muninn_store(c, v)
    PROVE  RecalledInv'
<1>1. engrams' = Append(engrams, EngramIs(c, v, clock)) /\ UNCHANGED clock
  BY DEF memory_muninn_store, EngramIs
<1>2. engrams' \in Seq(Engram) /\ \A i \in DOMAIN engrams' : engrams'[i].last_access <= clock'
  <2>1. clock \in Nat /\ Len(engrams) \in Nat /\ DOMAIN engrams = 1..Len(engrams)
    BY MemoryAssumption DEF RowsInv, RecalledInv
  <2>2. /\ engrams' \in Seq(Engram) /\ Len(engrams') = Len(engrams) + 1
        /\ \A i \in DOMAIN engrams : engrams'[i] = engrams[i]
        /\ engrams'[Len(engrams) + 1] = EngramIs(c, v, clock)
    BY <1>1, StoredBehind
  <2>3. EngramIs(c, v, clock).last_access <= clock
    BY <2>1 DEF EngramIs
  <2>4. DOMAIN engrams' = 1..Len(engrams) + 1
    BY <2>1, <2>2
  <2> QED
    BY <1>1, <2>1, <2>2, <2>3, <2>4 DEF RecalledInv
<1>3. ASSUME recalled' /= <<>>
      PROVE  RecalledInv'
  <2>1. recalled' = recalled /\ recalled /= <<>> /\ engrams[recalled[2]].last_access = clock
    BY <1>3 DEF memory_muninn_store
  <2>2. PICK k \in Keys : k = recalled[1]
    BY <2>1 DEF RecalledInv
  <2>3. PICK i \in DOMAIN engrams : i = recalled[2] /\ i \in MatchedFor(k)
    BY <2>1, <2>2, HitsAreEngrams DEF RecalledInv
  <2>4. /\ \A j \in DOMAIN engrams : engrams'[j] = engrams[j]
        /\ engrams'[Len(engrams) + 1] = EngramIs(c, v, clock)
        /\ MatchedFor(k) \subseteq MatchedFor(k)'
        /\ MatchedFor(k)' \subseteq MatchedFor(k) \cup {Len(engrams) + 1}
    BY <1>1, StoredBehind
  <2>5. engrams'[i] = engrams[i] /\ engrams[i].access_count >= 1 /\ engrams[i] \in Engram
    BY <2>1, <2>2, <2>3, <2>4 DEF RecalledInv
  <2>6. Priority(EngramIs(c, v, clock)) < Priority(engrams[i])
    <3>1. PICK a \in Nat, w \in Nat \ {0} : a = engrams[i].access_count /\ w = Recency[clock]
      BY <2>5, MemoryAssumption DEF RowsInv, Engram
    <3>2. Priority(engrams[i]) = (1 + a) * w /\ Priority(EngramIs(c, v, clock)) = (1 + 0) * w
      BY <2>1, <2>3, <3>1 DEF Priority, EngramIs
    <3>3. a >= 1
      BY <2>5, <3>1
    <3>4. (1 + a) * w = w + a * w /\ (1 + 0) * w = w /\ a * w >= w
      BY <3>1, <3>3
    <3> QED
      BY <3>1, <3>2, <3>4
  <2>7. ASSUME NEW j \in MatchedFor(k)', j /= i
        PROVE  Priority(engrams'[j]) < Priority(engrams'[i])
    <3>1. CASE j = Len(engrams) + 1
      BY <2>4, <2>5, <2>6, <3>1
    <3>2. CASE j \in MatchedFor(k)
      <4>1. j \in DOMAIN engrams
        BY <3>2, HitsAreEngrams
      <4>2. Priority(engrams[j]) < Priority(engrams[i])
        BY <2>1, <2>2, <2>3, <2>7, <3>2 DEF RecalledInv
      <4> QED
        BY <2>4, <2>5, <4>1, <4>2
    <3> QED
      BY <2>4, <2>7, <3>1, <3>2
  <2>8. recalled'[1] = k /\ recalled'[2] = i
    BY <2>1, <2>2, <2>3
  <2> QED
    BY <1>2, <2>2, <2>3, <2>4, <2>5, <2>7, <2>8 DEF RecalledInv, Priority
<1> QED
  BY <1>2, <1>3 DEF RecalledInv

LEMMA RecalledRecall ==
    ASSUME RecalledInv, RowsInv, NEW k \in Keys, memory_muninn_recall(k)
    PROVE  RecalledInv'
<1>0. PICK C : /\ C \in IF Hits(k) = {} THEN Fallbacks ELSE {MatchedFor(k)}
               /\ \E i \in Strongest(C) :
                     /\ engrams[i].access_count < MaxAccess /\ engrams' = Accessed(i)
                     /\ recalled' = IF Hits(k) = {} THEN <<>> ELSE <<k, i>>
  BY DEF memory_muninn_recall
<1>1. PICK i \in Strongest(C) :
         /\ engrams[i].access_count < MaxAccess /\ engrams' = Accessed(i)
         /\ recalled' = IF Hits(k) = {} THEN <<>> ELSE <<k, i>>
  BY <1>0
<1>2. C \subseteq DOMAIN engrams
  BY <1>0, HitsAreEngrams DEF Fallbacks
<1>3. /\ i \in C /\ i \in DOMAIN engrams /\ engrams \in Seq(Engram) /\ engrams[i] \in Engram
      /\ \A j \in C : Priority(engrams[j]) <= Priority(engrams[i])
  BY <1>1, <1>2 DEF Strongest, RecalledInv
<1>4. PICK a \in Nat : /\ a = engrams[i].access_count /\ a < MaxAccess
  BY <1>1, <1>3, MemoryAssumption DEF Engram
<1>5. PICK x \in Engram : /\ engrams' = [engrams EXCEPT ![i] = x]
                          /\ x.concept = engrams[i].concept /\ x.content = engrams[i].content
                          /\ x.access_count = a + 1 /\ x.last_access = clock
  <2>1. PICK y : y = [engrams[i] EXCEPT !.access_count = a + 1, !.last_access = clock]
    OBVIOUS
  <2>2. y \in Engram
    <3>1. a + 1 \in 0..MaxAccess /\ clock \in 0..MaxMemTime
      BY <1>4, MemoryAssumption DEF RowsInv
    <3> QED
      BY <1>3, <2>1, <3>1 DEF Engram
  <2>3. /\ y.concept = engrams[i].concept /\ y.content = engrams[i].content
        /\ y.access_count = a + 1 /\ y.last_access = clock
    BY <1>3, <2>1 DEF Engram
  <2>4. engrams' = [engrams EXCEPT ![i] = y]
    BY <1>1, <1>3, <1>4, <2>1 DEF Accessed, Engram
  <2> QED
    BY <2>2, <2>3, <2>4
<1>6. /\ engrams' \in Seq(Engram) /\ DOMAIN engrams' = DOMAIN engrams /\ engrams'[i] = x
      /\ \A j \in DOMAIN engrams : j /= i => engrams'[j] = engrams[j]
  BY <1>3, <1>5
<1>7. ASSUME Hits(k) /= {}
      PROVE  /\ k \in Keys /\ i \in MatchedFor(k)' /\ engrams'[i].access_count >= 1
             /\ \A j \in MatchedFor(k)' :
                   j /= i => Priority(engrams'[j]) < Priority(engrams'[i])
  <2>1. C = MatchedFor(k)
    BY <1>0, <1>7
  <2>2. Hits(k)' = Hits(k)
    BY <1>5, <1>6 DEF Hits
  <2>3. MatchedFor(k)' = C
    BY <2>1, <2>2 DEF MatchedFor
  <2>4. Priority(engrams[i]) < Priority(x)
    <3>1. engrams[i].last_access \in 0..MaxMemTime /\ engrams[i].last_access <= clock
      BY <1>3 DEF RecalledInv, Engram
    <3>2. PICK w \in Nat \ {0}, u \in Nat \ {0} :
             w = Recency[engrams[i].last_access] /\ u = Recency[clock] /\ w <= u
      BY <3>1, MemoryAssumption DEF RowsInv
    <3>3. PICK b \in Nat : b = 1 + a
      OBVIOUS
    <3>4. Priority(engrams[i]) = b * w /\ Priority(x) = (b + 1) * u
      BY <1>4, <1>5, <3>2, <3>3 DEF Priority
    <3>5. b * w <= b * u
      BY <3>2, <3>3
    <3>6. b * u \in Nat /\ b * w \in Nat
      BY <3>2, <3>3
    <3>7. (b + 1) * u = b * u + u
      <4>1. \A m, n \in Nat : (m + 1) * n = m * n + n
        OBVIOUS
      <4> QED
        BY <4>1
    <3> QED
      BY <3>2, <3>4, <3>5, <3>6, <3>7
  <2>5. ASSUME NEW j \in C, j /= i PROVE Priority(engrams'[j]) < Priority(engrams'[i])
    <3>1. engrams'[j] = engrams[j] /\ engrams[j] \in Engram
      BY <1>2, <1>3, <1>6, <2>5
    <3>2. Priority(engrams[j]) \in Nat /\ Priority(engrams[i]) \in Nat /\ Priority(x) \in Nat
      BY <1>3, <1>5, <3>1, PriorityType
    <3> QED
      BY <1>3, <1>6, <2>4, <3>1, <3>2
  <2> QED
    BY <1>3, <1>4, <1>5, <1>6, <2>3, <2>5
<1>8. \A j \in DOMAIN engrams' : engrams'[j].last_access <= clock'
  <2>1. clock' = clock /\ clock \in Nat
    BY MemoryAssumption DEF RowsInv, memory_muninn_recall
  <2> QED
    BY <1>5, <1>6, <2>1 DEF RecalledInv
<1> QED
  BY <1>1, <1>6, <1>7, <1>8 DEF RecalledInv, Priority

LEMMA RecalledStep == RowsInv /\ RecalledInv /\ [MemoryNext]_memoryVars => RecalledInv'
<1> SUFFICES ASSUME RowsInv, RecalledInv, [MemoryNext]_memoryVars PROVE RecalledInv'
  OBVIOUS
<1>1. CASE UNCHANGED muninnVars /\ clock' \in {clock, clock + 1}
  <2>1. clock \in Nat /\ \A i \in DOMAIN engrams : engrams[i].last_access \in Nat
    <3>1. MaxMemTime \in Nat /\ \A i \in DOMAIN engrams : engrams[i] \in Engram
      BY MemoryAssumption DEF RecalledInv
    <3> QED
      BY <3>1 DEF RowsInv, Engram
  <2>2. \A i \in DOMAIN engrams : engrams[i].last_access <= clock'
    BY <1>1, <2>1 DEF RecalledInv
  <2> QED
    BY <1>1, <2>2 DEF RecalledInv, MatchedFor, Hits
<1>2. ASSUME NEW k \in Keys, NEW v \in Values, memory_muninn_store(k, v) PROVE RecalledInv'
  BY <1>2, RecalledStore
<1>3. ASSUME NEW k \in Keys, memory_muninn_recall(k) PROVE RecalledInv'
  BY <1>3, RecalledRecall
<1>4. MemoryStoreNext \/ memory_create \/ memory_free \/ MemoryClock \/ MemoryCacheNext
      \/ MemoryChunkNext \/ UNCHANGED memoryVars
      => UNCHANGED muninnVars /\ clock' \in {clock, clock + 1}
  BY DEF MemoryStoreNext, MemoryCacheNext, MemoryChunkNext, NewText,
         memory_chunk_text, memory_response_cache_set, memory_create, memory_clear,
         memory_free, MemoryClock, memory_store, memory_delete, memory_hygiene_run,
         memory_export_json, memory_import_json
<1> QED
  BY <1>1, <1>2, <1>3, <1>4 DEF MemoryNext, MemoryMuninnNext

LEMMA RecalledIsBest == RecalledInv => RecalledStays
<1> SUFFICES ASSUME RecalledInv, recalled /= <<>>
             PROVE  Strongest(MatchedFor(recalled[1])) = {recalled[2]}
  BY DEF RecalledStays
<1>1. PICK k, i : k = recalled[1] /\ i = recalled[2]
  OBVIOUS
<1>2. /\ i \in MatchedFor(k)
      /\ \A j \in MatchedFor(k) : j /= i => Priority(engrams[j]) < Priority(engrams[i])
  BY <1>1 DEF RecalledInv
<1>3. \A j \in MatchedFor(k) : Priority(engrams[j]) \in Nat
  BY HitsAreEngrams, PriorityType DEF RecalledInv
<1>4. i \in Strongest(MatchedFor(k))
  BY <1>2, <1>3 DEF Strongest
<1>5. \A j \in Strongest(MatchedFor(k)) : j = i
  BY <1>2, <1>3 DEF Strongest
<1> QED
  BY <1>1, <1>4, <1>5
-----------------------------------------------------------------------------
(* The cache of responses. *)

Pairs == Prompts \X Responses

\* What a slot keeps of a prompt and its answer.
Kept(x) == Slot(x[1], x[2])

LEMMA KeptType == ASSUME NEW x \in Pairs PROVE Kept(x) \in Pairs
  BY MemoryAssumption DEF Kept, Slot, Pairs

\* A slot has the newest of the answers whose number leads to it.
CacheInv ==
    /\ sets \in Seq(Pairs) /\ g_cache_count = Len(sets)
    /\ g_cache \in [0..CacheSize - 1 -> Pairs \cup {<<>>}]
    /\ \A i \in 0..CacheSize - 1 :
          g_cache[i] /= <<>> =>
              \E n \in 1..Len(sets) : /\ n > Len(sets) - CacheSize
                                      /\ (n - 1) % CacheSize = i
                                      /\ Kept(sets[n]) = g_cache[i]
    /\ sets /= <<>> => g_cache[(Len(sets) - 1) % CacheSize] = Kept(sets[Len(sets)])

LEMMA CacheInit == MemoryInit => CacheInv
<1> SUFFICES ASSUME MemoryInit PROVE CacheInv
  OBVIOUS
<1>1. /\ g_cache = [i \in 0..CacheSize - 1 |-> <<>>] /\ g_cache_count = 0 /\ sets = <<>>
  BY DEF MemoryInit
<1>2. g_cache \in [0..CacheSize - 1 -> Pairs \cup {<<>>}]
  BY <1>1
<1>3. sets \in Seq(Pairs) /\ Len(sets) = 0
  BY <1>1
<1>4. \A i \in 0..CacheSize - 1 : g_cache[i] = <<>>
  BY <1>1
<1> QED
  BY <1>1, <1>2, <1>3, <1>4 DEF CacheInv

\* The answer that is one turn older has the slot of the new one.
LEMMA SlotIsReused ==
    ASSUME NEW c \in Nat \ {0}, NEW y \in Nat
    PROVE  (y + c) % c = y % c
<1>1. PICK q \in Nat, r \in 0..c - 1 : y = c * q + r /\ r = y % c
  BY SMT
<1>2. y + c = c * (q + 1) + r /\ q + 1 \in Nat
  BY <1>1
<1>3. (c * (q + 1) + r) % c = r
  BY <1>2, ModIs
<1> QED
  BY <1>1, <1>2, <1>3

LEMMA CacheSets ==
    ASSUME CacheInv, NEW p \in Prompts, NEW r \in Responses, memory_response_cache_set(p, r)
    PROVE  CacheInv'
<1>1. CacheSize \in Nat \ {0} /\ Len(sets) \in Nat
  BY MemoryAssumption DEF CacheInv
<1>2. PICK x \in Pairs : x = <<p, r>>
  BY DEF Pairs
<1>3. PICK k \in 0..CacheSize - 1 : k = Len(sets) % CacheSize
  BY <1>1
<1>4. /\ g_cache' = [g_cache EXCEPT ![k] = Kept(x)] /\ g_cache_count' = Len(sets) + 1
      /\ sets' = Append(sets, x) /\ Kept(x) \in Pairs
  BY <1>2, <1>3, KeptType DEF memory_response_cache_set, CacheInv, Kept
<1>5. /\ sets' \in Seq(Pairs) /\ Len(sets') = Len(sets) + 1 /\ sets'[Len(sets) + 1] = x
      /\ \A n \in 1..Len(sets) : sets'[n] = sets[n]
  BY <1>1, <1>2, <1>4 DEF CacheInv
<1>6. /\ g_cache' \in [0..CacheSize - 1 -> Pairs \cup {<<>>}] /\ g_cache'[k] = Kept(x)
      /\ \A i \in 0..CacheSize - 1 : i /= k => g_cache'[i] = g_cache[i]
  BY <1>2, <1>3, <1>4 DEF CacheInv
<1>7. ASSUME NEW i \in 0..CacheSize - 1, g_cache'[i] /= <<>>
      PROVE  \E n \in 1..Len(sets') : /\ n > Len(sets') - CacheSize
                                      /\ (n - 1) % CacheSize = i
                                      /\ Kept(sets'[n]) = g_cache'[i]
  <2>1. CASE i = k
    <3>1. Len(sets) + 1 \in 1..Len(sets') /\ (Len(sets) + 1) - 1 = Len(sets)
      BY <1>1, <1>5
    <3>2. Len(sets) + 1 > Len(sets') - CacheSize
      BY <1>1, <1>5
    <3> QED
      BY <1>3, <1>5, <1>6, <2>1, <3>1, <3>2
  <2>2. CASE i /= k
    <3>1. PICK n \in 1..Len(sets) : /\ n > Len(sets) - CacheSize
                                    /\ (n - 1) % CacheSize = i
                                    /\ Kept(sets[n]) = g_cache[i]
      BY <1>6, <1>7, <2>2 DEF CacheInv
    <3>2. n - 1 /= Len(sets) - CacheSize
      <4>1. ((n - 1) + CacheSize) % CacheSize = (n - 1) % CacheSize
        <5>1. n - 1 \in Nat
          BY <3>1
        <5> QED
          BY <1>1, <5>1, SlotIsReused
      <4>2. n - 1 = Len(sets) - CacheSize => (n - 1) + CacheSize = Len(sets)
        BY <1>1
      <4> QED
        BY <1>3, <2>2, <3>1, <4>1, <4>2
    <3>3. n \in 1..Len(sets') /\ n > Len(sets') - CacheSize
      BY <1>1, <1>5, <3>1, <3>2
    <3> QED
      BY <1>5, <1>6, <2>2, <3>1, <3>3
  <2> QED
    BY <2>1, <2>2
<1>8. g_cache'[(Len(sets') - 1) % CacheSize] = Kept(sets'[Len(sets')])
  <2>1. Len(sets') - 1 = Len(sets)
    BY <1>1, <1>5
  <2> QED
    BY <1>3, <1>5, <1>6, <2>1
<1>9. g_cache_count' = Len(sets')
  BY <1>4, <1>5
<1> QED
  BY <1>5, <1>6, <1>7, <1>8, <1>9 DEF CacheInv, Kept, Slot

LEMMA CacheStep == CacheInv /\ [MemoryNext]_memoryVars => CacheInv'
<1> SUFFICES ASSUME CacheInv, [MemoryNext]_memoryVars PROVE CacheInv'
  OBVIOUS
<1>1. CASE UNCHANGED cacheVars
  BY <1>1 DEF CacheInv
<1>2. CASE MemoryCacheNext
  BY <1>2, CacheSets DEF MemoryCacheNext
<1>3. MemoryStoreNext \/ MemoryMuninnNext \/ MemoryChunkNext \/ UNCHANGED memoryVars
      => UNCHANGED cacheVars
  BY DEF MemoryMuninnNext, memory_muninn_store, memory_muninn_recall,
         MemoryStoreNext, MemoryChunkNext, NewText, memory_chunk_text, memory_create,
         memory_clear, memory_free, MemoryClock, memory_store, memory_delete,
         memory_hygiene_run, memory_export_json, memory_import_json
<1> QED
  BY <1>1, <1>2, <1>3 DEF MemoryNext

LEMMA CacheAnswers == CacheInv => CachedForPrompt
<1> SUFFICES ASSUME CacheInv PROVE CachedForPrompt
  OBVIOUS
<1>1. CacheSize \in Nat \ {0} /\ Len(sets) \in Nat /\ DOMAIN g_cache = 0..CacheSize - 1
  BY MemoryAssumption DEF CacheInv
<1>2. \A n \in 1..Len(sets) : sets[n] \in Pairs
  BY DEF CacheInv
<1> DEFINE Found(p) == {i \in DOMAIN g_cache : /\ g_cache[i] /= <<>> /\ g_cache[i][1] /= EmptyPrompt
                                             /\ g_cache[i][1] = p}
<1>3. ASSUME NEW p, NEW r \in memory_response_cache_get(p)
      PROVE  /\ CutPrompt[p] = p
             /\ \E n \in DOMAIN sets : n > Len(sets) - CacheSize
                                      /\ Slot(sets[n][1], sets[n][2]) = <<p, r>>
  <2>1. Found(p) \subseteq Nat
    BY <1>1
  <2>2. Found(p) /= {} /\ r = g_cache[Min(Found(p))][2]
    BY <1>3 DEF memory_response_cache_get
  <2>3. PICK m \in Found(p) : m = Min(Found(p))
    BY <2>1, <2>2, MinOfNats
  <2>4. PICK n \in 1..Len(sets) : n > Len(sets) - CacheSize /\ Kept(sets[n]) = g_cache[m]
    BY <1>1, <2>3 DEF CacheInv
  <2>5. Kept(sets[n])[1] = p /\ Kept(sets[n])[2] = r
    BY <2>2, <2>3, <2>4
  <2>6. Slot(sets[n][1], sets[n][2]) = <<p, r>> /\ sets[n][1] \in Prompts
    BY <1>2, <2>5 DEF Pairs, Kept, Slot
  <2>7. DOMAIN sets = 1..Len(sets)
    BY DEF CacheInv
  <2>8. CutPrompt[p] = p
    BY <2>6, MemoryAssumption DEF Slot
  <2> QED
    BY <2>4, <2>6, <2>7, <2>8
<1>4. ASSUME sets /= <<>>, CutPrompt[Last(sets)[1]] /= EmptyPrompt
      PROVE  memory_response_cache_get(CutPrompt[Last(sets)[1]]) /= {}
  <2>1. Len(sets) >= 1
    BY <1>1, <1>4 DEF CacheInv
  <2>2. PICK m \in 0..CacheSize - 1 : m = (Len(sets) - 1) % CacheSize
    BY <1>1, <2>1
  <2>3. g_cache[m] = Kept(sets[Len(sets)]) /\ sets[Len(sets)] \in Pairs
    BY <1>2, <1>4, <2>1, <2>2, <1>1 DEF CacheInv
  <2>4. g_cache[m] /= <<>> /\ g_cache[m][1] = CutPrompt[Last(sets)[1]]
    BY <2>3 DEF Last, Kept, Slot
  <2>5. m \in Found(CutPrompt[Last(sets)[1]])
    BY <1>1, <1>4, <2>4
  <2> QED
    BY <2>5 DEF memory_response_cache_get
<1> QED
  BY <1>3, <1>4 DEF CachedForPrompt
-----------------------------------------------------------------------------
(* The chunker. *)

Chunk == [start : Nat, end : Nat]
Full(s, i) == s[i].end - s[i].start = ChunkSize

\* A chunk begins where the one before ends; as long as they are full each begins
\* at a multiple of ChunkSize, and one that is not, and does not end the text, ends
\* at a space.
InText(s, text, i) ==
    /\ s[i].start = IF i = 1 THEN 0 ELSE s[i - 1].end
    /\ s[i].end - s[i].start \in 1..ChunkSize
    /\ s[i].end <= Len(text)
    /\ Full(s, i) \/ s[i].end = Len(text) \/ text[s[i].end]
    /\ (\A j \in 1..i - 1 : Full(s, j)) => s[i].start = ChunkSize * (i - 1)

ChunkInv ==
    /\ spaces \in Seq(BOOLEAN) /\ chunks \in Seq(Chunk)
    /\ \A i \in 1..Len(chunks) : InText(chunks, spaces, i)

LEMMA ChunkTypes ==
    ASSUME ChunkInv
    PROVE  /\ ChunkSize \in Nat \ {0} /\ Len(spaces) \in Nat /\ Len(chunks) \in Nat
           /\ DOMAIN chunks = 1..Len(chunks)
           /\ \A i \in 1..Len(chunks) : chunks[i].start \in Nat /\ chunks[i].end \in Nat
<1>1. /\ ChunkSize \in Nat \ {0} /\ Len(spaces) \in Nat /\ Len(chunks) \in Nat
      /\ DOMAIN chunks = 1..Len(chunks)
  BY MemoryAssumption DEF ChunkInv
<1>2. \A i \in 1..Len(chunks) : chunks[i] \in Chunk
  BY DEF ChunkInv
<1> QED
  BY <1>1, <1>2 DEF Chunk

LEMMA ChunkInit == MemoryInit => ChunkInv
  BY DEF MemoryInit, ChunkInv

\* What the next chunk takes from the text: at most ChunkSize characters, at least
\* one; fewer only at the end of the text or up to a space.
LEMMA BreakPos ==
    ASSUME ChunkInv, Offset \in Nat, Offset < Len(spaces)
    PROVE  /\ break_pos \in 1..ChunkSize /\ Offset + break_pos <= Len(spaces)
           /\ \/ break_pos = ChunkSize \/ Offset + break_pos = Len(spaces)
              \/ spaces[Offset + break_pos]
<1>1. ChunkSize \in Nat \ {0} /\ BreakWindow \in Nat /\ Len(spaces) \in Nat
  BY MemoryAssumption DEF ChunkInv
<1>2. PICK c \in 1..ChunkSize : /\ c = copy_len /\ Offset + c <= Len(spaces)
                                /\ c = ChunkSize \/ Offset + c = Len(spaces)
  BY <1>1 DEF copy_len
<1> DEFINE back == {i \in 0..BreakWindow - 1 : i < c /\ spaces[Offset + c - i]}
<1>3. break_pos = IF back = {} THEN c ELSE c - Min(back)
  BY <1>2 DEF break_pos
<1>4. CASE back = {}
  BY <1>2, <1>3, <1>4
<1>5. CASE back /= {}
  <2>1. back \subseteq Nat
    OBVIOUS
  <2>2. PICK m \in back : m = Min(back)
    BY <1>5, <2>1, MinOfNats
  <2>3. break_pos = c - m
    BY <1>3, <1>5, <2>2
  <2>4. m \in Nat /\ m < c /\ spaces[Offset + c - m]
    BY <2>1, <2>2
  <2>5. Offset + c - m = Offset + break_pos
    BY <1>1, <1>2, <2>3, <2>4
  <2>6. break_pos \in 1..ChunkSize /\ Offset + break_pos <= Len(spaces)
    BY <1>1, <1>2, <2>3, <2>4
  <2> QED
    BY <2>4, <2>5, <2>6
<1> QED
  BY <1>4, <1>5

LEMMA ChunkAdds == ASSUME ChunkInv, memory_chunk_text PROVE ChunkInv'
<1>1. PICK L \in Nat : L = Len(chunks)
  BY ChunkTypes
<1>2. Offset = IF L = 0 THEN 0 ELSE chunks[L].end
  BY <1>1 DEF Offset, Last, ChunkInv
<1>3. Offset \in Nat /\ Offset < Len(spaces)
  BY <1>1, <1>2, ChunkTypes DEF memory_chunk_text
<1>4. PICK e \in Nat : /\ e = Offset + break_pos /\ e - Offset \in 1..ChunkSize
                       /\ e <= Len(spaces)
                       /\ e - Offset = ChunkSize \/ e = Len(spaces) \/ spaces[e]
  BY <1>3, ChunkTypes, BreakPos
<1>5. PICK x \in Chunk : x = [start |-> Offset, end |-> e] /\ x.start = Offset /\ x.end = e
  <2>1. [start |-> Offset, end |-> e] \in Chunk
    BY <1>3 DEF Chunk
  <2> QED
    BY <2>1
<1>6. PICK s : s = chunks' /\ s = Append(chunks, x) /\ spaces' = spaces
  BY <1>4, <1>5 DEF memory_chunk_text
<1>7. /\ s \in Seq(Chunk) /\ Len(s) = L + 1 /\ s[L + 1] = x
      /\ \A i \in 1..L : s[i] = chunks[i]
  BY <1>1, <1>5, <1>6 DEF ChunkInv
<1>8. \A i \in 1..L : Full(s, i) <=> Full(chunks, i)
  BY <1>7 DEF Full
<1>9. ASSUME NEW i \in 1..L PROVE InText(s, spaces, i)
  <2>1. \A j \in 1..i - 1 : j \in 1..L
    BY <1>1
  <2>2. i /= 1 => i - 1 \in 1..L
    BY <1>1
  <2>3. InText(chunks, spaces, i)
    BY <1>1 DEF ChunkInv
  <2> QED
    BY <1>7, <1>8, <2>1, <2>2, <2>3 DEF InText
<1>10. s[L + 1].start = IF L + 1 = 1 THEN 0 ELSE s[(L + 1) - 1].end
  <2>1. CASE L = 0
    BY <1>2, <1>5, <1>7, <2>1
  <2>2. CASE L /= 0
    <3>1. (L + 1) - 1 = L /\ L \in 1..L /\ L + 1 /= 1
      BY <2>2
    <3>2. s[L + 1].start = chunks[L].end /\ s[(L + 1) - 1].end = chunks[L].end
      BY <1>2, <1>5, <1>7, <2>2, <3>1
    <3> QED
      BY <3>1, <3>2
  <2> QED
    BY <2>1, <2>2
<1>11. ASSUME \A j \in 1..(L + 1) - 1 : Full(s, j)
       PROVE  s[L + 1].start = ChunkSize * ((L + 1) - 1)
  <2>0. ChunkSize \in Nat
    BY ChunkTypes
  <2>1. CASE L = 0
    <3>1. ChunkSize * ((L + 1) - 1) = 0
      BY <2>0, <2>1
    <3> QED
      BY <1>2, <1>5, <1>7, <2>1, <3>1
  <2>2. CASE L /= 0
    <3>1. L \in 1..L /\ \A j \in 1..L - 1 : j \in 1..L /\ j \in 1..(L + 1) - 1
      BY <2>2
    <3>2. Full(chunks, L) /\ \A j \in 1..L - 1 : Full(chunks, j)
      BY <1>8, <1>11, <3>1
    <3>3. chunks[L].start = ChunkSize * (L - 1)
      BY <1>1, <3>1, <3>2 DEF ChunkInv, InText
    <3>4. chunks[L].end = chunks[L].start + ChunkSize
      BY <1>1, <2>0, <3>1, <3>2, ChunkTypes DEF Full
    <3>5. ChunkSize * (L - 1) + ChunkSize = ChunkSize * ((L + 1) - 1)
      BY <2>0
    <3> QED
      BY <1>2, <1>5, <1>7, <2>2, <3>3, <3>4, <3>5
  <2> QED
    BY <2>1, <2>2
<1>12. /\ s[L + 1].end - s[L + 1].start \in 1..ChunkSize /\ s[L + 1].end <= Len(spaces)
       /\ Full(s, L + 1) \/ s[L + 1].end = Len(spaces) \/ spaces[s[L + 1].end]
  BY <1>4, <1>5, <1>7 DEF Full
<1>13. InText(s, spaces, L + 1)
  BY <1>10, <1>11, <1>12 DEF InText
<1>14. \A i \in 1..L + 1 : i \in 1..L \/ i = L + 1
  OBVIOUS
<1> QED
  BY <1>6, <1>7, <1>9, <1>13, <1>14 DEF ChunkInv

LEMMA ChunkStep == ChunkInv /\ [MemoryNext]_memoryVars => ChunkInv'
<1> SUFFICES ASSUME ChunkInv, [MemoryNext]_memoryVars PROVE ChunkInv'
  OBVIOUS
<1>1. CASE UNCHANGED chunkVars
  BY <1>1 DEF ChunkInv
<1>2. CASE memory_chunk_text
  BY <1>2, ChunkAdds
<1>3. CASE NewText
  <2>1. PICK n \in 1..TextLength : spaces' \in [1..n -> BOOLEAN]
    BY <1>3 DEF NewText
  <2>2. spaces' \in Seq(BOOLEAN)
    BY <2>1, MemoryAssumption, SeqDef
  <2>3. Len(chunks) = 0
    <3>1. spaces = <<>> /\ Len(spaces) = 0 /\ Len(chunks) \in Nat
      BY <1>3 DEF NewText, ChunkInv
    <3>2. Len(chunks) >= 1 => /\ 1 \in 1..Len(chunks) /\ chunks[1].start = 0
                              /\ chunks[1].end \in Nat /\ chunks[1].end >= 1
                              /\ chunks[1].end <= 0
      BY <3>1, ChunkTypes DEF ChunkInv, InText
    <3> QED
      BY <3>1, <3>2
  <2>4. chunks' = chunks
    BY <1>3 DEF NewText
  <2> QED
    BY <2>2, <2>3, <2>4 DEF ChunkInv
<1>4. MemoryStoreNext \/ MemoryMuninnNext \/ MemoryCacheNext \/ UNCHANGED memoryVars
      => UNCHANGED chunkVars
  BY DEF MemoryMuninnNext, memory_muninn_store, memory_muninn_recall, MemoryStoreNext, MemoryCacheNext, memory_response_cache_set, memory_create,
         memory_clear, memory_free, MemoryClock, memory_store, memory_delete,
         memory_hygiene_run, memory_export_json, memory_import_json
<1> QED
  BY <1>1, <1>2, <1>3, <1>4 DEF MemoryNext, MemoryChunkNext

LEMMA ChunksAreRight == ChunkInv => ChunksFollow
<1> SUFFICES ASSUME ChunkInv PROVE ChunksFollow
  OBVIOUS
<1>1. /\ ChunkSize \in Nat \ {0} /\ Len(spaces) \in Nat /\ Len(chunks) \in Nat
      /\ \A i \in 1..Len(chunks) : chunks[i].start \in Nat /\ chunks[i].end \in Nat
      /\ DOMAIN chunks = 1..Len(chunks)
  BY ChunkTypes
<1>2. \A i \in DOMAIN chunks :
          /\ chunks[i].start = IF i = 1 THEN 0 ELSE chunks[i - 1].end
          /\ chunks[i].end - chunks[i].start \in 1..ChunkSize
          /\ chunks[i].end <= Len(spaces)
  BY <1>1 DEF ChunkInv, InText
<1>3. ASSUME Len(chunks) = num_chunks,
             \A i \in 1..Len(chunks) - 1 : chunks[i].end - chunks[i].start = ChunkSize,
             spaces /= <<>>, Offset < Len(spaces)
      PROVE  Last(chunks).end - Last(chunks).start < ChunkSize /\ spaces[Offset]
  <2>1. Len(spaces) >= 1
    BY <1>1, <1>3 DEF ChunkInv
  <2>2. Len(spaces) + ChunkSize - 1 \in Nat
    BY <1>1, <2>1
  <2>3. PICK d \in Nat : /\ d = Len(chunks)
                         /\ Len(spaces) + ChunkSize - 1 < ChunkSize * (d + 1)
    BY <1>1, <1>3, <2>2, DivBounds DEF num_chunks
  <2>4. ChunkSize * (d + 1) = ChunkSize * d + ChunkSize /\ ChunkSize * d \in Nat
    BY <1>1
  <2>5. Len(spaces) <= ChunkSize * d
    BY <1>1, <2>2, <2>3, <2>4
  <2>6. d >= 1
    <3>1. d = 0 => ChunkSize * d = 0
      BY <1>1
    <3> QED
      BY <2>1, <2>3, <2>5, <3>1, <1>1
  <2>7. d \in 1..Len(chunks) /\ Offset = chunks[d].end /\ Last(chunks) = chunks[d]
    BY <1>1, <2>3, <2>6 DEF Offset, Last, ChunkInv
  <2>8. chunks[d].start = ChunkSize * (d - 1)
    BY <1>3, <2>3, <2>7 DEF ChunkInv, InText, Full
  <2>9. ChunkSize * (d - 1) + ChunkSize = ChunkSize * d
    BY <1>1, <2>6
  <2>10. ~Full(chunks, d)
    <3>1. Full(chunks, d) => chunks[d].end = chunks[d].start + ChunkSize
      BY <1>1, <2>7 DEF Full
    <3> QED
      BY <1>1, <1>3, <2>4, <2>5, <2>7, <2>8, <2>9, <3>1
  <2>11. /\ chunks[d].end - chunks[d].start \in 1..ChunkSize
         /\ chunks[d].end = Len(spaces) \/ spaces[chunks[d].end]
    BY <2>7, <2>10 DEF ChunkInv, InText
  <2>12. chunks[d].end - chunks[d].start < ChunkSize
    BY <1>1, <2>7, <2>10, <2>11 DEF Full
  <2> QED
    BY <1>1, <1>3, <2>7, <2>11, <2>12
<1> QED
  BY <1>2, <1>3 DEF ChunksFollow

-----------------------------------------------------------------------------
(* The memory as a whole. *)

LEMMA RowsHold == MemorySpec => []RowsInv
  BY RowsInit, RowsStep, PTL DEF MemorySpec

\* For every table, cache and text: memory_recall finds what was stored last, or on
\* muninn again what it found before; memory_response_cache_get finds the beginning
\* of an answer given not long ago for the prompt or one cut to it; and the chunks
\* of memory_chunk_text are the text in order.
THEOREM MemoryIsFaithful == MemorySpec => []MemoryFaithful
<1>1. RowsInv /\ RecalledInv /\ CacheInv /\ ChunkInv => MemoryFaithful
  BY RecalledIsBest, CacheAnswers, ChunksAreRight DEF MemoryFaithful, RowsInv
<1> QED
  BY <1>1, RowsInit, RowsStep, RecalledInit, RecalledStep, CacheInit, CacheStep, ChunkInit, ChunkStep, PTL DEF MemorySpec

\* A sweep for an age within the time that has passed.
LEMMA SweepStep ==
    ASSUME RowsInv
    PROVE  \A days \in 1..clock :
              memory_hygiene_run(days) => \A x \in rows \ rows' : clock - x.timestamp > days
<1> SUFFICES ASSUME NEW days \in 1..clock, memory_hygiene_run(days),
                    NEW x \in rows \ rows'
             PROVE  clock - x.timestamp > days
  OBVIOUS
<1>1. /\ clock \in Nat /\ clock <= MaxMemTime /\ MaxMemTime \in Nat
      /\ Wrap \in Nat /\ Wrap > MaxMemTime
  BY MemoryAssumption DEF RowsInv
<1>2. x \in Row
  BY DEF RowsInv
<1>3. x.timestamp \in 0..MaxMemTime
  BY <1>2 DEF Row
<1>4. PICK r \in 0..Wrap - 1 : r = clock - days
  BY <1>1
<1>5. (Wrap * 0 + r) % Wrap = r
  BY <1>1, <1>4, ModIs
<1>6. Wrap * 0 + r = r
  BY <1>1
<1>7. cutoff(days) = clock - days
  BY <1>4, <1>5, <1>6 DEF cutoff
<1>8. x.timestamp < cutoff(days)
  BY DEF memory_hygiene_run
<1> QED
  BY <1>1, <1>3, <1>7, <1>8

\* memory_hygiene_run with an age that lies behind the beginning of time removes no
\* row that is younger.
THEOREM SweepIsExact == MemorySpec => SweepSparesFresh
<1>1. RowsInv => [\A days \in 1..clock :
                     memory_hygiene_run(days) =>
                        \A x \in rows \ rows' : clock - x.timestamp > days]_memoryVars
  BY SweepStep
<1> QED
  BY <1>1, RowsHold, PTL DEF SweepSparesFresh

\* A listing that is shorter than the limit has every row.
LEMMA ShortIsAll ==
    ASSUME IsFiniteSet(rows), NEW s \in Listings
    PROVE  /\ Len(s) = ListLimit \/ ToSet(s) = rows
           /\ \A x \in rows \ ToSet(s) : \A y \in ToSet(s) : y.timestamp >= x.timestamp
<1>1. PICK c \in Nat : c = Cardinality(rows)
  BY FS_CardinalityType
<1>2. ListLimit \in Nat \ {0}
  BY MemoryAssumption
<1>3. PICK n \in Nat : n = IF Cardinality(rows) < ListLimit THEN Cardinality(rows) ELSE ListLimit
  BY <1>1, <1>2
<1>4. /\ s \in [1..n -> rows] /\ IsInjective(s)
      /\ \A x \in rows \ ToSet(s) : \A i \in DOMAIN s : s[i].timestamp >= x.timestamp
  BY <1>3 DEF Listings
<1>5. Len(s) = n
  BY <1>4
<1>6. CASE n = c
  <2>1. s \in Injection(1..n, rows)
    BY <1>4 DEF IsInjective, Injection
  <2>2. IsFiniteSet(1..n) /\ Cardinality(1..n) = n
    BY FS_Interval
  <2>3. s \in Surjection(1..n, rows)
    BY <1>1, <1>6, <2>1, <2>2, FS_Injection
  <2> QED
    BY <1>4, <2>3 DEF Surjection, ToSet
<1>7. CASE n /= c
  <2>1. n = ListLimit
    BY <1>1, <1>3, <1>7
  <2> QED
    BY <1>4, <1>5, <2>1 DEF ToSet
<1> QED
  BY <1>6, <1>7

\* What is left out of the new export is older than all that is in it.
ExportsNewest == \A x \in rows : \/ x \in ToSet(exported')
                                 \/ /\ Len(exported') = ListLimit
                                    /\ \A y \in ToSet(exported') : y.timestamp >= x.timestamp

LEMMA ExportStep == ASSUME RowsInv, MemoryNext, exported' /= exported PROVE ExportsNewest
<1>1. exported' \in Listings
  BY DEF MemoryMuninnNext, memory_muninn_store, memory_muninn_recall, MemoryNext, MemoryStoreNext, MemoryCacheNext, MemoryChunkNext, NewText,
         memory_chunk_text, memory_response_cache_set, memory_create, memory_clear,
         memory_free, MemoryClock, memory_store, memory_delete, memory_hygiene_run,
         memory_export_json, memory_import_json
<1>2. IsFiniteSet(rows)
  BY DEF RowsInv
<1> QED
  BY <1>1, <1>2, ShortIsAll DEF ExportsNewest

\* What memory_export_json leaves out of a full list is older than what is in it.
THEOREM ExportIsRight == MemorySpec => ExportIsNewest
<1>1. RowsInv /\ [MemoryNext]_memoryVars => [exported' /= exported => ExportsNewest]_memoryVars
  BY ExportStep
<1>2. MemorySpec => [][exported' /= exported => ExportsNewest]_memoryVars
  BY <1>1, RowsHold, PTL DEF MemorySpec
<1> QED
  BY <1>2 DEF ExportIsNewest, ExportsNewest

\* The parts of MemoryTypeOK that the table and the ring do not need.
MemoryTypeInv ==
    /\ backend \in Backends /\ db_handle \in BOOLEAN
    /\ wrote \in [Keys -> SUBSET Values] /\ Len(exported) <= ListLimit

LEMMA MemoryTypeInit == MemoryInit => MemoryTypeInv
<1> SUFFICES ASSUME MemoryInit PROVE MemoryTypeInv
  OBVIOUS
<1>1. backend = "none" /\ db_handle = FALSE /\ wrote = [k \in Keys |-> {}] /\ exported = <<>>
  BY DEF MemoryInit
<1>2. 0 <= ListLimit
  BY MemoryAssumption
<1> QED
  BY <1>1, <1>2 DEF MemoryTypeInv, Backends

\* No listing is longer than the limit.
LEMMA ListingLength == ASSUME RowsInv, NEW s \in Listings PROVE Len(s) <= ListLimit
<1>1. PICK c \in Nat : c = Cardinality(rows)
  BY FS_CardinalityType DEF RowsInv
<1>2. PICK n \in Nat : /\ n = IF Cardinality(rows) < ListLimit THEN Cardinality(rows) ELSE ListLimit
                       /\ n <= ListLimit
  BY <1>1, MemoryAssumption
<1>3. s \in [1..n -> rows]
  BY <1>2 DEF Listings
<1> QED
  BY <1>2, <1>3

LEMMA MemoryTypeStep == RowsInv /\ MemoryTypeInv /\ [MemoryNext]_memoryVars => MemoryTypeInv'
<1> SUFFICES ASSUME RowsInv, MemoryTypeInv, [MemoryNext]_memoryVars PROVE MemoryTypeInv'
  OBVIOUS
<1>0. /\ backend \in Backends /\ db_handle \in BOOLEAN
      /\ wrote \in [Keys -> SUBSET Values] /\ Len(exported) <= ListLimit
  BY DEF MemoryTypeInv
<1>1. CASE memory_create \/ memory_free
  <2>1. backend' \in Backends /\ db_handle' \in BOOLEAN
    BY <1>0, <1>1 DEF memory_create, memory_free, Backends
  <2> QED
    BY <1>0, <1>1, <2>1 DEF memory_create, memory_free, MemoryTypeInv
<1>2. ASSUME NEW k \in Keys, NEW v \in Values, memory_store(k, v) PROVE MemoryTypeInv'
  BY <1>0, <1>2 DEF memory_store, MemoryTypeInv
<1>3. ASSUME NEW k \in Keys, memory_delete(k) PROVE MemoryTypeInv'
  BY <1>0, <1>3 DEF memory_delete, MemoryTypeInv
<1>4. CASE memory_clear
  BY <1>0, <1>4 DEF memory_clear, MemoryTypeInv
<1>5. ASSUME NEW days \in 1..MaxMemTime + 1, memory_hygiene_run(days) PROVE MemoryTypeInv'
  BY <1>0, <1>5 DEF memory_hygiene_run, MemoryTypeInv
<1>6. CASE memory_export_json
  <2>1. Len(exported') <= ListLimit
    BY <1>6, ListingLength DEF memory_export_json
  <2> QED
    BY <1>0, <1>6, <2>1 DEF memory_export_json, MemoryTypeInv
<1>7. CASE memory_import_json
  BY <1>0, <1>7, MemoryAssumption DEF memory_import_json, MemoryTypeInv
<1>8. CASE \/ MemoryClock \/ MemoryCacheNext \/ MemoryChunkNext \/ UNCHANGED memoryVars
           \/ (\E k \in Keys, v \in Values : memory_muninn_store(k, v))
           \/ (\E k \in Keys : memory_muninn_recall(k))
  <2>1. UNCHANGED <<backend, db_handle, wrote, exported>>
    BY <1>8 DEF memory_muninn_store, memory_muninn_recall, MemoryClock, MemoryCacheNext, MemoryChunkNext, memory_response_cache_set, NewText,
                memory_chunk_text
  <2> QED
    BY <1>0, <2>1 DEF MemoryTypeInv
<1> QED
  BY <1>1, <1>2, <1>3, <1>4, <1>5, <1>6, <1>7, <1>8
     DEF MemoryNext, MemoryStoreNext, MemoryMuninnNext

LEMMA MemoryTypesHold ==
    RowsInv /\ RecalledInv /\ CacheInv /\ MemoryTypeInv => MemoryTypeOK
  BY DEF RowsInv, RecalledInv, CacheInv, MemoryTypeInv, MemoryTypeOK, Pairs
-----------------------------------------------------------------------------
(* The migration. *)

Item == (Keys \X Values) \cup {NoPair}

\* The last value of each key among the first n items is in the memory.
Holds(n) == \A i \in 1..n : (\A j \in 1..n : j > i => json[j][1] /= json[i][1])
                            => wrote[json[i][1]] = {json[i][2]}

\* What a run that reads a file has done so far.
ImportInv ==
    mstate \in {"migrating", "completed"} /\ json /= <<>> =>
        /\ items_scanned \in 0..Len(json) /\ items_migrated \in Nat /\ items_failed \in Nat
        /\ items_scanned = items_migrated + items_failed
        /\ \A j \in 1..items_scanned : json[j] /= NoPair
        /\ items_failed = 0 => Holds(items_scanned)
        /\ mstate = "completed" => items_scanned = Len(json) \/ json[items_scanned + 1] = NoPair

\* The copies among the names that readdir has returned.
CopiedNames == {n \in Names \ pending : dest[n] \in {"copy", "short"}}

\* What a run that reads a directory has done so far.
DirectoryInv ==
    /\ regular \subseteq Names /\ pending \subseteq Names /\ DOMAIN dest = Names
    /\ \A n \in Names : dest[n] /= "old" => n \in regular
    /\ mstate = "unset" => \A n \in Names : dest[n] = "old"
    /\ pending /= {} => mstate = "migrating" /\ json = <<>>
    /\ mstate \in {"migrating", "completed"} /\ json = <<>> =>
          items_migrated \in Nat /\ items_migrated <= Cardinality(CopiedNames)

MigrationInv == RowsInv /\ json \in Seq(Item) /\ ImportInv /\ DirectoryInv

LEMMA MigrationInvInit == MigrationInit => MigrationInv
<1> SUFFICES ASSUME MigrationInit PROVE MigrationInv
  OBVIOUS
<1>1. RowsInv
  BY RowsInit DEF MigrationInit
<1>2. /\ json = <<>> /\ mstate = "unset" /\ regular = {} /\ pending = {}
      /\ dest = [n \in Names |-> "old"] /\ json \in Seq(Item)
  BY DEF MigrationInit
<1>3. QED
  BY <1>1, <1>2 DEF MigrationInv, ImportInv, DirectoryInv

\* The table stays as it is.
LEMMA RowsStay == ASSUME RowsInv, UNCHANGED <<rows, clock, wrote>> PROVE RowsInv'
  BY DEF RowsInv, OneRowPerKey, RecallsLast, memory_recall

LEMMA ImportItemKeeps == ASSUME MigrationInv, ImportItem PROVE MigrationInv'
<1>0. /\ mstate = "migrating" /\ json /= <<>> /\ json \in Seq(Item) /\ Len(json) \in Nat
      /\ items_scanned \in 0..Len(json) /\ items_migrated \in Nat /\ items_failed \in Nat
      /\ items_scanned = items_migrated + items_failed
      /\ items_scanned < Len(json) /\ json[items_scanned + 1] /= NoPair
      /\ UNCHANGED <<json, regular, dest, mstate, pending>>
      /\ items_scanned' = items_scanned + 1
  BY DEF MigrationInv, ImportInv, ImportItem, parse_one_kv
<1>1. PICK s \in Nat : s = items_scanned
  BY <1>0
<1>2. s + 1 \in 1..Len(json) /\ items_scanned' = s + 1 /\ items_scanned' \in 0..Len(json)
  BY <1>0, <1>1
<1>3. PICK item \in Keys \X Values : item = json[s + 1]
  BY <1>0, <1>1, <1>2 DEF Item
<1>4. item[1] \in Keys /\ item[2] \in Values
  OBVIOUS
<1>5. \A j \in 1..s + 1 : j \in 1..s \/ j = s + 1
  BY <1>1
<1>6. \A j \in 1..items_scanned' : json'[j] /= NoPair
  BY <1>0, <1>1, <1>2, <1>5 DEF MigrationInv, ImportInv
<1>7. DirectoryInv'
  BY <1>0 DEF MigrationInv, DirectoryInv
<1>8. CASE memory_store(item[1], item[2]) /\ items_migrated' = items_migrated + 1
           /\ items_failed' = items_failed
  <2>1. /\ rows' = Stored(rows, item[1], item[2], clock) /\ clock' = clock
        /\ wrote' = [wrote EXCEPT ![item[1]] = {item[2]}]
    BY <1>8 DEF memory_store
  <2>2. RowsInv'
    BY <1>4, <2>1, StoredRows DEF MigrationInv
  <2>3. DOMAIN wrote = Keys
    BY DEF MigrationInv, RowsInv
  <2>4. wrote'[item[1]] = {item[2]} /\ \A k \in Keys : k /= item[1] => wrote'[k] = wrote[k]
    BY <1>4, <2>1, <2>3
  <2>5. ASSUME items_failed = 0 PROVE Holds(items_scanned)'
    <3>1. ASSUME NEW i \in 1..s + 1, \A j \in 1..s + 1 : j > i => json[j][1] /= json[i][1]
          PROVE  wrote'[json[i][1]] = {json[i][2]}
      <4>1. CASE i = s + 1
        BY <1>3, <2>4, <4>1
      <4>2. CASE i \in 1..s
        <5>1. s + 1 > i /\ s + 1 \in 1..s + 1 /\ \A j \in 1..s : j \in 1..s + 1
          BY <4>2
        <5>2. json[i][1] /= item[1]
          BY <1>3, <3>1, <5>1
        <5>3. json[i] \in Keys \X Values
          <6>1. json[i] /= NoPair /\ i \in 1..Len(json)
            BY <1>0, <1>1, <4>2 DEF MigrationInv, ImportInv
          <6>2. QED
            BY <1>0, <6>1 DEF Item
        <5>4. wrote[json[i][1]] = {json[i][2]}
          <6>1. Holds(s)
            BY <1>0, <1>1, <2>5 DEF MigrationInv, ImportInv
          <6>2. QED
            BY <3>1, <4>2, <5>1, <6>1 DEF Holds
        <5>5. json[i][1] \in Keys
          BY <5>3
        <5>6. QED
          BY <2>4, <5>2, <5>4, <5>5
      <4>3. QED
        BY <1>5, <4>1, <4>2
    <3>2. QED
      BY <1>0, <1>2, <3>1 DEF Holds
  <2>6. ImportInv'
    BY <1>0, <1>2, <1>6, <1>8, <2>5 DEF ImportInv
  <2>7. QED
    BY <1>0, <1>7, <2>2, <2>6 DEF MigrationInv
<1>9. CASE items_failed' = items_failed + 1 /\ UNCHANGED <<memoryVars, items_migrated>>
  <2>1. RowsInv'
    BY <1>9, RowsStay DEF MigrationInv
  <2>2. items_failed' /= 0 /\ items_failed' \in Nat
    BY <1>0, <1>9
  <2>3. ImportInv'
    BY <1>0, <1>2, <1>6, <1>9, <2>2 DEF ImportInv
  <2>4. QED
    BY <1>0, <1>7, <2>1, <2>3 DEF MigrationInv
<1>10. QED
  BY <1>1, <1>3, <1>8, <1>9 DEF ImportItem

LEMMA CopiedFinite ==
    ASSUME NEW S, S \subseteq Names
    PROVE  IsFiniteSet(S) /\ Cardinality(S) \in Nat
  BY MigrationAssumption, FS_Subset, FS_CardinalityType

LEMMA CopyFileKeeps == ASSUME MigrationInv, NEW n \in Names, CopyFile(n) PROVE MigrationInv'
<1>0. /\ mstate = "migrating" /\ n \in pending /\ pending' = pending \ {n} /\ json = <<>>
      /\ DOMAIN dest = Names /\ items_migrated \in Nat
      /\ UNCHANGED <<memoryVars, json, regular, mstate>>
  BY DEF CopyFile, MigrationInv, DirectoryInv
<1>1. RowsInv' /\ json' \in Seq(Item) /\ ImportInv'
  BY <1>0, RowsStay DEF MigrationInv, ImportInv
<1>2. PICK C : C = CopiedNames
  OBVIOUS
<1>3. C \subseteq Names /\ n \notin C /\ items_migrated <= Cardinality(C)
  BY <1>0, <1>2 DEF CopiedNames, MigrationInv, DirectoryInv
<1>4. IsFiniteSet(C) /\ Cardinality(C) \in Nat
  BY <1>3, CopiedFinite
<1>5. IsFiniteSet(CopiedNames') /\ Cardinality(CopiedNames') \in Nat
  <2>1. CopiedNames' \subseteq Names
    BY DEF CopiedNames
  <2>2. QED
    BY <2>1, CopiedFinite
<1>6. ASSUME n \in regular, NEW d \in {"copy", "short"}, dest' = [dest EXCEPT ![n] = d],
             items_migrated' = items_migrated + 1
      PROVE  MigrationInv'
  <2>1. CopiedNames' = C \cup {n}
    BY <1>0, <1>2, <1>6 DEF CopiedNames
  <2>2. Cardinality(CopiedNames') = Cardinality(C) + 1
    BY <1>3, <1>4, <2>1, FS_AddElement
  <2>3. items_migrated' \in Nat /\ items_migrated' <= Cardinality(CopiedNames')
    BY <1>0, <1>3, <1>4, <1>6, <2>2
  <2>4. DOMAIN dest' = Names /\ \A m \in Names : dest'[m] /= "old" => m \in regular'
    BY <1>0, <1>6 DEF MigrationInv, DirectoryInv
  <2>5. DirectoryInv'
    BY <1>0, <2>3, <2>4 DEF MigrationInv, DirectoryInv
  <2>6. QED
    BY <1>1, <2>5 DEF MigrationInv
<1>7. CASE /\ (n \in regular /\ dest' = [dest EXCEPT ![n] = "torn"]) \/ dest' = dest
           /\ items_migrated' = items_migrated
  <2>1. C \subseteq CopiedNames'
    BY <1>0, <1>2, <1>7 DEF CopiedNames
  <2>2. Cardinality(C) <= Cardinality(CopiedNames')
    BY <1>5, <2>1, FS_Subset
  <2>3. items_migrated' \in Nat /\ items_migrated' <= Cardinality(CopiedNames')
    BY <1>0, <1>3, <1>4, <1>5, <1>7, <2>2
  <2>4. DOMAIN dest' = Names /\ \A m \in Names : dest'[m] /= "old" => m \in regular'
    BY <1>0, <1>7 DEF MigrationInv, DirectoryInv
  <2>5. DirectoryInv'
    BY <1>0, <2>3, <2>4 DEF MigrationInv, DirectoryInv
  <2>6. QED
    BY <1>1, <2>5 DEF MigrationInv
<1>8. QED
  BY <1>6, <1>7 DEF CopyFile

LEMMA MigrationInvStep == MigrationInv /\ [MigrationNext]_migrationVars => MigrationInv'
<1> SUFFICES ASSUME MigrationInv, [MigrationNext]_migrationVars PROVE MigrationInv'
  OBVIOUS
<1>0. /\ RowsInv /\ json \in Seq(Item) /\ regular \subseteq Names /\ pending \subseteq Names
      /\ DOMAIN dest = Names
      /\ \A n \in Names : dest[n] /= "old" => n \in regular
      /\ pending /= {} => mstate = "migrating" /\ json = <<>>
  BY DEF MigrationInv, DirectoryInv
<1>1. CASE Prepare
  <2>1. RowsInv' /\ mstate' = "pending" /\ mstate = "unset" /\ dest' = dest /\ pending' = pending
    BY <1>0, <1>1, RowsStay DEF Prepare
  <2>2. json' \in Seq(Item)
    BY <1>0, <1>1, MigrationAssumption DEF Prepare, Item
  <2>3. regular' \subseteq Names /\ pending = {}
    BY <1>0, <1>1, <2>1 DEF Prepare
  <2>4. \A n \in Names : dest[n] = "old"
    BY <2>1 DEF MigrationInv, DirectoryInv
  <2>5. QED
    BY <1>0, <2>1, <2>2, <2>3, <2>4 DEF MigrationInv, ImportInv, DirectoryInv
<1>2. CASE ExecuteJson
  <2>1. /\ RowsInv' /\ mstate' = "migrating" /\ mstate = "pending" /\ json' = json /\ json /= <<>>
        /\ UNCHANGED <<regular, dest, pending>>
        /\ items_scanned' = 0 /\ items_migrated' = 0 /\ items_failed' = 0
    BY <1>0, <1>2, RowsStay DEF ExecuteJson
  <2>2. Holds(items_scanned)'
    BY <2>1 DEF Holds
  <2>3. 0 \in 0..Len(json) /\ \A j \in 1..0 : json[j] /= NoPair
    BY <1>0
  <2>4. ImportInv'
    BY <2>1, <2>2, <2>3 DEF ImportInv
  <2>5. DirectoryInv'
    BY <1>0, <2>1 DEF DirectoryInv
  <2>6. QED
    BY <1>0, <2>1, <2>4, <2>5 DEF MigrationInv
<1>3. CASE ExecuteFails
  <2>1. RowsInv' /\ mstate' = "failed" /\ mstate = "pending" /\ UNCHANGED <<json, regular, dest, pending>>
    BY <1>0, <1>3, RowsStay DEF ExecuteFails
  <2>2. QED
    BY <1>0, <2>1 DEF MigrationInv, ImportInv, DirectoryInv
<1>4. CASE ImportEnds
  <2>1. /\ RowsInv' /\ mstate' = "completed" /\ mstate = "migrating" /\ json /= <<>> /\ ~parse_one_kv
        /\ UNCHANGED <<wrote, json, regular, dest, pending, items_scanned, items_migrated, items_failed>>
    BY <1>0, <1>4, RowsStay DEF ImportEnds, counters
  <2>2. items_scanned \in 0..Len(json) /\ Len(json) \in Nat
    BY <1>0, <2>1 DEF MigrationInv, ImportInv
  <2>3. items_scanned = Len(json) \/ json[items_scanned + 1] = NoPair
    BY <2>1, <2>2 DEF parse_one_kv
  <2>4. Holds(items_scanned)' <=> Holds(items_scanned)
    BY <2>1 DEF Holds
  <2>5. ImportInv'
    BY <2>1, <2>3, <2>4 DEF MigrationInv, ImportInv
  <2>6. DirectoryInv'
    BY <1>0, <2>1 DEF DirectoryInv
  <2>7. QED
    BY <1>0, <2>1, <2>5, <2>6 DEF MigrationInv
<1>5. CASE ExecuteDirectory
  <2>1. /\ RowsInv' /\ mstate' = "migrating" /\ mstate = "pending" /\ json = <<>>
        /\ items_migrated' = 0 /\ pending' = Names
        /\ UNCHANGED <<json, regular, dest>>
    BY <1>0, <1>5, RowsStay DEF ExecuteDirectory
  <2>2. CopiedNames' = {}
    BY <2>1 DEF CopiedNames
  <2>3. Cardinality(CopiedNames') = 0
    BY <2>2, FS_EmptySet
  <2>4. DirectoryInv'
    BY <1>0, <2>1, <2>3 DEF DirectoryInv
  <2>5. QED
    BY <1>0, <2>1, <2>4 DEF MigrationInv, ImportInv
<1>6. CASE CopyEnds
  <2>1. /\ RowsInv' /\ mstate' = "completed" /\ mstate = "migrating" /\ json = <<>> /\ pending = {}
        /\ UNCHANGED <<json, regular, dest, pending, items_migrated>>
    BY <1>0, <1>6, RowsStay DEF CopyEnds, counters
  <2>2. CopiedNames' = CopiedNames
    BY <2>1 DEF CopiedNames
  <2>3. DirectoryInv'
    BY <1>0, <2>1, <2>2 DEF MigrationInv, DirectoryInv
  <2>4. QED
    BY <1>0, <2>1, <2>3 DEF MigrationInv, ImportInv
<1>7. CASE Again
  <2>1. /\ RowsInv' /\ mstate' = "pending" /\ pending' = {} /\ UNCHANGED <<json, regular>>
        /\ dest' \in {dest} \cup {[dest EXCEPT ![n] = "torn"] : n \in pending \cap regular}
    BY <1>0, <1>7, RowsStay DEF Again
  <2>2. DOMAIN dest' = Names /\ \A n \in Names : dest'[n] /= "old" => n \in regular'
    BY <1>0, <2>1
  <2>3. DirectoryInv'
    BY <1>0, <2>1, <2>2 DEF DirectoryInv
  <2>4. QED
    BY <1>0, <2>1, <2>3 DEF MigrationInv, ImportInv
<1>8. CASE UNCHANGED migrationVars
  <2>1. RowsInv' /\ UNCHANGED <<wrote, json, regular, dest, mstate, items_scanned, items_migrated,
                                items_failed, pending>>
    BY <1>0, <1>8, RowsStay DEF migrationVars
  <2>2. (Holds(items_scanned)' <=> Holds(items_scanned)) /\ CopiedNames' = CopiedNames
    BY <2>1 DEF Holds, CopiedNames
  <2>3. QED
    BY <2>1, <2>2 DEF MigrationInv, ImportInv, DirectoryInv
<1>9. QED
  BY <1>1, <1>2, <1>3, <1>4, <1>5, <1>6, <1>7, <1>8, ImportItemKeeps, CopyFileKeeps DEF MigrationNext

LEMMA MigrationInvHolds == MigrationInv => MigrationFaithful
<1> SUFFICES ASSUME MigrationInv PROVE MigrationFaithful
  OBVIOUS
<1>1. ASSUME mstate = "completed", json /= <<>>
      PROVE  /\ items_scanned = items_migrated + items_failed
             /\ items_scanned = Cardinality(Parsed(json))
             /\ items_failed = 0 =>
                   \A i \in Parsed(json) :
                      (\A j \in Parsed(json) : j > i => json[j][1] /= json[i][1])
                      => memory_recall(json[i][1]) = {json[i][2]}
  <2>1. PICK s \in Nat : s = items_scanned
    BY <1>1 DEF MigrationInv, ImportInv
  <2>2. /\ s \in 0..Len(json) /\ s = items_migrated + items_failed
        /\ \A j \in 1..s : json[j] /= NoPair
        /\ items_failed = 0 => Holds(s)
        /\ s = Len(json) \/ json[s + 1] = NoPair
        /\ json \in Seq(Item) /\ Len(json) \in Nat /\ DOMAIN json = 1..Len(json)
    BY <1>1, <2>1 DEF MigrationInv, ImportInv
  <2>3. Parsed(json) = 1..s
    <3>1. ASSUME NEW i \in 1..s PROVE i \in Parsed(json)
      <4>1. i \in 1..Len(json) /\ \A j \in 1..i : j \in 1..s
        BY <2>2
      <4>2. QED
        BY <2>2, <4>1 DEF Parsed
    <3>2. ASSUME NEW i \in Parsed(json) PROVE i \in 1..s
      <4>1. i \in 1..Len(json) /\ \A j \in 1..i : json[j] /= NoPair
        BY <2>2 DEF Parsed
      <4>2. CASE i > s
        <5>1. s + 1 \in 1..i /\ s /= Len(json)
          BY <2>2, <4>1, <4>2
        <5>2. QED
          BY <2>2, <4>1, <5>1
      <4>3. QED
        BY <4>1, <4>2
    <3>3. QED
      BY <3>1, <3>2
  <2>4. Cardinality(1..s) = s
    <3>1. PICK o \in Int : o = 1
      OBVIOUS
    <3>2. s \in Int
      OBVIOUS
    <3>3. Cardinality(o..s) = IF o > s THEN 0 ELSE s - o + 1
      BY <3>2, FS_Interval
    <3>4. QED
      BY <3>1, <3>3
  <2>5. ASSUME NEW i \in 1..s PROVE json[i][1] \in Keys
    <3>1. json[i] \in Keys \X Values
      <4>1. json[i] /= NoPair /\ i \in 1..Len(json)
        BY <2>2
      <4>2. QED
        BY <2>2, <4>1 DEF Item
    <3>2. QED
      BY <3>1
  <2>6. \A k \in Keys : memory_recall(k) = wrote[k]
    BY DEF MigrationInv, RowsInv, RecallsLast
  <2>7. ASSUME items_failed = 0, NEW i \in 1..s, \A j \in 1..s : j > i => json[j][1] /= json[i][1]
        PROVE  memory_recall(json[i][1]) = {json[i][2]}
    <3>1. wrote[json[i][1]] = {json[i][2]}
      BY <2>2, <2>7 DEF Holds
    <3>2. QED
      BY <2>5, <2>6, <3>1
  <2>8. QED
    BY <2>1, <2>2, <2>3, <2>4, <2>7
<1>2. ASSUME json = <<>>, mstate = "completed"
      PROVE  /\ items_migrated <= Cardinality(Rewritten)
             /\ items_migrated = Cardinality(regular) => Rewritten = regular
  <2>1. pending = {}
    BY <1>2 DEF MigrationInv, DirectoryInv
  <2>2. CopiedNames = Rewritten
    BY <2>1 DEF CopiedNames, Rewritten
  <2>3. items_migrated \in Nat /\ items_migrated <= Cardinality(Rewritten)
    BY <1>2, <2>2 DEF MigrationInv, DirectoryInv
  <2>4. Rewritten \subseteq regular /\ regular \subseteq Names
    BY DEF Rewritten, MigrationInv, DirectoryInv
  <2>5. IsFiniteSet(regular) /\ Cardinality(regular) \in Nat
    BY <2>4, CopiedFinite
  <2>6. /\ Cardinality(Rewritten) \in Nat /\ Cardinality(Rewritten) <= Cardinality(regular)
        /\ Cardinality(Rewritten) = Cardinality(regular) => Rewritten = regular
    BY <2>4, <2>5, FS_Subset, FS_CardinalityType
  <2>7. QED
    BY <2>3, <2>5, <2>6
<1>3. CompletedIsImported
  BY <1>1 DEF CompletedIsImported
<1>4. CountedIsRewritten
  BY <1>2 DEF CountedIsRewritten, MigrationInv, DirectoryInv
<1>5. QED
  BY <1>3, <1>4 DEF MigrationFaithful

\* For every export and every directory, however often the command is killed and
\* run again: what migration_execute reports as done has been done.
THEOREM MigrationIsFaithful == MigrationSpec => []MigrationFaithful
  BY MigrationInvInit, MigrationInvStep, MigrationInvHolds, PTL DEF MigrationSpec
-----------------------------------------------------------------------------
(* The small tables. *)

USE DEF authVars, skillVars, instanceVars, approvalVars, healthVars, registryVars

LEMMA RegistryNats ==
    /\ MaxEntries \in Nat /\ MaxEntries >= 1 /\ Expiry \in Nat /\ MaxRegTime \in Nat
    /\ None \notin EntryNames /\ LongNames \subseteq EntryNames
  BY RegistriesAssumption

\* The first entry of a name.
LEMMA FirstOfIs ==
    ASSUME NEW S, NEW t \in Seq(S), NEW n
    PROVE  \/ FirstOf(t, n) = 0 /\ \A i \in 1..Len(t) : t[i].name /= n
           \/ /\ FirstOf(t, n) \in 1..Len(t) /\ t[FirstOf(t, n)].name = n
              /\ FirstOf(t, n) \in Nat /\ FirstOf(t, n) > 0
              /\ \A i \in 1..Len(t) : t[i].name = n => FirstOf(t, n) <= i
<1>1. PICK I : I = {i \in 1..Len(t) : t[i].name = n}
  OBVIOUS
<1>2. FirstOf(t, n) = IF I # {} THEN Min(I) ELSE 0
  BY <1>1 DEF FirstOf, SelectInSeq
<1>3. CASE I = {}
  BY <1>1, <1>2, <1>3
<1>4. CASE I /= {}
  <2>1. I \subseteq Nat
    BY <1>1
  <2>2. PICK m \in I : m = Min(I) /\ \A x \in I : m <= x
    BY <1>4, <2>1, MinOfNats
  <2>3. FirstOf(t, n) = m
    BY <1>2, <1>4, <2>2
  <2>4. m \in 1..Len(t) /\ t[m].name = n /\ \A i \in 1..Len(t) : t[i].name = n => m <= i
    BY <1>1, <2>2
  <2>5. QED
    BY <2>3, <2>4
<1>5. QED
  BY <1>3, <1>4

\* It is found where nothing before it has the name.
LEMMA FirstOfFound ==
    ASSUME NEW S, NEW t \in Seq(S), NEW n, NEW k \in 1..Len(t), t[k].name = n,
           \A i \in 1..Len(t) : i < k => t[i].name /= n
    PROVE  FirstOf(t, n) = k
<1>1. /\ FirstOf(t, n) \in 1..Len(t) /\ t[FirstOf(t, n)].name = n /\ FirstOf(t, n) <= k
  BY FirstOfIs
<1>2. QED
  BY <1>1
-----------------------------------------------------------------------------
(* The profiles. *)

Profile == [name : EntryNames, active : BOOLEAN]
AuthInv == profiles \in Seq(Profile) /\ Len(profiles) <= MaxEntries /\ OneActive

LEMMA AuthInvInit == RegistriesInit => AuthInv
<1> SUFFICES ASSUME RegistriesInit PROVE AuthInv
  OBVIOUS
<1>1. profiles = <<>> /\ profiles \in Seq(Profile) /\ Len(profiles) = 0
  BY DEF RegistriesInit
<1>2. QED
  BY <1>1, RegistryNats DEF AuthInv, OneActive

LEMMA AuthInvStep == AuthInv /\ [RegistriesNext]_registryVars => AuthInv'
<1> SUFFICES ASSUME AuthInv, [RegistriesNext]_registryVars PROVE AuthInv'
  OBVIOUS
<1>0. /\ profiles \in Seq(Profile) /\ Len(profiles) \in Nat /\ Len(profiles) <= MaxEntries
      /\ MaxEntries \in Nat /\ DOMAIN profiles = 1..Len(profiles)
      /\ \A i \in 1..Len(profiles) : profiles[i].active => profiles[i].name = active_profile
      /\ \A i \in 1..Len(profiles) : profiles[i] \in Profile
  BY RegistryNats DEF AuthInv, OneActive
<1>1. CASE auth_load
  <2>1. profiles' = <<>> /\ profiles' \in Seq(Profile) /\ Len(profiles') = 0
    BY <1>1 DEF auth_load
  <2>2. QED
    BY <2>1, RegistryNats DEF AuthInv, OneActive
<1>2. ASSUME NEW n \in EntryNames, auth_add_profile(n) PROVE AuthInv'
  <2>1. PICK e : e = [name |-> n, active |-> FALSE]
    OBVIOUS
  <2>2. e \in Profile /\ e.active = FALSE
    BY <2>1 DEF Profile
  <2>3. profiles' = Append(profiles, e) /\ Len(profiles) < MaxEntries /\ active_profile' = active_profile
    BY <1>2, <2>1 DEF auth_add_profile
  <2>4. /\ profiles' \in Seq(Profile) /\ Len(profiles') = Len(profiles) + 1
        /\ profiles'[Len(profiles) + 1] = e /\ \A i \in 1..Len(profiles) : profiles'[i] = profiles[i]
    <3>1. PICK p \in Seq(Profile) : p = profiles
      BY <1>0
    <3>2. /\ Append(p, e) \in Seq(Profile) /\ Len(Append(p, e)) = Len(p) + 1
          /\ Append(p, e)[Len(p) + 1] = e /\ \A i \in 1..Len(p) : Append(p, e)[i] = p[i]
      BY <2>2, AppendProperties
    <3>3. QED
      BY <2>3, <3>1, <3>2
  <2>5. \A i \in 1..Len(profiles') : profiles'[i].active => profiles'[i].name = active_profile'
    <3>1. TAKE i \in 1..Len(profiles')
    <3>2. CASE i \in 1..Len(profiles)
      BY <1>0, <2>3, <2>4, <3>2
    <3>3. CASE i = Len(profiles) + 1
      BY <2>2, <2>4, <3>3
    <3>4. QED
      BY <1>0, <2>4, <3>2, <3>3
  <2>6. DOMAIN profiles' = 1..Len(profiles') /\ Len(profiles') <= MaxEntries
    <3>1. PICK q \in Seq(Profile) : q = profiles'
      BY <2>4
    <3>2. DOMAIN q = 1..Len(q)
      OBVIOUS
    <3>3. Len(profiles') <= MaxEntries
      <4>1. PICK k \in Nat : k = Len(profiles) /\ k < MaxEntries
        BY <1>0, <2>3
      <4>2. Len(profiles') = k + 1
        BY <2>4, <4>1
      <4>3. QED
        BY <1>0, <4>1, <4>2
    <3>4. QED
      BY <3>1, <3>2, <3>3
  <2>7. QED
    BY <2>4, <2>5, <2>6 DEF AuthInv, OneActive
<1>3. ASSUME NEW n \in EntryNames, auth_remove_profile(n) PROVE AuthInv'
  <2>1. PICK k \in 1..Len(profiles) : k = FirstOf(profiles, n)
    BY <1>0, <1>3, FirstOfIs DEF auth_remove_profile
  <2>2. profiles' = RemoveAt(profiles, k) /\ active_profile' = active_profile
    BY <1>3, <2>1 DEF auth_remove_profile
  <2>3. /\ profiles' \in Seq(Profile) /\ Len(profiles') = Len(profiles) - 1
        /\ \A j \in 1..Len(profiles) - 1 :
              profiles'[j] = IF j < k THEN profiles[j] ELSE profiles[j + 1]
    BY <1>0, <2>2, RemoveAtProperties
  <2>4. \A j \in 1..Len(profiles') : profiles'[j].active => profiles'[j].name = active_profile'
    <3>1. TAKE j \in 1..Len(profiles')
    <3>2. PICK i \in 1..Len(profiles) : profiles'[j] = profiles[i]
      <4>1. j \in 1..Len(profiles) /\ j + 1 \in 1..Len(profiles)
        BY <1>0, <2>3
      <4>2. QED
        BY <2>3, <4>1
    <3>3. QED
      BY <1>0, <2>2, <3>2
  <2>5. QED
    BY <1>0, <2>3, <2>4 DEF AuthInv, OneActive
<1>4. ASSUME NEW n \in EntryNames, auth_set_active(n) PROVE AuthInv'
  <2>1. profiles' = [i \in 1..Len(profiles) |-> [profiles[i] EXCEPT !.active = (profiles[i].name = n)]]
    BY <1>0, <1>4 DEF auth_set_active
  <2>2. ASSUME NEW i \in 1..Len(profiles)
        PROVE  /\ [profiles[i] EXCEPT !.active = (profiles[i].name = n)] \in Profile
               /\ [profiles[i] EXCEPT !.active = (profiles[i].name = n)].name = profiles[i].name
               /\ [profiles[i] EXCEPT !.active = (profiles[i].name = n)].active = (profiles[i].name = n)
    <3>1. PICK p \in Profile : p = profiles[i]
      BY <1>0
    <3>2. PICK b \in BOOLEAN : b = (p.name = n)
      OBVIOUS
    <3>3. /\ [p EXCEPT !.active = b] \in Profile /\ [p EXCEPT !.active = b].name = p.name
          /\ [p EXCEPT !.active = b].active = b
      BY DEF Profile
    <3>4. QED
      BY <3>1, <3>2, <3>3
  <2>3. profiles' \in Seq(Profile) /\ Len(profiles') = Len(profiles)
    BY <1>0, <2>1, <2>2
  <2>4. ASSUME NEW i \in 1..Len(profiles), profiles'[i].active PROVE profiles'[i].name = active_profile'
    <3>1. profiles[i].name = n /\ profiles'[i].name = n
      BY <2>1, <2>2, <2>4
    <3>2. FirstOf(profiles, n) > 0
      BY <1>0, <3>1, FirstOfIs
    <3>3. QED
      BY <1>4, <3>1, <3>2 DEF auth_set_active
  <2>5. QED
    BY <1>0, <2>3, <2>4 DEF AuthInv, OneActive
<1>5. CASE UNCHANGED <<profiles, active_profile>>
  BY <1>5 DEF AuthInv, OneActive
<1>6. auth_save \/ SkillsNext \/ InstancesNext \/ ApprovalsNext \/ HealthNext \/ UNCHANGED registryVars
      => UNCHANGED <<profiles, active_profile>>
  BY DEF auth_save, SkillsNext, InstancesNext, ApprovalsNext, HealthNext, skills_add, skills_remove,
         skills_enable, skills_execute, instance_register, instance_shutdown, approval_request,
         approval_respond, approval_clear_expired, RegistryClock, health_register,
         health_register_checker, health_run_checks
<1>7. QED
  BY <1>1, <1>2, <1>3, <1>4, <1>5, <1>6 DEF RegistriesNext, AuthNext
-----------------------------------------------------------------------------
(* The skills. *)

Skill == [name : EntryNames, enabled : BOOLEAN]

\* What a disabled name stands for is a disabled entry.
Disabled(s, n) == \E k \in 1..Len(s) : /\ s[k].name = n /\ s[k].enabled = FALSE
                                       /\ \A i \in 1..Len(s) : i < k => s[i].name /= n

SkillInv == /\ skills \in Seq(Skill) /\ Len(skills) <= MaxEntries /\ banned \subseteq EntryNames
            /\ \A n \in banned : Disabled(skills, n)

LEMMA SkillInvInit == RegistriesInit => SkillInv
<1> SUFFICES ASSUME RegistriesInit PROVE SkillInv
  OBVIOUS
<1>1. skills = <<>> /\ skills \in Seq(Skill) /\ Len(skills) = 0 /\ banned = {}
  BY DEF RegistriesInit
<1>2. QED
  BY <1>1, RegistryNats DEF SkillInv

LEMMA SkillInvStep ==
    SkillInv /\ [RegistriesNext]_registryVars
    => SkillInv' /\ (executed' /= executed => executed' \notin banned')
<1> SUFFICES ASSUME SkillInv, [RegistriesNext]_registryVars
             PROVE  SkillInv' /\ (executed' /= executed => executed' \notin banned')
  OBVIOUS
<1>0. /\ skills \in Seq(Skill) /\ Len(skills) \in Nat /\ Len(skills) <= MaxEntries
      /\ MaxEntries \in Nat /\ banned \subseteq EntryNames
      /\ \A i \in 1..Len(skills) : skills[i] \in Skill
  BY RegistryNats DEF SkillInv
<1>1. ASSUME NEW n \in EntryNames, skills_add(n) PROVE SkillInv' /\ executed' = executed
  <2>1. PICK e : e = [name |-> n, enabled |-> TRUE]
    OBVIOUS
  <2>2. e \in Skill
    BY <2>1 DEF Skill
  <2>3. skills' = Append(skills, e) /\ Len(skills) < MaxEntries /\ banned' = banned /\ executed' = executed
    BY <1>1, <2>1 DEF skills_add
  <2>4. /\ skills' \in Seq(Skill) /\ Len(skills') = Len(skills) + 1
        /\ \A i \in 1..Len(skills) : skills'[i] = skills[i]
    BY <1>0, <2>2, <2>3, AppendProperties
  <2>5. ASSUME NEW m \in banned PROVE Disabled(skills', m)
    <3>1. PICK k \in 1..Len(skills) : /\ skills[k].name = m /\ skills[k].enabled = FALSE
                                      /\ \A i \in 1..Len(skills) : i < k => skills[i].name /= m
      BY DEF SkillInv, Disabled
    <3>2. k \in 1..Len(skills') /\ \A i \in 1..Len(skills') : i < k => i \in 1..Len(skills)
      BY <1>0, <2>4
    <3>3. QED
      BY <2>4, <3>1, <3>2 DEF Disabled
  <2>6. QED
    BY <1>0, <2>3, <2>4, <2>5 DEF SkillInv
<1>2. ASSUME NEW n \in EntryNames, skills_remove(n) PROVE SkillInv' /\ executed' = executed
  <2>1. PICK r \in 1..Len(skills) : r = FirstOf(skills, n) /\ skills[r].name = n
    BY <1>0, <1>2, FirstOfIs DEF skills_remove
  <2>2. skills' = RemoveAt(skills, r) /\ banned' = banned \ {n} /\ executed' = executed
    BY <1>2, <2>1 DEF skills_remove
  <2>3. /\ skills' \in Seq(Skill) /\ Len(skills') = Len(skills) - 1
        /\ \A j \in 1..Len(skills) - 1 : skills'[j] = IF j < r THEN skills[j] ELSE skills[j + 1]
    BY <1>0, <2>2, RemoveAtProperties
  <2>4. ASSUME NEW m \in banned, m /= n PROVE Disabled(skills', m)
    <3>1. PICK k \in 1..Len(skills) : /\ skills[k].name = m /\ skills[k].enabled = FALSE
                                      /\ \A i \in 1..Len(skills) : i < k => skills[i].name /= m
      BY DEF SkillInv, Disabled
    <3>2. k /= r
      BY <2>1, <2>4, <3>1
    <3>3. CASE k < r
      <4>1. k \in 1..Len(skills') /\ skills'[k] = skills[k]
        BY <1>0, <2>3, <3>3
      <4>2. \A i \in 1..Len(skills') : i < k => i \in 1..Len(skills) /\ skills'[i] = skills[i]
        BY <1>0, <2>3, <3>3
      <4>3. QED
        BY <3>1, <4>1, <4>2 DEF Disabled
    <3>4. CASE k > r
      <4>0. PICK p \in 1..Len(skills) - 1 : p = k - 1
        BY <1>0, <3>4
      <4>1. p \in 1..Len(skills') /\ skills'[p] = skills[k] /\ p + 1 = k
        BY <1>0, <2>3, <3>4, <4>0
      <4>2. ASSUME NEW i \in 1..Len(skills'), i < p PROVE skills'[i].name /= m
        <5>1. i \in 1..Len(skills) - 1 /\ i \in 1..Len(skills) /\ i + 1 \in 1..Len(skills) /\ i < k /\ i + 1 < k
          BY <1>0, <2>3, <4>0, <4>1, <4>2
        <5>2. skills[i].name /= m /\ skills[i + 1].name /= m
          BY <3>1, <5>1
        <5>3. QED
          BY <2>3, <5>1, <5>2
      <4>3. QED
        BY <3>1, <4>1, <4>2 DEF Disabled
    <3>5. QED
      BY <3>2, <3>3, <3>4
  <2>5. QED
    BY <1>0, <2>2, <2>3, <2>4 DEF SkillInv
<1>3. ASSUME NEW n \in EntryNames, NEW b \in BOOLEAN, skills_enable(n, b)
      PROVE  SkillInv' /\ executed' = None
  <2>1. PICK r \in 1..Len(skills) : /\ r = FirstOf(skills, n) /\ skills[r].name = n
                                    /\ \A i \in 1..Len(skills) : skills[i].name = n => r <= i
    BY <1>0, <1>3, FirstOfIs DEF skills_enable
  <2>2. PICK e : e = [skills[r] EXCEPT !.enabled = b]
    OBVIOUS
  <2>3. e \in Skill /\ e.name = n /\ e.enabled = b
    BY <1>0, <2>1, <2>2 DEF Skill
  <2>4. /\ skills' = [skills EXCEPT ![r] = e] /\ executed' = None
        /\ banned' = IF b THEN banned \ {n} ELSE banned \cup {n}
    BY <1>3, <2>1, <2>2 DEF skills_enable
  <2>5. /\ skills' \in Seq(Skill) /\ Len(skills') = Len(skills) /\ skills'[r] = e
        /\ \A i \in 1..Len(skills) : i /= r => skills'[i] = skills[i]
    BY <1>0, <2>3, <2>4
  <2>6. \A i \in 1..Len(skills) : skills'[i].name = skills[i].name
    BY <2>1, <2>3, <2>5
  <2>7. ASSUME NEW m \in banned, m /= n PROVE Disabled(skills', m)
    <3>1. PICK k \in 1..Len(skills) : /\ skills[k].name = m /\ skills[k].enabled = FALSE
                                      /\ \A i \in 1..Len(skills) : i < k => skills[i].name /= m
      BY DEF SkillInv, Disabled
    <3>2. k /= r
      BY <2>1, <2>7, <3>1
    <3>3. skills'[k] = skills[k]
      BY <2>5, <3>2
    <3>4. QED
      BY <2>5, <2>6, <3>1, <3>3 DEF Disabled
  <2>8. ASSUME ~b PROVE Disabled(skills', n)
    <3>1. skills'[r].name = n /\ skills'[r].enabled = FALSE
      BY <2>3, <2>5, <2>8
    <3>2. \A i \in 1..Len(skills) : i < r => skills[i].name /= n
      BY <1>0, <2>1
    <3>3. QED
      BY <2>5, <2>6, <3>1, <3>2 DEF Disabled
  <2>9. QED
    BY <1>0, <2>4, <2>5, <2>7, <2>8 DEF SkillInv
<1>4. ASSUME NEW n \in EntryNames, skills_execute(n) PROVE SkillInv' /\ executed' = n /\ n \notin banned'
  <2>1. /\ FirstOf(skills, n) > 0 /\ skills[FirstOf(skills, n)].enabled /\ executed' = n
        /\ skills' = skills /\ banned' = banned
    BY <1>4 DEF skills_execute
  <2>2. ASSUME n \in banned PROVE FALSE
    <3>1. PICK k \in 1..Len(skills) : /\ skills[k].name = n /\ skills[k].enabled = FALSE
                                      /\ \A i \in 1..Len(skills) : i < k => skills[i].name /= n
      BY <2>2 DEF SkillInv, Disabled
    <3>2. FirstOf(skills, n) = k
      BY <1>0, <3>1, FirstOfFound
    <3>3. QED
      BY <2>1, <3>1, <3>2
  <2>3. QED
    BY <2>1, <2>2 DEF SkillInv
<1>5. CASE UNCHANGED skillVars
  BY <1>5 DEF SkillInv
<1>6. AuthNext \/ InstancesNext \/ ApprovalsNext \/ HealthNext \/ UNCHANGED registryVars
      => UNCHANGED skillVars
  BY DEF AuthNext, InstancesNext, ApprovalsNext, HealthNext, auth_load, auth_save, auth_add_profile,
         auth_remove_profile, auth_set_active, instance_register, instance_shutdown, approval_request,
         approval_respond, approval_clear_expired, RegistryClock, health_register,
         health_register_checker, health_run_checks
<1>7. ASSUME executed' = None, SkillInv' PROVE executed' \notin banned'
  BY <1>7, RegistryNats DEF SkillInv
<1>8. CASE SkillsNext
  BY <1>1, <1>2, <1>3, <1>4, <1>7, <1>8 DEF SkillsNext
<1>9. QED
  BY <1>5, <1>6, <1>8 DEF RegistriesNext
-----------------------------------------------------------------------------
(* The instances. *)

Instance == [name : EntryNames, config : Settings]

\* A short id is in the registry at most once, with its last configuration, and a
\* short id without a configuration is not in it.
InstanceInv ==
    /\ instances \in Seq(Instance) /\ Len(instances) <= MaxEntries
    /\ configured \in [EntryNames -> Settings \cup {None}]
    /\ \A n \in EntryNames \ LongNames :
          /\ \A i, j \in 1..Len(instances) : instances[i].name = n /\ instances[j].name = n => i = j
          /\ \A i \in 1..Len(instances) : instances[i].name = n => instances[i].config = configured[n]
          /\ \/ \E i \in 1..Len(instances) : instances[i].name = n
             \/ configured[n] = None

LEMMA InstanceInvInit == RegistriesInit => InstanceInv
<1> SUFFICES ASSUME RegistriesInit PROVE InstanceInv
  OBVIOUS
<1>1. instances = <<>> /\ instances \in Seq(Instance) /\ Len(instances) = 0
      /\ configured = [n \in EntryNames |-> None]
  BY DEF RegistriesInit
<1>2. QED
  BY <1>1, RegistryNats DEF InstanceInv

LEMMA RegisterKeeps ==
    ASSUME InstanceInv, NEW n \in EntryNames, NEW c \in Settings, instance_register(n, c)
    PROVE  InstanceInv'
<1>0. /\ instances \in Seq(Instance) /\ Len(instances) \in Nat /\ Len(instances) <= MaxEntries
      /\ MaxEntries \in Nat /\ configured \in [EntryNames -> Settings \cup {None}]
      /\ \A i \in 1..Len(instances) : instances[i] \in Instance
  BY RegistryNats DEF InstanceInv
<1>1. /\ configured' \in [EntryNames -> Settings \cup {None}] /\ configured'[n] = c
      /\ \A m \in EntryNames : m /= n => configured'[m] = configured[m]
  BY <1>0 DEF instance_register
<1>2. CASE FindInstance(n) > 0
  <2>1. PICK k \in 1..Len(instances) : k = FindInstance(n) /\ instances[k].name = n
    <3>1. FindInstance(n) = FirstOf(instances, n)
      BY <1>2 DEF FindInstance
    <3>2. QED
      BY <1>0, <1>2, <3>1, FirstOfIs
  <2>2. PICK e : e = [instances[k] EXCEPT !.config = c]
    OBVIOUS
  <2>3. e \in Instance /\ e.name = n /\ e.config = c
    BY <1>0, <2>1, <2>2 DEF Instance
  <2>4. instances' = [instances EXCEPT ![k] = e]
    BY <1>2, <2>1, <2>2 DEF instance_register
  <2>5. /\ instances' \in Seq(Instance) /\ Len(instances') = Len(instances) /\ instances'[k] = e
        /\ \A i \in 1..Len(instances) : i /= k => instances'[i] = instances[i]
    BY <1>0, <2>3, <2>4
  <2>6. \A i \in 1..Len(instances) : instances'[i].name = instances[i].name
    BY <2>1, <2>3, <2>5
  <2>7. ASSUME NEW m \in EntryNames \ LongNames
        PROVE  /\ \A i, j \in 1..Len(instances') : instances'[i].name = m /\ instances'[j].name = m => i = j
               /\ \A i \in 1..Len(instances') : instances'[i].name = m => instances'[i].config = configured'[m]
               /\ \/ \E i \in 1..Len(instances') : instances'[i].name = m
                  \/ configured'[m] = None
    <3>1. \A i, j \in 1..Len(instances) : instances[i].name = m /\ instances[j].name = m => i = j
      BY DEF InstanceInv
    <3>2. ASSUME NEW i \in 1..Len(instances), instances'[i].name = m PROVE instances'[i].config = configured'[m]
      <4>1. CASE i = k
        BY <1>1, <2>3, <2>5, <3>2, <4>1
      <4>2. CASE i /= k
        <5>1. m /= n
          BY <2>1, <2>6, <3>1, <3>2, <4>2
        <5>2. instances'[i] = instances[i]
          BY <2>5, <4>2
        <5>3. QED
          BY <1>1, <3>2, <5>1, <5>2 DEF InstanceInv
      <4>3. QED
        BY <4>1, <4>2
    <3>3. \/ \E i \in 1..Len(instances) : instances'[i].name = m
          \/ configured'[m] = None
      <4>1. CASE m = n
        BY <2>1, <2>6, <4>1
      <4>2. CASE m /= n
        BY <1>1, <2>6, <4>2 DEF InstanceInv
      <4>3. QED
        BY <4>1, <4>2
    <3>4. \A i, j \in 1..Len(instances) : instances'[i].name = m /\ instances'[j].name = m => i = j
      BY <2>6, <3>1
    <3>5. QED
      BY <2>5, <3>2, <3>3, <3>4
  <2>8. QED
    BY <1>0, <1>1, <2>5, <2>7 DEF InstanceInv
<1>3. CASE ~(FindInstance(n) > 0)
  <2>1. PICK e : e = [name |-> n, config |-> c]
    OBVIOUS
  <2>2. e \in Instance /\ e.name = n /\ e.config = c
    BY <2>1 DEF Instance
  <2>3. Len(instances) < MaxEntries /\ instances' = Append(instances, e)
    BY <1>3, <2>1 DEF instance_register
  <2>4. /\ instances' \in Seq(Instance) /\ Len(instances') = Len(instances) + 1
        /\ instances'[Len(instances) + 1] = e
        /\ \A i \in 1..Len(instances) : instances'[i] = instances[i]
    <3>1. PICK p \in Seq(Instance) : p = instances
      BY <1>0
    <3>2. /\ Append(p, e) \in Seq(Instance) /\ Len(Append(p, e)) = Len(p) + 1
          /\ Append(p, e)[Len(p) + 1] = e /\ \A i \in 1..Len(p) : Append(p, e)[i] = p[i]
      BY <2>2, AppendProperties
    <3>3. QED
      BY <2>3, <3>1, <3>2
  <2>5. ASSUME n \notin LongNames PROVE \A i \in 1..Len(instances) : instances[i].name /= n
    <3>1. FindInstance(n) = FirstOf(instances, n)
      BY <2>5 DEF FindInstance
    <3>2. QED
      BY <1>0, <1>3, <3>1, FirstOfIs
  <2>6. ASSUME NEW m \in EntryNames \ LongNames
        PROVE  /\ \A i, j \in 1..Len(instances') : instances'[i].name = m /\ instances'[j].name = m => i = j
               /\ \A i \in 1..Len(instances') : instances'[i].name = m => instances'[i].config = configured'[m]
               /\ \/ \E i \in 1..Len(instances') : instances'[i].name = m
                  \/ configured'[m] = None
    <3>1. \A i \in 1..Len(instances') : i \in 1..Len(instances) \/ i = Len(instances) + 1
      BY <1>0, <2>4
    <3>2. CASE m = n
      <4>1. \A i \in 1..Len(instances) : instances'[i].name /= m
        BY <2>4, <2>5, <3>2
      <4>2. \A i \in 1..Len(instances') : instances'[i].name = m => i = Len(instances) + 1
        BY <3>1, <4>1
      <4>3. Len(instances) + 1 \in 1..Len(instances')
        BY <1>0, <2>4
      <4>4. QED
        BY <1>1, <2>2, <2>4, <3>2, <4>2, <4>3
    <3>3. CASE m /= n
      <4>1. \A i \in 1..Len(instances') : instances'[i].name = m => i \in 1..Len(instances) /\ instances'[i] = instances[i]
        BY <2>2, <2>4, <3>1, <3>3
      <4>2. \A i \in 1..Len(instances) : i \in 1..Len(instances') /\ instances'[i] = instances[i]
        BY <1>0, <2>4
      <4>3. configured'[m] = configured[m]
        BY <1>1, <3>3
      <4>4. QED
        BY <4>1, <4>2, <4>3 DEF InstanceInv
    <3>4. QED
      BY <3>2, <3>3
  <2>7. QED
    BY <1>0, <1>1, <2>3, <2>4, <2>6 DEF InstanceInv
<1>4. QED
  BY <1>2, <1>3

LEMMA InstanceInvStep == InstanceInv /\ [RegistriesNext]_registryVars => InstanceInv'
<1> SUFFICES ASSUME InstanceInv, [RegistriesNext]_registryVars PROVE InstanceInv'
  OBVIOUS
<1>1. ASSUME NEW n \in EntryNames, NEW c \in Settings, instance_register(n, c) PROVE InstanceInv'
  BY <1>1, RegisterKeeps
<1>2. CASE instance_shutdown
  <2>1. instances' = <<>> /\ instances' \in Seq(Instance) /\ Len(instances') = 0
        /\ configured' = [n \in EntryNames |-> None]
    BY <1>2 DEF instance_shutdown
  <2>2. QED
    BY <2>1, RegistryNats DEF InstanceInv
<1>3. CASE UNCHANGED instanceVars
  BY <1>3 DEF InstanceInv
<1>4. AuthNext \/ SkillsNext \/ ApprovalsNext \/ HealthNext \/ UNCHANGED registryVars
      => UNCHANGED instanceVars
  BY DEF AuthNext, SkillsNext, ApprovalsNext, HealthNext, auth_load, auth_save, auth_add_profile,
         auth_remove_profile, auth_set_active, skills_add, skills_remove, skills_enable,
         skills_execute, approval_request, approval_respond, approval_clear_expired, RegistryClock,
         health_register, health_register_checker, health_run_checks
<1>5. QED
  BY <1>1, <1>2, <1>3, <1>4 DEF RegistriesNext, InstancesNext

LEMMA InstanceInvCurrent == InstanceInv => InstanceIsCurrent
<1> SUFFICES ASSUME InstanceInv, NEW n \in EntryNames \ LongNames
             PROVE  /\ instance_get_config(n) = configured[n]
                    /\ Cardinality({i \in DOMAIN instances : instances[i].name = n}) <= 1
  BY DEF InstanceIsCurrent
<1>0. instances \in Seq(Instance) /\ DOMAIN instances = 1..Len(instances)
  BY DEF InstanceInv
<1>1. FindInstance(n) = FirstOf(instances, n)
  BY DEF FindInstance
<1>2. instance_get_config(n) = configured[n]
  <2>1. CASE FirstOf(instances, n) = 0
    <3>1. \A i \in 1..Len(instances) : instances[i].name /= n
      BY <1>0, <2>1, FirstOfIs
    <3>2. configured[n] = None
      BY <3>1 DEF InstanceInv
    <3>3. QED
      BY <1>1, <2>1, <3>2 DEF instance_get_config
  <2>2. CASE FirstOf(instances, n) /= 0
    <3>1. FirstOf(instances, n) \in 1..Len(instances) /\ instances[FirstOf(instances, n)].name = n
      BY <1>0, <2>2, FirstOfIs
    <3>2. instances[FirstOf(instances, n)].config = configured[n]
      BY <3>1 DEF InstanceInv
    <3>3. QED
      BY <1>1, <2>2, <3>2 DEF instance_get_config
  <2>3. QED
    BY <2>1, <2>2
<1>3. Cardinality({i \in DOMAIN instances : instances[i].name = n}) <= 1
  <2>1. PICK I : I = {i \in DOMAIN instances : instances[i].name = n}
    OBVIOUS
  <2>2. \A i, j \in I : i = j
    BY <1>0, <2>1 DEF InstanceInv
  <2>3. CASE I = {}
    BY <2>1, <2>3, FS_EmptySet
  <2>4. CASE I /= {}
    <3>1. PICK i : I = {i}
      BY <2>2, <2>4
    <3>2. Cardinality(I) = 1
      BY <3>1, FS_Singleton
    <3>3. QED
      BY <2>1, <3>2
  <2>5. QED
    BY <2>3, <2>4
<1>4. QED
  BY <1>2, <1>3
-----------------------------------------------------------------------------
(* The approval requests. *)

Request == [name : EntryNames, status : {"pending", "approved", "denied"}, expires_at : Nat]

Answered(r, g) == r.status = IF g[2] THEN "approved" ELSE "denied"

\* An id is in the table once, and its request shows the answer given to it.
RequestsOK(t, answers) ==
    /\ t \in Seq(Request) /\ Len(t) <= MaxEntries
    /\ \A i, j \in 1..Len(t) : t[i].name = t[j].name => i = j
    /\ \A i \in 1..Len(t) : \A g \in answers : g[1] = t[i].name => Answered(t[i], g)

ApprovalInv == RequestsOK(approvals, given) /\ regtime \in 0..MaxRegTime

\* A request that is gone was out of date.
NoneLost == \A i \in 1..Len(approvals) :
               \/ \E j \in 1..Len(approvals') : approvals'[j].name = approvals[i].name
               \/ approvals[i].expires_at <= regtime

LEMMA ApprovalInvInit == RegistriesInit => ApprovalInv
<1> SUFFICES ASSUME RegistriesInit PROVE ApprovalInv
  OBVIOUS
<1>1. approvals = <<>> /\ approvals \in Seq(Request) /\ Len(approvals) = 0 /\ regtime = 0
  BY DEF RegistriesInit
<1>2. QED
  BY <1>1, RegistryNats DEF ApprovalInv, RequestsOK

LEMMA RequestKeeps ==
    ASSUME ApprovalInv, NEW n \in EntryNames, approval_request(n)
    PROVE  ApprovalInv' /\ NoneLost
<1>0. /\ approvals \in Seq(Request) /\ Len(approvals) \in Nat /\ Len(approvals) <= MaxEntries
      /\ MaxEntries \in Nat /\ Expiry \in Nat /\ MaxRegTime \in Nat /\ regtime \in Nat
  BY RegistryNats DEF ApprovalInv, RequestsOK
<1>1. PICK e : e = [name |-> n, status |-> "pending", expires_at |-> regtime + Expiry]
  OBVIOUS
<1>2. e \in Request /\ e.name = n
  BY <1>0, <1>1 DEF Request
<1>3. /\ Len(approvals) < MaxEntries /\ FirstOf(approvals, n) = 0 /\ \A g \in given : g[1] /= n
      /\ approvals' = Append(approvals, e) /\ given' = given /\ regtime' = regtime
  BY <1>1 DEF approval_request
<1>4. /\ approvals' \in Seq(Request) /\ Len(approvals') = Len(approvals) + 1
      /\ approvals'[Len(approvals) + 1] = e
      /\ \A i \in 1..Len(approvals) : approvals'[i] = approvals[i]
  <2>1. PICK p \in Seq(Request) : p = approvals
    BY <1>0
  <2>2. /\ Append(p, e) \in Seq(Request) /\ Len(Append(p, e)) = Len(p) + 1
        /\ Append(p, e)[Len(p) + 1] = e /\ \A i \in 1..Len(p) : Append(p, e)[i] = p[i]
    BY <1>2, AppendProperties
  <2>3. QED
    BY <1>3, <2>1, <2>2
<1>5. \A i \in 1..Len(approvals) : approvals[i].name /= n
  BY <1>0, <1>3, FirstOfIs
<1>6. \A i \in 1..Len(approvals') : i \in 1..Len(approvals) \/ i = Len(approvals) + 1
  BY <1>0, <1>4
<1>7. \A i, j \in 1..Len(approvals') : approvals'[i].name = approvals'[j].name => i = j
  <2>1. TAKE i, j \in 1..Len(approvals')
  <2>2. CASE i \in 1..Len(approvals) /\ j \in 1..Len(approvals)
    BY <1>4, <2>2 DEF ApprovalInv, RequestsOK
  <2>3. CASE i = Len(approvals) + 1 /\ j \in 1..Len(approvals)
    BY <1>2, <1>4, <1>5, <2>3
  <2>4. CASE j = Len(approvals) + 1 /\ i \in 1..Len(approvals)
    BY <1>2, <1>4, <1>5, <2>4
  <2>5. QED
    BY <1>6, <2>2, <2>3, <2>4
<1>8. ASSUME NEW i \in 1..Len(approvals'), NEW g \in given, g[1] = approvals'[i].name
      PROVE  Answered(approvals'[i], g)
  <2>1. i /= Len(approvals) + 1
    BY <1>2, <1>3, <1>4, <1>8
  <2>2. i \in 1..Len(approvals) /\ approvals'[i] = approvals[i]
    BY <1>4, <1>6, <2>1
  <2>3. QED
    BY <1>8, <2>2 DEF ApprovalInv, RequestsOK
<1>9. \A i \in 1..Len(approvals) : i \in 1..Len(approvals')
  BY <1>0, <1>4
<1>10. NoneLost
  BY <1>4, <1>9 DEF NoneLost
<1>11. Len(approvals') <= MaxEntries
  BY <1>0, <1>3, <1>4
<1>12. regtime' \in 0..MaxRegTime
  BY <1>3 DEF ApprovalInv
<1>13. RequestsOK(approvals', given')
  BY <1>3, <1>4, <1>7, <1>8, <1>11 DEF RequestsOK
<1>14. QED
  BY <1>10, <1>12, <1>13 DEF ApprovalInv

LEMMA RespondKeeps ==
    ASSUME ApprovalInv, NEW n \in EntryNames, NEW b \in BOOLEAN, approval_respond(n, b)
    PROVE  ApprovalInv' /\ NoneLost
<1>0. /\ approvals \in Seq(Request) /\ Len(approvals) \in Nat /\ Len(approvals) <= MaxEntries
      /\ \A i \in 1..Len(approvals) : approvals[i] \in Request
  BY DEF ApprovalInv, RequestsOK
<1>1. PICK k \in 1..Len(approvals) : k = FirstOf(approvals, n) /\ approvals[k].name = n
  BY <1>0, FirstOfIs DEF approval_respond
<1>2. PICK st \in {"approved", "denied"} : st = IF b THEN "approved" ELSE "denied"
  OBVIOUS
<1>3. PICK e : e = [approvals[k] EXCEPT !.status = st]
  OBVIOUS
<1>4. e \in Request /\ e.name = n /\ e.status = st
  BY <1>0, <1>1, <1>3 DEF Request
<1>5. /\ approvals' = [approvals EXCEPT ![k] = e] /\ regtime' = regtime
      /\ given' = {g \in given : g[1] /= n} \cup {<<n, b>>}
  BY <1>1, <1>2, <1>3 DEF approval_respond
<1>6. /\ approvals' \in Seq(Request) /\ Len(approvals') = Len(approvals) /\ approvals'[k] = e
      /\ \A i \in 1..Len(approvals) : i /= k => approvals'[i] = approvals[i]
  BY <1>0, <1>4, <1>5
<1>7. \A i \in 1..Len(approvals) : approvals'[i].name = approvals[i].name
  BY <1>1, <1>4, <1>6
<1>8. \A i, j \in 1..Len(approvals') : approvals'[i].name = approvals'[j].name => i = j
  BY <1>6, <1>7 DEF ApprovalInv, RequestsOK
<1>9. ASSUME NEW i \in 1..Len(approvals'), NEW g \in given', g[1] = approvals'[i].name
      PROVE  Answered(approvals'[i], g)
  <2>1. CASE i = k
    <3>1. g = <<n, b>>
      BY <1>4, <1>5, <1>6, <1>9, <2>1
    <3>2. QED
      BY <1>2, <1>4, <1>6, <2>1, <3>1 DEF Answered
  <2>2. CASE i /= k
    <3>1. i \in 1..Len(approvals) /\ approvals'[i] = approvals[i] /\ approvals[i].name /= n
      BY <1>1, <1>6, <2>2 DEF ApprovalInv, RequestsOK
    <3>2. g \in given
      BY <1>5, <1>9, <3>1
    <3>3. QED
      BY <1>9, <3>1, <3>2 DEF ApprovalInv, RequestsOK
  <2>3. QED
    BY <2>1, <2>2
<1>10. NoneLost
  BY <1>6, <1>7 DEF NoneLost
<1>11. RequestsOK(approvals', given')
  BY <1>0, <1>6, <1>8, <1>9 DEF RequestsOK
<1>12. QED
  BY <1>5, <1>10, <1>11 DEF ApprovalInv

LEMMA ClearKeeps ==
    ASSUME ApprovalInv, approval_clear_expired
    PROVE  ApprovalInv' /\ NoneLost
<1>0. /\ approvals \in Seq(Request) /\ Len(approvals) \in Nat /\ Len(approvals) <= MaxEntries
      /\ DOMAIN approvals = 1..Len(approvals) /\ MaxEntries \in Nat
      /\ \A i \in 1..Len(approvals) : approvals[i] \in Request
      /\ regtime \in Nat
  BY RegistryNats DEF ApprovalInv, RequestsOK
<1>1. PICK I \in SUBSET (1..Len(approvals)) : I = Live
  BY <1>0 DEF Live
<1>2. approvals' = Picked(approvals, I) /\ given' = given /\ regtime' = regtime
  BY <1>1 DEF approval_clear_expired
<1>3. /\ Cardinality(I) \in Nat /\ approvals' \in Seq(Request) /\ Len(approvals') = Cardinality(I)
      /\ \A j \in 1..Cardinality(I) : \E i \in I : i = Nth(I, j) /\ approvals'[j] = approvals[i]
  BY <1>0, <1>2, PickedProperties
<1>4. \A i \in I : \E j \in 1..Cardinality(I) : j = Rank(I, i) /\ approvals'[j] = approvals[i]
  <2>1. \A i \in I : \E j \in 1..Cardinality(I) : j = Rank(I, i) /\ Picked(approvals, I)[j] = approvals[i]
    BY <1>0, PickedProperties, Zenon
  <2>2. QED
    BY <1>2, <2>1
<1>5. \A a, c \in 1..Cardinality(I) : Nth(I, a) = Nth(I, c) => a = c
  <2>1. I \subseteq 1..Len(approvals)
    OBVIOUS
  <2>2. \A j \in 1..Cardinality(I) : Rank(I, Nth(I, j)) = j
    BY <1>0, <2>1, NthProperties
  <2>3. QED
    BY <2>2
<1>6. Cardinality(I) <= Len(approvals)
  <2>1. IsFiniteSet(1..Len(approvals)) /\ Cardinality(1..Len(approvals)) = Len(approvals)
    <3>1. PICK m \in Int : m = 1
      OBVIOUS
    <3>0. PICK n \in Nat : n = Len(approvals)
      BY <1>0
    <3>2. IsFiniteSet(m..n) /\ Cardinality(m..n) = IF m > n THEN 0 ELSE n - m + 1
      <4>1. n \in Int
        OBVIOUS
      <4>2. QED
        BY <4>1, FS_Interval
    <3>3. QED
      BY <1>0, <3>0, <3>1, <3>2
  <2>2. QED
    BY <2>1, FS_Subset
<1>7. \A a, c \in 1..Len(approvals') : approvals'[a].name = approvals'[c].name => a = c
  <2>1. TAKE a, c \in 1..Len(approvals')
  <2>2. HAVE approvals'[a].name = approvals'[c].name
  <2>3. PICK i \in I : i = Nth(I, a) /\ approvals'[a] = approvals[i]
    BY <1>3
  <2>4. PICK j \in I : j = Nth(I, c) /\ approvals'[c] = approvals[j]
    BY <1>3
  <2>5. i = j
    BY <2>2, <2>3, <2>4 DEF ApprovalInv, RequestsOK
  <2>6. QED
    BY <1>3, <1>5, <2>3, <2>4, <2>5
<1>8. ASSUME NEW a \in 1..Len(approvals'), NEW g \in given, g[1] = approvals'[a].name
      PROVE  Answered(approvals'[a], g)
  <2>1. PICK i \in I : approvals'[a] = approvals[i]
    BY <1>3
  <2>2. QED
    BY <1>8, <2>1 DEF ApprovalInv, RequestsOK
<1>9. NoneLost
  <2>1. ASSUME NEW i \in 1..Len(approvals), ~(approvals[i].expires_at <= regtime)
        PROVE  \E j \in 1..Len(approvals') : approvals'[j].name = approvals[i].name
    <3>1. approvals[i].expires_at \in Nat
      BY <1>0 DEF Request
    <3>2. i \in I
      BY <1>0, <1>1, <2>1, <3>1 DEF Live
    <3>3. QED
      BY <1>3, <1>4, <3>2
  <2>2. QED
    BY <2>1 DEF NoneLost
<1>10. Len(approvals') <= MaxEntries
  BY <1>0, <1>3, <1>6
<1>11. RequestsOK(approvals', given')
  BY <1>2, <1>3, <1>7, <1>8, <1>10 DEF RequestsOK
<1>12. QED
  BY <1>2, <1>9, <1>11 DEF ApprovalInv

LEMMA ApprovalInvStep ==
    ApprovalInv /\ [RegistriesNext]_registryVars => ApprovalInv' /\ NoneLost
<1> SUFFICES ASSUME ApprovalInv, [RegistriesNext]_registryVars PROVE ApprovalInv' /\ NoneLost
  OBVIOUS
<1>1. CASE UNCHANGED <<approvals, given>> /\ regtime' \in 0..MaxRegTime
  <2>1. RequestsOK(approvals', given')
    BY <1>1 DEF ApprovalInv
  <2>2. QED
    BY <1>1, <2>1 DEF ApprovalInv, NoneLost
<1>2. CASE RegistryClock
  BY <1>1, <1>2, RegistryNats DEF RegistryClock, ApprovalInv
<1>3. AuthNext \/ SkillsNext \/ InstancesNext \/ HealthNext \/ UNCHANGED registryVars
      => UNCHANGED approvalVars
  BY DEF AuthNext, SkillsNext, InstancesNext, HealthNext, auth_load, auth_save, auth_add_profile,
         auth_remove_profile, auth_set_active, skills_add, skills_remove, skills_enable,
         skills_execute, instance_register, instance_shutdown,
         health_register, health_register_checker, health_run_checks
<1>4. CASE UNCHANGED approvalVars
  BY <1>1, <1>4 DEF ApprovalInv
<1>5. CASE ApprovalsNext
  BY <1>2, <1>5, RequestKeeps, RespondKeeps, ClearKeeps DEF ApprovalsNext
<1>6. QED
  BY <1>3, <1>4, <1>5 DEF RegistriesNext

\* What AnswersStay says of a step.
Stays ==
    \A i \in DOMAIN approvals :
        LET r == approvals[i]
            now_at == SelectInSeq(approvals', LAMBDA x : x.name = r.name)
        IN  /\ now_at = 0 => r.expires_at <= regtime
            /\ now_at > 0 => \A g \in given' : g[1] = r.name =>
                  approvals'[now_at].status = IF g[2] THEN "approved" ELSE "denied"

LEMMA StaysInStep == ASSUME ApprovalInv, ApprovalInv', NoneLost PROVE Stays
<1>1. approvals \in Seq(Request) /\ approvals' \in Seq(Request) /\ DOMAIN approvals = 1..Len(approvals)
  BY DEF ApprovalInv, RequestsOK
<1>2. ASSUME NEW i \in 1..Len(approvals)
      PROVE  /\ FirstOf(approvals', approvals[i].name) = 0 => approvals[i].expires_at <= regtime
             /\ FirstOf(approvals', approvals[i].name) > 0 =>
                   \A g \in given' : g[1] = approvals[i].name =>
                      Answered(approvals'[FirstOf(approvals', approvals[i].name)], g)
  <2>1. PICK n : n = approvals[i].name
    OBVIOUS
  <2>2. CASE FirstOf(approvals', n) = 0
    <3>1. \A j \in 1..Len(approvals') : approvals'[j].name /= n
      BY <1>1, <2>2, FirstOfIs
    <3>2. QED
      BY <2>1, <2>2, <3>1 DEF NoneLost
  <2>3. CASE FirstOf(approvals', n) /= 0
    <3>1. PICK k \in 1..Len(approvals') : k = FirstOf(approvals', n) /\ approvals'[k].name = n
      BY <1>1, <2>3, FirstOfIs
    <3>2. \A g \in given' : g[1] = n => Answered(approvals'[k], g)
      BY <3>1 DEF ApprovalInv, RequestsOK
    <3>3. QED
      BY <2>1, <2>3, <3>1, <3>2
  <2>4. QED
    BY <2>1, <2>2, <2>3
<1>3. QED
  BY <1>1, <1>2 DEF Stays, FirstOf, Answered, SelectInSeq
-----------------------------------------------------------------------------
(* The health checks. *)

Check == [name : EntryNames, status : {"ok", "degraded"}, fresh : BOOLEAN]

\* Only the first entry of a name is ever updated.
HealthInv ==
    /\ checks \in Seq(Check) /\ Len(checks) <= MaxEntries
    /\ g_checkers \in Seq(EntryNames) /\ Len(g_checkers) <= MaxEntries
    /\ \A i \in 1..Len(checks) : checks[i].fresh =>
          /\ checks[i].status = measured[checks[i].name]
          /\ \A j \in 1..Len(checks) : j < i => checks[j].name /= checks[i].name

LEMMA HealthInvInit == RegistriesInit => HealthInv
<1> SUFFICES ASSUME RegistriesInit PROVE HealthInv
  OBVIOUS
<1>1. /\ checks = <<>> /\ checks \in Seq(Check) /\ Len(checks) = 0
      /\ g_checkers = <<>> /\ g_checkers \in Seq(EntryNames) /\ Len(g_checkers) = 0
  BY DEF RegistriesInit
<1>2. QED
  BY <1>1, RegistryNats DEF HealthInv

LEMMA RegisterCheckKeeps == ASSUME HealthInv, NEW n \in EntryNames, health_register(n) PROVE HealthInv'
<1>0. /\ checks \in Seq(Check) /\ Len(checks) \in Nat /\ MaxEntries \in Nat
  BY RegistryNats DEF HealthInv
<1>1. PICK e : e = [name |-> n, status |-> "ok", fresh |-> FALSE]
  OBVIOUS
<1>2. e \in Check /\ e.fresh = FALSE
  BY <1>1 DEF Check
<1>3. /\ Len(checks) < MaxEntries /\ checks' = Append(checks, e)
      /\ g_checkers' = g_checkers /\ measured' = measured
  BY <1>1 DEF health_register
<1>4. /\ checks' \in Seq(Check) /\ Len(checks') = Len(checks) + 1
      /\ checks'[Len(checks) + 1] = e
      /\ \A i \in 1..Len(checks) : checks'[i] = checks[i]
  <2>1. PICK p \in Seq(Check) : p = checks
    BY <1>0
  <2>2. /\ Append(p, e) \in Seq(Check) /\ Len(Append(p, e)) = Len(p) + 1
        /\ Append(p, e)[Len(p) + 1] = e /\ \A i \in 1..Len(p) : Append(p, e)[i] = p[i]
    BY <1>2, AppendProperties
  <2>3. QED
    BY <1>3, <2>1, <2>2
<1>5. \A i \in 1..Len(checks') : i \in 1..Len(checks) \/ i = Len(checks) + 1
  BY <1>0, <1>4
<1>6. ASSUME NEW i \in 1..Len(checks'), checks'[i].fresh
      PROVE  /\ checks'[i].status = measured'[checks'[i].name]
             /\ \A j \in 1..Len(checks') : j < i => checks'[j].name /= checks'[i].name
  <2>1. i \in 1..Len(checks) /\ checks'[i] = checks[i]
    BY <1>2, <1>4, <1>5, <1>6
  <2>2. ASSUME NEW j \in 1..Len(checks'), j < i PROVE j \in 1..Len(checks) /\ checks'[j] = checks[j]
    BY <1>0, <1>4, <2>1, <2>2
  <2>3. QED
    BY <1>3, <1>6, <2>1, <2>2 DEF HealthInv
<1>7. Len(checks') <= MaxEntries
  BY <1>0, <1>3, <1>4
<1>8. QED
  BY <1>3, <1>4, <1>6, <1>7 DEF HealthInv

LEMMA RunChecksKeeps == ASSUME HealthInv, health_run_checks PROVE HealthInv'
<1>0. /\ checks \in Seq(Check) /\ Len(checks) \in Nat /\ DOMAIN checks = 1..Len(checks)
      /\ \A i \in 1..Len(checks) : checks[i] \in Check
      /\ g_checkers \in Seq(EntryNames) /\ g_checkers' = g_checkers
  BY DEF HealthInv, health_run_checks
<1>1. PICK A : A = ToSet(g_checkers)
  OBVIOUS
<1>2. PICK found \in [A -> {"ok", "degraded"}] :
         /\ measured' = [n \in EntryNames |-> IF n \in A THEN found[n] ELSE measured[n]]
         /\ checks' = health_update(checks, found)
  BY <1>1 DEF health_run_checks
<1>3. checks' = [i \in 1..Len(checks) |->
                    IF checks[i].name \in A /\ FirstOf(checks, checks[i].name) = i
                    THEN [checks[i] EXCEPT !.status = found[checks[i].name], !.fresh = TRUE]
                    ELSE checks[i]]
  BY <1>0, <1>2 DEF health_update
<1>4. ASSUME NEW i \in 1..Len(checks), checks[i].name \in A
      PROVE  LET e == [checks[i] EXCEPT !.status = found[checks[i].name], !.fresh = TRUE]
             IN  e \in Check /\ e.name = checks[i].name /\ e.status = found[checks[i].name]
  <2>1. PICK c \in Check : c = checks[i]
    BY <1>0
  <2>2. PICK st \in {"ok", "degraded"} : st = found[c.name]
    BY <1>4, <2>1
  <2>3. /\ [c EXCEPT !.status = st, !.fresh = TRUE] \in Check
        /\ [c EXCEPT !.status = st, !.fresh = TRUE].name = c.name
        /\ [c EXCEPT !.status = st, !.fresh = TRUE].status = st
    BY DEF Check
  <2>4. QED
    BY <2>1, <2>2, <2>3
<1>5. checks' \in Seq(Check) /\ Len(checks') = Len(checks)
  <2>1. \A i \in 1..Len(checks) : checks'[i] \in Check
    BY <1>0, <1>3, <1>4
  <2>2. PICK m \in Nat : m = Len(checks)
    BY <1>0
  <2>3. checks' = [i \in 1..m |-> checks'[i]]
    BY <1>3, <2>2
  <2>4. QED
    BY <2>1, <2>2, <2>3
<1>6. \A i \in 1..Len(checks) : checks'[i].name = checks[i].name /\ checks[i].name \in EntryNames
  <2>1. TAKE i \in 1..Len(checks)
  <2>2. checks[i].name \in EntryNames
    BY <1>0 DEF Check
  <2>3. QED
    BY <1>3, <1>4, <2>2
<1>7. ASSUME NEW i \in 1..Len(checks), checks'[i].fresh
      PROVE  /\ checks'[i].status = measured'[checks[i].name]
             /\ \A j \in 1..Len(checks) : j < i => checks[j].name /= checks[i].name
  <2>1. PICK n \in EntryNames : n = checks[i].name
    BY <1>6
  <2>2. CASE n \in A /\ FirstOf(checks, n) = i
    <3>1. checks'[i].status = found[n]
      BY <1>3, <1>4, <2>1, <2>2
    <3>2. \A j \in 1..Len(checks) : checks[j].name = n => i <= j
      BY <1>0, <2>1, <2>2, FirstOfIs
    <3>3. \A j \in 1..Len(checks) : j < i => checks[j].name /= n
      BY <3>2
    <3>4. QED
      BY <1>2, <2>1, <2>2, <3>1, <3>3
  <2>3. CASE ~(n \in A /\ FirstOf(checks, n) = i)
    <3>1. checks'[i] = checks[i]
      BY <1>3, <2>1, <2>3
    <3>2. /\ checks[i].status = measured[n]
          /\ \A j \in 1..Len(checks) : j < i => checks[j].name /= n
      BY <1>7, <2>1, <3>1 DEF HealthInv
    <3>3. FirstOf(checks, n) = i
      BY <1>0, <2>1, <3>2, FirstOfFound
    <3>4. measured'[n] = measured[n]
      BY <1>2, <2>3, <3>3
    <3>5. QED
      BY <2>1, <3>1, <3>2, <3>4
  <2>4. QED
    BY <2>2, <2>3
<1>8. QED
  BY <1>0, <1>5, <1>6, <1>7 DEF HealthInv

LEMMA HealthInvStep == HealthInv /\ [RegistriesNext]_registryVars => HealthInv'
<1> SUFFICES ASSUME HealthInv, [RegistriesNext]_registryVars PROVE HealthInv'
  OBVIOUS
<1>1. CASE UNCHANGED healthVars
  BY <1>1 DEF HealthInv
<1>2. AuthNext \/ SkillsNext \/ InstancesNext \/ ApprovalsNext \/ UNCHANGED registryVars
      => UNCHANGED healthVars
  BY DEF AuthNext, SkillsNext, InstancesNext, ApprovalsNext, auth_load, auth_save, auth_add_profile,
         auth_remove_profile, auth_set_active, skills_add, skills_remove, skills_enable,
         skills_execute, instance_register, instance_shutdown, approval_request, approval_respond,
         approval_clear_expired, RegistryClock
<1>3. ASSUME NEW n \in EntryNames, health_register_checker(n) PROVE HealthInv'
  <2>1. /\ Len(g_checkers) < MaxEntries /\ g_checkers' = Append(g_checkers, n)
        /\ checks' = checks /\ measured' = measured
    BY <1>3 DEF health_register_checker
  <2>2. g_checkers' \in Seq(EntryNames) /\ Len(g_checkers') = Len(g_checkers) + 1
        /\ Len(g_checkers) \in Nat
    BY <2>1, AppendProperties DEF HealthInv
  <2>3. Len(g_checkers') <= MaxEntries
    BY <2>1, <2>2, RegistryNats
  <2>4. QED
    BY <2>1, <2>2, <2>3 DEF HealthInv
<1>4. QED
  BY <1>1, <1>2, <1>3, RegisterCheckKeeps, RunChecksKeeps DEF RegistriesNext, HealthNext
-----------------------------------------------------------------------------
RegistriesInv == AuthInv /\ SkillInv /\ InstanceInv /\ ApprovalInv /\ HealthInv

LEMMA RegistriesInvInit == RegistriesInit => RegistriesInv
  BY AuthInvInit, SkillInvInit, InstanceInvInit, ApprovalInvInit, HealthInvInit DEF RegistriesInv

LEMMA RegistriesInvStep ==
    RegistriesInv /\ [RegistriesNext]_registryVars
    => /\ RegistriesInv'
       /\ executed' /= executed => executed' \notin banned'
       /\ Stays
<1> SUFFICES ASSUME RegistriesInv, [RegistriesNext]_registryVars
             PROVE  /\ RegistriesInv'
                    /\ executed' /= executed => executed' \notin banned'
                    /\ Stays
  OBVIOUS
<1>1. AuthInv /\ SkillInv /\ InstanceInv /\ ApprovalInv /\ HealthInv
  BY DEF RegistriesInv
<1>2. AuthInv' /\ SkillInv' /\ InstanceInv' /\ ApprovalInv' /\ HealthInv' /\ NoneLost
  BY <1>1, AuthInvStep, SkillInvStep, InstanceInvStep, ApprovalInvStep, HealthInvStep
<1>3. Stays
  BY <1>1, <1>2, StaysInStep
<1>4. executed' /= executed => executed' \notin banned'
  BY <1>1, SkillInvStep
<1>5. QED
  BY <1>2, <1>3, <1>4 DEF RegistriesInv

LEMMA RegistriesInvHolds == RegistriesInv => RegistriesTypeOK /\ RegistriesFaithful
<1> SUFFICES ASSUME RegistriesInv PROVE RegistriesTypeOK /\ RegistriesFaithful
  OBVIOUS
<1>1. AuthInv /\ SkillInv /\ InstanceInv /\ ApprovalInv /\ HealthInv
  BY DEF RegistriesInv
<1>2. RegistriesTypeOK
  <2>1. /\ Len(profiles) <= MaxEntries /\ Len(skills) <= MaxEntries /\ Len(instances) <= MaxEntries
        /\ Len(approvals) <= MaxEntries /\ Len(checks) <= MaxEntries
        /\ Len(g_checkers) <= MaxEntries /\ regtime \in 0..MaxRegTime
    BY <1>1 DEF AuthInv, SkillInv, InstanceInv, ApprovalInv, RequestsOK, HealthInv
  <2>2. QED
    BY <2>1 DEF RegistriesTypeOK
<1>3. HealthIsMeasured
  <2>1. checks \in Seq(Check) /\ DOMAIN checks = 1..Len(checks)
    BY <1>1 DEF HealthInv
  <2>2. QED
    BY <1>1, <2>1 DEF HealthInv, HealthIsMeasured
<1>4. OneActive /\ InstanceIsCurrent
  BY <1>1, InstanceInvCurrent DEF AuthInv
<1>5. QED
  BY <1>2, <1>3, <1>4 DEF RegistriesFaithful

\* Names, sizes and clocks of any kind: one profile is active and it is the one
\* that is saved, workers get the last configuration of an instance, a health
\* status is what its checker found, and no table overflows.
THEOREM RegistriesCorrect == RegistriesSpec => [](RegistriesTypeOK /\ RegistriesFaithful)
<1>1. RegistriesInv /\ [RegistriesNext]_registryVars => RegistriesInv'
  BY RegistriesInvStep
<1>2. QED
  BY <1>1, RegistriesInvInit, RegistriesInvHolds, PTL DEF RegistriesSpec

\* A disabled skill does not run, whatever is added, removed and enabled between.
THEOREM DisabledStaysOff == RegistriesSpec => DisabledNeverRuns
<1>1. RegistriesInv /\ [RegistriesNext]_registryVars => RegistriesInv'
  BY RegistriesInvStep
<1>2. RegistriesInv /\ [RegistriesNext]_registryVars
      => [executed' /= executed => executed' \notin banned']_skillVars
  BY RegistriesInvStep
<1>3. QED
  BY <1>1, <1>2, RegistriesInvInit, PTL DEF RegistriesSpec, DisabledNeverRuns

\* An answer stays with its request, and a request is there until it expires.
THEOREM AnswersStayWithRequests == RegistriesSpec => AnswersStay
<1>1. RegistriesInv /\ [RegistriesNext]_registryVars => RegistriesInv'
  BY RegistriesInvStep
<1>2. RegistriesInv /\ [RegistriesNext]_registryVars => [Stays]_approvalVars
  BY RegistriesInvStep
<1>3. AnswersStay <=> [][Stays]_approvalVars
  BY DEF AnswersStay, Stays
<1>4. QED
  BY <1>1, <1>2, <1>3, RegistriesInvInit, PTL DEF RegistriesSpec
-----------------------------------------------------------------------------
(* The search. *)

\* Induction up to a bound, over a set in place of a property.
LEMMA InductionTo ==
    ASSUME NEW N \in Nat, NEW Good, 0 \in Good, \A j \in 1..N : j - 1 \in Good => j \in Good
    PROVE  \A j \in 0..N : j \in Good
<1> SUFFICES ASSUME NEW b \in 0..N, b \notin Good PROVE FALSE
  OBVIOUS
<1>1. PICK Bad : Bad = {j \in 0..N : j \notin Good}
  OBVIOUS
<1>2. Bad \subseteq Nat /\ Bad /= {}
  BY <1>1
<1>3. PICK m \in Bad : \A x \in Bad : m <= x
  BY <1>2, MinOfNats
<1>4. m \in 1..N /\ m \notin Good
  BY <1>1, <1>3
<1>5. m - 1 \in 0..N /\ m - 1 \notin Bad
  BY <1>3, <1>4
<1>6. QED
  BY <1>1, <1>4, <1>5

Doc == [index : Nat, score : Similarities, has_embedding : BOOLEAN]

LEMMA RagNats ==
    /\ Similarities \subseteq Int /\ MaxChunks \in Nat /\ MaxPieces \in Nat /\ MaxPieces > 0
    /\ TopK \in Nat /\ Overlap \in Nat /\ MaxText \in Nat
    /\ \A c \in ChunkSizes : c \in Nat /\ c > 0
  BY RagAssumption

\* u holds the documents E of t, each of them once.
Arranged(u, t, E) ==
    /\ u \in Seq(Doc)
    /\ \A k \in 1..Len(u) : u[k].index \in E /\ u[k] = t[u[k].index]
    /\ \A a, b \in 1..Len(u) : u[a].index = u[b].index => a = b
    /\ \A d \in E : \E k \in 1..Len(u) : u[k].index = d

\* The first i of them are the best, in their order.
Best(u, i) == \A a \in 1..i : \A b \in 1..Len(u) : a < b => u[a].score >= u[b].score

\* The i-th is not worse than those up to the j-th.
Leads(u, i, j) == \A b \in i..j : u[i].score >= u[b].score

\* One comparison of the inner loop.
LEMMA ExchangedKeeps ==
    ASSUME NEW t \in Seq(Doc), NEW all, NEW E, NEW u, Arranged(u, all, E), Len(u) = Len(t),
           NEW i \in 1..Len(t), NEW j \in 1..Len(t), i < j,
           Best(u, i - 1), Leads(u, i, j - 1)
    PROVE  LET v == Exchanged(u, i, j)
           IN  Arranged(v, all, E) /\ Len(v) = Len(t) /\ Best(v, i - 1) /\ Leads(v, i, j)
<1>0. /\ u \in Seq(Doc) /\ Len(t) \in Nat
      /\ \A k \in 1..Len(u) : u[k] \in Doc /\ u[k].score \in Int
      /\ i \in 1..Len(u) /\ j \in 1..Len(u)
  <2>1. u \in Seq(Doc) /\ Len(t) \in Nat /\ \A k \in 1..Len(u) : u[k] \in Doc
    BY DEF Arranged
  <2>2. \A d \in Doc : d.score \in Int
    BY RagNats DEF Doc
  <2>3. QED
    BY <2>1, <2>2
<1>1. CASE ~(u[j].score > u[i].score)
  <2>1. PICK v : v = Exchanged(u, i, j)
    OBVIOUS
  <2>2. v = u
    BY <1>1, <2>1 DEF Exchanged
  <2>3. Leads(u, i, j)
    <3>1. SUFFICES ASSUME NEW b \in i..j PROVE u[i].score >= u[b].score
      BY DEF Leads
    <3>2. CASE b = j
      BY <1>0, <1>1, <3>2
    <3>3. CASE b \in i..j - 1
      BY <3>3 DEF Leads
    <3>4. QED
      BY <3>2, <3>3
  <2>4. QED
    BY <2>1, <2>2, <2>3
<1>2. CASE u[j].score > u[i].score
  <2>1. PICK v : v = Exchanged(u, i, j)
    OBVIOUS
  <2>2. v = [u EXCEPT ![i] = u[j], ![j] = u[i]]
    BY <1>2, <2>1 DEF Exchanged
  <2>3. /\ v \in Seq(Doc) /\ Len(v) = Len(u) /\ v[i] = u[j] /\ v[j] = u[i]
        /\ \A k \in 1..Len(u) : k /= i /\ k /= j => v[k] = u[k]
    BY <1>0, <2>2
  <2>4. Arranged(v, all, E)
    <3>1. \A k \in 1..Len(u) : \E l \in 1..Len(u) :
             /\ v[k] = u[l] /\ l = IF k = i THEN j ELSE IF k = j THEN i ELSE k
      BY <1>0, <2>3
    <3>2. \A l \in 1..Len(u) : \E k \in 1..Len(u) : v[k] = u[l]
      BY <1>0, <2>3
    <3>3. \A k \in 1..Len(u) : v[k].index \in E /\ v[k] = all[v[k].index]
      <4>1. TAKE k \in 1..Len(u)
      <4>2. PICK l \in 1..Len(u) : v[k] = u[l]
        BY <3>1
      <4>3. u[l].index \in E /\ u[l] = all[u[l].index]
        BY DEF Arranged
      <4>4. QED
        BY <4>2, <4>3, Zenon
    <3>4. \A a, b \in 1..Len(u) : v[a].index = v[b].index => a = b
      <4>1. TAKE a, b \in 1..Len(u)
      <4>2. HAVE v[a].index = v[b].index
      <4>3. PICK l \in 1..Len(u) : /\ v[a] = u[l] /\ l = IF a = i THEN j ELSE IF a = j THEN i ELSE a
        BY <3>1
      <4>4. PICK m \in 1..Len(u) : /\ v[b] = u[m] /\ m = IF b = i THEN j ELSE IF b = j THEN i ELSE b
        BY <3>1
      <4>5. l = m
        BY <4>2, <4>3, <4>4 DEF Arranged
      <4>6. QED
        BY <4>3, <4>4, <4>5
    <3>5. \A d \in E : \E k \in 1..Len(u) : v[k].index = d
      <4>1. TAKE d \in E
      <4>2. PICK l \in 1..Len(u) : u[l].index = d
        BY DEF Arranged
      <4>3. PICK k \in 1..Len(u) : v[k] = u[l]
        BY <3>2
      <4>4. QED
        BY <4>2, <4>3, Zenon
    <3>6. QED
      BY <2>3, <3>3, <3>4, <3>5 DEF Arranged
  <2>5. Best(v, i - 1)
    <3>1. SUFFICES ASSUME NEW a \in 1..i - 1, NEW b \in 1..Len(v), a < b PROVE v[a].score >= v[b].score
      BY DEF Best
    <3>2. a \in 1..Len(u) /\ a /= i /\ a /= j /\ a < i /\ a < j
      BY <1>0
    <3>3. v[a] = u[a]
      BY <2>3, <3>2
    <3>4. \A c \in 1..Len(u) : a < c => u[a].score >= u[c].score
      BY DEF Best
    <3>5. PICK l \in 1..Len(u) : v[b] = u[l] /\ a < l
      BY <1>0, <2>3, <3>1, <3>2
    <3>6. QED
      BY <3>3, <3>4, <3>5
  <2>6. Leads(v, i, j)
    <3>1. SUFFICES ASSUME NEW b \in i..j PROVE v[i].score >= v[b].score
      BY DEF Leads
    <3>2. u[j].score \in Int /\ u[i].score \in Int
      BY <1>0
    <3>3. CASE b = i
      BY <2>3, <3>2, <3>3
    <3>4. CASE b = j
      BY <1>2, <2>3, <3>2, <3>4
    <3>5. CASE b /= i /\ b /= j
      <4>1. b \in i..j - 1 /\ b \in 1..Len(u)
        BY <1>0, <3>5
      <4>2. u[i].score >= u[b].score /\ v[b] = u[b] /\ u[b].score \in Int
        BY <1>0, <2>3, <3>5, <4>1 DEF Leads
      <4>3. QED
        BY <1>2, <2>3, <3>2, <4>2
    <3>6. QED
      BY <3>3, <3>4, <3>5
  <2>7. QED
    BY <1>0, <2>1, <2>3, <2>4, <2>5, <2>6
<1>3. QED
  BY <1>1, <1>2

\* The arrays of the loops, after each of n rounds.
Inner(f, t, i, n) == f = [k \in 0..n |-> IF k = 0 THEN t ELSE Exchanged(f[k - 1], i, i + k)]
Outer(f, t, n) == f = [i \in 0..n |-> IF i = 0 THEN t ELSE Pass(f[i - 1], i)]

LEMMA InnerLoop == ASSUME NEW t, NEW i, NEW N \in Nat PROVE \E f : Inner(f, t, i, N)
<1>1. PICK Good : Good = {n \in 0..N : \E f : Inner(f, t, i, n)}
  OBVIOUS
<1>2. 0 \in Good
  <2>1. PICK f : f = [k \in 0..0 |-> t]
    OBVIOUS
  <2>2. Inner(f, t, i, 0)
    BY <2>1 DEF Inner
  <2>3. QED
    BY <1>1, <2>2
<1>3. ASSUME NEW n \in 1..N, n - 1 \in Good PROVE n \in Good
  <2>1. PICK f : f = [k \in 0..n - 1 |-> IF k = 0 THEN t ELSE Exchanged(f[k - 1], i, i + k)]
    BY <1>1, <1>3 DEF Inner
  <2>2. PICK h : h = [k \in 0..n |-> IF k = n THEN Exchanged(f[n - 1], i, i + n) ELSE f[k]]
    OBVIOUS
  <2>3. \A k \in 0..n : h[k] = IF k = 0 THEN t ELSE Exchanged(h[k - 1], i, i + k)
    <3>1. TAKE k \in 0..n
    <3>2. CASE k = n
      <4>1. n /= 0 /\ n - 1 \in 0..n /\ n - 1 /= n /\ n \in 0..n
        OBVIOUS
      <4>2. h[n - 1] = f[n - 1] /\ h[n] = Exchanged(f[n - 1], i, i + n)
        BY <2>2, <4>1
      <4>3. QED
        BY <3>2, <4>1, <4>2
    <3>3. CASE k = 0
      BY <2>1, <2>2, <3>3
    <3>4. CASE k /= n /\ k /= 0
      <4>1. k \in 0..n - 1 /\ k - 1 \in 0..n /\ k - 1 /= n
        BY <3>4
      <4>2. h[k] = f[k] /\ h[k - 1] = f[k - 1]
        BY <2>2, <3>4, <4>1
      <4>3. f[k] = Exchanged(f[k - 1], i, i + k)
        BY <2>1, <3>4, <4>1
      <4>4. QED
        BY <3>4, <4>2, <4>3
    <3>5. QED
      BY <3>2, <3>3, <3>4
  <2>4. Inner(h, t, i, n)
    BY <2>2, <2>3 DEF Inner
  <2>5. QED
    BY <1>1, <2>4
<1>4. N \in Good
  BY <1>2, <1>3, InductionTo
<1>5. QED
  BY <1>1, <1>4

LEMMA PassIs ==
    ASSUME NEW t \in Seq(Doc), NEW i \in 1..Len(t)
    PROVE  \E u : /\ u = [k \in 0..Len(t) - i |-> IF k = 0 THEN t ELSE Exchanged(u[k - 1], i, i + k)]
                  /\ Pass(t, i) = u[Len(t) - i]
<1>1. PICK N \in Nat : N = Len(t) - i
  OBVIOUS
<1>2. \E f : Inner(f, t, i, Len(t) - i)
  BY <1>1, InnerLoop
<1>3. QED
  BY <1>2, Zenon DEF Pass, Inner

\* The inner loop puts the best of the rest in the i-th place.
LEMMA PassKeeps ==
    ASSUME NEW t \in Seq(Doc), NEW all, NEW E, NEW w, Arranged(w, all, E), Len(w) = Len(t), NEW i \in 1..Len(t),
           Best(w, i - 1)
    PROVE  Arranged(Pass(w, i), all, E) /\ Len(Pass(w, i)) = Len(t) /\ Best(Pass(w, i), i)
<1>0. w \in Seq(Doc) /\ Len(t) \in Nat
  BY DEF Arranged
<1>1. PICK N \in Nat : N = Len(t) - i /\ N = Len(w) - i
  BY <1>0
<1>2. PICK u : /\ u = [k \in 0..N |-> IF k = 0 THEN w ELSE Exchanged(u[k - 1], i, i + k)]
               /\ Pass(w, i) = u[N]
  <2>1. i \in 1..Len(w)
    OBVIOUS
  <2>2. \E u : /\ u = [k \in 0..Len(w) - i |-> IF k = 0 THEN w ELSE Exchanged(u[k - 1], i, i + k)]
               /\ Pass(w, i) = u[Len(w) - i]
    BY <1>0, <2>1, PassIs
  <2>3. QED
    BY <1>1, <2>2
<1>3. PICK Good : Good = {k \in 0..N : /\ Arranged(u[k], all, E) /\ Len(u[k]) = Len(t)
                                       /\ Best(u[k], i - 1) /\ Leads(u[k], i, i + k)}
  OBVIOUS
<1>4. 0 \in Good
  <2>1. u[0] = w /\ 0 \in 0..N
    BY <1>2
  <2>2. w[i].score \in Int
    <3>1. w[i] \in Doc
      BY <1>0
    <3>2. QED
      BY <3>1, RagNats DEF Doc
  <2>3. Leads(w, i, i + 0)
    <3>1. SUFFICES ASSUME NEW b \in i..i + 0 PROVE w[i].score >= w[b].score
      BY DEF Leads
    <3>2. b = i
      OBVIOUS
    <3>3. QED
      BY <2>2, <3>2
  <2>4. QED
    BY <1>3, <2>1, <2>3
<1>5. ASSUME NEW k \in 1..N, k - 1 \in Good PROVE k \in Good
  <2>1. PICK v : v = u[k - 1]
    OBVIOUS
  <2>2. Arranged(v, all, E) /\ Len(v) = Len(t) /\ Best(v, i - 1) /\ Leads(v, i, i + (k - 1))
    BY <1>3, <1>5, <2>1
  <2>3. u[k] = Exchanged(v, i, i + k)
    BY <1>2, <2>1
  <2>4. PICK j \in 1..Len(t) : j = i + k
    BY <1>0, <1>1
  <2>5. i < j /\ j - 1 = i + (k - 1)
    BY <1>0, <2>4
  <2>6. Leads(v, i, j - 1)
    BY <2>2, <2>5
  <2>7. LET x == Exchanged(v, i, j)
        IN  Arranged(x, all, E) /\ Len(x) = Len(t) /\ Best(x, i - 1) /\ Leads(x, i, j)
    BY <2>2, <2>5, <2>6, ExchangedKeeps
  <2>8. k \in 0..N
    OBVIOUS
  <2>9. QED
    BY <1>3, <2>3, <2>4, <2>7, <2>8
<1>6. N \in Good
  <2>1. \A k \in 0..N : k \in Good
    BY <1>4, <1>5, InductionTo, Zenon
  <2>2. QED
    BY <2>1
<1>7. PICK p : p = Pass(w, i)
  OBVIOUS
<1>8. Arranged(p, all, E) /\ Len(p) = Len(t) /\ Best(p, i - 1) /\ Leads(p, i, Len(t))
  <2>1. i + N = Len(t)
    BY <1>0, <1>1
  <2>2. QED
    BY <1>2, <1>3, <1>6, <1>7, <2>1
<1>9. Best(p, i)
  <2>1. SUFFICES ASSUME NEW a \in 1..i, NEW b \in 1..Len(p), a < b PROVE p[a].score >= p[b].score
    BY DEF Best
  <2>2. CASE a = i
    <3>1. b \in i..Len(t)
      BY <1>0, <1>8, <2>1, <2>2
    <3>2. QED
      BY <1>8, <2>2, <3>1 DEF Leads
  <2>3. CASE a \in 1..i - 1
    BY <1>8, <2>1, <2>3 DEF Best
  <2>4. QED
    BY <2>2, <2>3
<1>10. QED
  BY <1>7, <1>8, <1>9

LEMMA OuterLoop == ASSUME NEW t, NEW N \in Nat PROVE \E f : Outer(f, t, N)
<1>1. PICK Good : Good = {n \in 0..N : \E f : Outer(f, t, n)}
  OBVIOUS
<1>2. 0 \in Good
  <2>1. PICK f : f = [i \in 0..0 |-> t]
    OBVIOUS
  <2>2. Outer(f, t, 0)
    BY <2>1 DEF Outer
  <2>3. QED
    BY <1>1, <2>2
<1>3. ASSUME NEW n \in 1..N, n - 1 \in Good PROVE n \in Good
  <2>1. PICK f : f = [i \in 0..n - 1 |-> IF i = 0 THEN t ELSE Pass(f[i - 1], i)]
    BY <1>1, <1>3 DEF Outer
  <2>2. PICK h : h = [i \in 0..n |-> IF i = n THEN Pass(f[n - 1], n) ELSE f[i]]
    OBVIOUS
  <2>3. \A i \in 0..n : h[i] = IF i = 0 THEN t ELSE Pass(h[i - 1], i)
    <3>1. TAKE i \in 0..n
    <3>2. CASE i = n
      <4>1. n /= 0 /\ n - 1 \in 0..n /\ n - 1 /= n /\ n \in 0..n
        OBVIOUS
      <4>2. h[n - 1] = f[n - 1] /\ h[n] = Pass(f[n - 1], n)
        BY <2>2, <4>1
      <4>3. QED
        BY <3>2, <4>1, <4>2
    <3>3. CASE i = 0
      BY <2>1, <2>2, <3>3
    <3>4. CASE i /= n /\ i /= 0
      <4>1. i \in 0..n - 1 /\ i - 1 \in 0..n /\ i - 1 /= n
        BY <3>4
      <4>2. h[i] = f[i] /\ h[i - 1] = f[i - 1]
        BY <2>2, <3>4, <4>1
      <4>3. f[i] = Pass(f[i - 1], i)
        BY <2>1, <3>4, <4>1
      <4>4. QED
        BY <3>4, <4>2, <4>3
    <3>5. QED
      BY <3>2, <3>3, <3>4
  <2>4. Outer(h, t, n)
    BY <2>2, <2>3 DEF Outer
  <2>5. QED
    BY <1>1, <2>4
<1>4. N \in Good
  BY <1>2, <1>3, InductionTo
<1>5. QED
  BY <1>1, <1>4

\* The exchanges of rag_index_search sort: all documents, in their order.
LEMMA ArrangeSorts ==
    ASSUME NEW t \in Seq(Doc), NEW all, NEW E, Arranged(t, all, E)
    PROVE  Arranged(Arrange(t), all, E) /\ Len(Arrange(t)) = Len(t) /\ Best(Arrange(t), Len(t))
<1>1. PICK N \in Nat : N = Len(t)
  OBVIOUS
<1>2. PICK u : u = [i \in 0..N |-> IF i = 0 THEN t ELSE Pass(u[i - 1], i)] /\ Arrange(t) = u[N]
  <2>1. \E f : Outer(f, t, Len(t))
    BY <1>1, OuterLoop
  <2>2. \E u : u = [i \in 0..Len(t) |-> IF i = 0 THEN t ELSE Pass(u[i - 1], i)] /\ Arrange(t) = u[Len(t)]
    BY <2>1, Zenon DEF Arrange, Outer
  <2>3. QED
    BY <1>1, <2>2
<1>3. PICK Good : Good = {k \in 0..N : Arranged(u[k], all, E) /\ Len(u[k]) = Len(t) /\ Best(u[k], k)}
  OBVIOUS
<1>4. 0 \in Good
  <2>1. u[0] = t /\ 0 \in 0..N
    BY <1>2
  <2>2. Arranged(t, all, E)
    OBVIOUS
  <2>3. Best(t, 0)
    BY DEF Best
  <2>4. QED
    BY <1>3, <2>1, <2>2, <2>3
<1>5. ASSUME NEW k \in 1..N, k - 1 \in Good PROVE k \in Good
  <2>1. PICK w : w = u[k - 1]
    OBVIOUS
  <2>2. Arranged(w, all, E) /\ Len(w) = Len(t) /\ Best(w, k - 1)
    BY <1>3, <1>5, <2>1
  <2>3. u[k] = Pass(w, k) /\ k \in 1..Len(t) /\ k \in 0..N
    BY <1>1, <1>2, <2>1
  <2>4. Arranged(Pass(w, k), all, E) /\ Len(Pass(w, k)) = Len(t) /\ Best(Pass(w, k), k)
    BY <2>2, <2>3, PassKeeps
  <2>5. QED
    BY <1>3, <2>3, <2>4
<1>6. N \in Good
  <2>1. \A k \in 0..N : k \in Good
    BY <1>4, <1>5, InductionTo, Zenon
  <2>2. QED
    BY <2>1
<1>7. QED
  BY <1>1, <1>2, <1>3, <1>6

\* What was found is the beginning of the sorted array; documents are only added
\* behind those that were sorted.
SearchInv ==
    /\ idx \in Seq(Doc) /\ Len(idx) <= MaxChunks /\ \A i \in 1..Len(idx) : idx[i].index = i
    /\ scanned \in 0..Len(idx)
    /\ Arranged(scores, idx, Embeddings(scanned)) /\ Best(scores, Len(scores))
    /\ result \in Seq(Doc) /\ Len(result) <= TopK /\ Len(result) <= Len(scores)
    /\ \A i \in 1..Len(result) : result[i] = scores[i]

LEMMA SearchInvInit == RagInit => SearchInv
<1> SUFFICES ASSUME RagInit PROVE SearchInv
  OBVIOUS
<1>1. /\ idx = <<>> /\ idx \in Seq(Doc) /\ Len(idx) = 0 /\ scanned = 0
      /\ scores = <<>> /\ scores \in Seq(Doc) /\ Len(scores) = 0
      /\ result = <<>> /\ result \in Seq(Doc) /\ Len(result) = 0
  BY DEF RagInit
<1>2. Arranged(scores, idx, Embeddings(scanned)) /\ Best(scores, Len(scores))
  BY <1>1 DEF Arranged, Best, Embeddings
<1>3. QED
  BY <1>1, <1>2, RagNats DEF SearchInv

LEMMA FillKeepsSearch == ASSUME SearchInv, NEW h \in BOOLEAN, Filled(h) PROVE SearchInv'
<1>0. /\ idx \in Seq(Doc) /\ Len(idx) \in Nat /\ \A i \in 1..Len(idx) : idx[i].index = i
      /\ MaxChunks \in Nat /\ Arranged(scores, idx, Embeddings(scanned)) /\ Best(scores, Len(scores))
      /\ scores' = scores /\ result' = result /\ scanned' = scanned /\ scanned \in 0..Len(idx)
  BY RagNats DEF SearchInv, Filled
<1>1. PICK s \in Similarities :
         idx' = Append(idx, [index |-> Len(idx) + 1, score |-> s, has_embedding |-> h])
  BY DEF Filled
<1>2. PICK d : d = [index |-> Len(idx) + 1, score |-> s, has_embedding |-> h]
  OBVIOUS
<1>3. d \in Doc /\ d.index = Len(idx) + 1
  BY <1>0, <1>2 DEF Doc
<1>4. /\ idx' \in Seq(Doc) /\ Len(idx') = Len(idx) + 1 /\ idx'[Len(idx) + 1] = d
      /\ \A i \in 1..Len(idx) : idx'[i] = idx[i]
  <2>1. PICK p \in Seq(Doc) : p = idx
    BY <1>0
  <2>2. /\ Append(p, d) \in Seq(Doc) /\ Len(Append(p, d)) = Len(p) + 1
        /\ Append(p, d)[Len(p) + 1] = d /\ \A i \in 1..Len(p) : Append(p, d)[i] = p[i]
    BY <1>3, AppendProperties
  <2>3. QED
    BY <1>1, <1>2, <2>1, <2>2
<1>5. Len(idx') <= MaxChunks
  <2>1. PICK n \in Nat : n = Len(idx) /\ n < MaxChunks
    BY <1>0 DEF Filled
  <2>2. Len(idx') = n + 1
    BY <1>4, <2>1
  <2>3. QED
    BY <1>0, <2>1, <2>2
<1>6. \A i \in 1..Len(idx') : idx'[i].index = i
  <2>1. TAKE i \in 1..Len(idx')
  <2>2. CASE i \in 1..Len(idx)
    BY <1>0, <1>4, <2>2
  <2>3. CASE i = Len(idx) + 1
    BY <1>3, <1>4, <2>3
  <2>4. QED
    BY <1>0, <1>4, <2>2, <2>3
<1>7. Arranged(scores, idx', Embeddings(scanned)')
  <2>1. \A i \in 1..scanned : i \in 1..Len(idx) /\ idx'[i] = idx[i]
    BY <1>0, <1>4
  <2>2. PICK E : E = Embeddings(scanned) /\ E = Embeddings(scanned)' /\ E \subseteq 1..scanned
    <3>1. Embeddings(scanned)' = {i \in 1..scanned : idx'[i].has_embedding}
      BY <1>0 DEF Embeddings
    <3>2. {i \in 1..scanned : idx'[i].has_embedding} = {i \in 1..scanned : idx[i].has_embedding}
      BY <2>1
    <3>3. QED
      BY <3>1, <3>2 DEF Embeddings
  <2>3. Arranged(scores, idx, E)
    BY <1>0, <2>2
  <2>4. ASSUME NEW k \in 1..Len(scores)
        PROVE  scores[k].index \in E /\ scores[k] = idx'[scores[k].index]
    <3>1. scores[k].index \in E /\ scores[k] = idx[scores[k].index]
      BY <2>3 DEF Arranged
    <3>2. QED
      BY <2>1, <2>2, <3>1
  <2>5. Arranged(scores, idx', E)
    BY <2>3, <2>4 DEF Arranged
  <2>6. QED
    BY <2>2, <2>5
<1>8. scanned \in 0..Len(idx')
  BY <1>0, <1>4
<1>9. QED
  BY <1>0, <1>4, <1>5, <1>6, <1>7, <1>8 DEF SearchInv

LEMMA FindKeepsSearch == ASSUME SearchInv, rag_index_search PROVE SearchInv'
<1>0. /\ idx \in Seq(Doc) /\ Len(idx) \in Nat /\ \A i \in 1..Len(idx) : idx[i].index = i
      /\ TopK \in Nat /\ idx' = idx /\ scanned' = Len(idx)
  BY RagNats DEF SearchInv, rag_index_search
<1>1. PICK E : E = Embeddings(Len(idx)) /\ E \in SUBSET (1..Len(idx)) /\ E = Embeddings(scanned)'
  BY <1>0 DEF Embeddings
<1>2. PICK t : t = Picked(idx, E)
  OBVIOUS
<1>3. t \in Seq(Doc) /\ Arranged(t, idx, E)
  <2>1. /\ Cardinality(E) \in Nat /\ t \in Seq(Doc) /\ Len(t) = Cardinality(E)
        /\ \A j \in 1..Cardinality(E) : \E i \in E : i = Nth(E, j) /\ t[j] = idx[i]
        /\ \A i \in E : \E j \in 1..Cardinality(E) : j = Rank(E, i) /\ t[j] = idx[i]
    <3>1. PICK s \in Seq(Doc) : s = idx
      BY <1>0
    <3>2. E \in SUBSET (1..Len(s))
      BY <1>1, <3>1
    <3>3. QED
      BY <1>2, <3>1, <3>2, PickedProperties
  <2>2. \A j \in 1..Cardinality(E) : Rank(E, Nth(E, j)) = j
    <3>1. PICK n \in Nat : n = Len(idx) /\ E \subseteq 1..n
      BY <1>0, <1>1
    <3>2. QED
      BY <3>1, NthProperties
  <2>3. ASSUME NEW k \in 1..Len(t) PROVE t[k].index \in E /\ t[k] = idx[t[k].index] /\ t[k].index = Nth(E, k)
    <3>1. PICK i \in E : i = Nth(E, k) /\ t[k] = idx[i]
      BY <2>1
    <3>2. idx[i].index = i
      BY <1>0, <1>1
    <3>3. QED
      BY <3>1, <3>2
  <2>4. \A a, b \in 1..Len(t) : t[a].index = t[b].index => a = b
    BY <2>1, <2>2, <2>3
  <2>5. ASSUME NEW d \in E PROVE \E k \in 1..Len(t) : t[k].index = d
    <3>1. PICK j \in 1..Len(t) : t[j] = idx[d]
      BY <2>1
    <3>2. idx[d].index = d
      BY <1>0, <1>1
    <3>3. QED
      BY <3>1, <3>2
  <2>6. QED
    BY <2>1, <2>3, <2>4, <2>5 DEF Arranged
<1>4. /\ scores' = Arrange(t)
      /\ result' = [i \in 1..IF TopK < Len(t) THEN TopK ELSE Len(t) |-> scores'[i]]
  BY <1>1, <1>2 DEF rag_index_search
<1>5. Arranged(scores', idx, E) /\ Len(scores') = Len(t) /\ Best(scores', Len(scores'))
  BY <1>3, <1>4, ArrangeSorts
<1>6. PICK n \in Nat : n = IF TopK < Len(t) THEN TopK ELSE Len(t)
  BY <1>0, <1>3
<1>7. result' = [i \in 1..n |-> scores'[i]] /\ n <= TopK /\ n <= Len(scores')
  <2>1. PICK l \in Nat : l = Len(t)
    BY <1>3
  <2>2. QED
    BY <1>0, <1>4, <1>5, <1>6, <2>1
<1>8. PICK v \in Seq(Doc) : v = scores'
  BY <1>5 DEF Arranged
<1>9. PICK r : r = [i \in 1..n |-> v[i]]
  OBVIOUS
<1>10. r \in Seq(Doc) /\ Len(r) = n /\ \A i \in 1..n : r[i] = v[i]
  BY <1>7, <1>8, <1>9
<1>11. Arranged(scores', idx', Embeddings(scanned)') /\ scanned' \in 0..Len(idx')
  BY <1>0, <1>1, <1>5
<1>12. Len(idx') <= MaxChunks
  BY <1>0 DEF SearchInv
<1>13. QED
  BY <1>0, <1>5, <1>7, <1>8, <1>9, <1>10, <1>11, <1>12 DEF SearchInv

LEMMA SearchInvHolds == SearchInv => SearchIsTopK
<1> SUFFICES ASSUME SearchInv PROVE SearchIsTopK
  OBVIOUS
<1>0. /\ Arranged(scores, idx, Embeddings(scanned)) /\ Best(scores, Len(scores)) /\ scores \in Seq(Doc)
      /\ result \in Seq(Doc) /\ Len(result) \in Nat /\ Len(scores) \in Nat
      /\ Len(result) <= Len(scores) /\ \A i \in 1..Len(result) : result[i] = scores[i]
      /\ DOMAIN scores = 1..Len(scores) /\ DOMAIN result = 1..Len(result)
      /\ \A i \in 1..Len(result) : i \in 1..Len(scores)
  BY DEF SearchInv, Arranged
<1>1. PICK shown : shown = {result[i].index : i \in 1..Len(result)}
  OBVIOUS
<1>2. {scores[i].index : i \in 1..Len(scores)} = Embeddings(scanned)
  <2>1. \A d \in Embeddings(scanned) : \E k \in 1..Len(scores) : scores[k].index = d
    BY <1>0 DEF Arranged
  <2>2. \A k \in 1..Len(scores) : scores[k].index \in Embeddings(scanned)
    BY <1>0 DEF Arranged
  <2>3. QED
    BY <2>1, <2>2
<1>3. \A i \in 1..Len(scores) : scores[i] = idx[scores[i].index]
  BY <1>0 DEF Arranged
<1>4. Cardinality(shown) = Len(result)
  <2>1. PICK f : f = [i \in 1..Len(result) |-> result[i].index]
    OBVIOUS
  <2>2. \A a, b \in 1..Len(result) : result[a].index = result[b].index => a = b
    BY <1>0 DEF Arranged
  <2>3. f \in Bijection(1..Len(result), shown)
    BY <1>1, <2>1, <2>2 DEF Bijection, Injection, Surjection, IsInjective
  <2>4. IsFiniteSet(1..Len(result)) /\ Cardinality(1..Len(result)) = Len(result)
    <3>1. PICK o \in Int : o = 1
      OBVIOUS
    <3>2. PICK n \in Nat : n = Len(result)
      BY <1>0
    <3>3. n \in Int
      OBVIOUS
    <3>4. IsFiniteSet(o..n) /\ Cardinality(o..n) = IF o > n THEN 0 ELSE n - o + 1
      BY <3>3, FS_Interval
    <3>5. QED
      BY <3>1, <3>2, <3>4
  <2>5. ExistsBijection(1..Len(result), shown)
    BY <2>3 DEF ExistsBijection
  <2>6. QED
    BY <2>4, <2>5, FS_Bijection
<1>5. \A i, j \in 1..Len(result) : i < j => result[i].score >= result[j].score
  BY <1>0 DEF Best
<1>6. ASSUME NEW i \in Embeddings(scanned) \ shown, NEW j \in shown PROVE idx[i].score <= idx[j].score
  <2>0. \E k \in 1..Len(scores) : scores[k].index = i
    BY <1>0 DEF Arranged
  <2>1. PICK k \in 1..Len(scores) : scores[k].index = i /\ scores[k] = idx[i]
    BY <1>3, <2>0
  <2>2. PICK b \in 1..Len(result) : j = result[b].index
    BY <1>1, <1>6
  <2>3. b \in 1..Len(scores) /\ scores[b] = idx[j]
    BY <1>0, <1>3, <2>2
  <2>4. k \notin 1..Len(result)
    BY <1>0, <1>1, <1>6, <2>1
  <2>5. b < k
    BY <1>0, <2>4
  <2>6. scores[b].score >= scores[k].score
    BY <1>0, <2>3, <2>5 DEF Best
  <2>7. scores[b].score \in Int /\ scores[k].score \in Int
    <3>1. scores[b] \in Doc /\ scores[k] \in Doc
      BY <1>0, <2>3
    <3>2. QED
      BY <3>1, RagNats DEF Doc
  <2>8. QED
    BY <2>1, <2>3, <2>6, <2>7
<1>7. QED
  BY <1>0, <1>1, <1>2, <1>3, <1>4, <1>5, <1>6 DEF SearchIsTopK
-----------------------------------------------------------------------------
(* The chunks of a document. *)

Piece == [start : Nat, end : Nat]

\* Where the next chunk begins.
PieceInv ==
    /\ text_len \in 0..MaxText /\ pos \in 0..text_len
    /\ text_len > 0 => chunk_size \in ChunkSizes
    /\ pieces \in Seq(Piece) /\ Len(pieces) <= MaxPieces
    /\ \A i \in 1..Len(pieces) :
          /\ pieces[i].start < pieces[i].end /\ pieces[i].end <= text_len
          /\ i > 1 => /\ pieces[i].start \in {pieces[i - 1].end, pieces[i - 1].end - Overlap}
                      /\ pieces[i].start > pieces[i - 1].start
    /\ IF pieces = <<>> THEN pos = 0
       ELSE /\ pos \in {pieces[Len(pieces)].end, pieces[Len(pieces)].end - Overlap}
            /\ pos > pieces[Len(pieces)].start

LEMMA PieceInvInit == RagInit => PieceInv
<1> SUFFICES ASSUME RagInit PROVE PieceInv
  OBVIOUS
<1>1. text_len = 0 /\ pos = 0 /\ pieces = <<>> /\ pieces \in Seq(Piece) /\ Len(pieces) = 0
  BY DEF RagInit
<1>2. QED
  BY <1>1, RagNats DEF PieceInv

LEMMA ChunkKeepsPieces == ASSUME PieceInv, rag_chunk_text PROVE PieceInv'
<1>0. /\ text_len \in Nat /\ pos \in Nat /\ pos < text_len /\ chunk_size \in Nat /\ chunk_size > 0
      /\ pieces \in Seq(Piece) /\ Len(pieces) \in Nat /\ Len(pieces) < MaxPieces
      /\ MaxPieces \in Nat /\ Overlap \in Nat /\ text_len' = text_len /\ chunk_size' = chunk_size
  BY RagNats DEF PieceInv, rag_chunk_text
<1>1. PICK n \in Nat : n = IF text_len - pos < chunk_size THEN text_len - pos ELSE chunk_size
  <2>1. (IF text_len - pos < chunk_size THEN text_len - pos ELSE chunk_size) \in Nat
    BY <1>0
  <2>2. QED
    BY <2>1
<1>2. n > 0 /\ pos + n <= text_len
  BY <1>0, <1>1
<1>3. PICK end \in Nat : end = pos + n
  <2>1. pos + n \in Nat
    BY <1>0
  <2>2. QED
    BY <2>1
<1>4. PICK e : e = [start |-> pos, end |-> end]
  OBVIOUS
<1>5. e \in Piece /\ e.start = pos /\ e.end = end
  BY <1>0, <1>4 DEF Piece
<1>6. /\ pieces' = Append(pieces, e)
      /\ pos' = IF end < text_len /\ Len(pieces) + 1 < MaxPieces THEN end - step_back(n) ELSE end
  BY <1>1, <1>3, <1>4 DEF rag_chunk_text
<1>7. /\ pieces' \in Seq(Piece) /\ Len(pieces') = Len(pieces) + 1 /\ pieces'[Len(pieces) + 1] = e
      /\ \A i \in 1..Len(pieces) : pieces'[i] = pieces[i]
  <2>1. PICK p \in Seq(Piece) : p = pieces
    BY <1>0
  <2>2. /\ Append(p, e) \in Seq(Piece) /\ Len(Append(p, e)) = Len(p) + 1
        /\ Append(p, e)[Len(p) + 1] = e /\ \A i \in 1..Len(p) : Append(p, e)[i] = p[i]
    BY <1>5, AppendProperties
  <2>3. QED
    BY <1>6, <2>1, <2>2
<1>8. pos' \in {end, end - Overlap} /\ pos' > pos /\ pos' \in 0..text_len
  <2>1. CASE n > Overlap
    <3>1. step_back(n) = Overlap
      BY <2>1 DEF step_back
    <3>2. QED
      BY <1>0, <1>2, <1>3, <1>6, <2>1, <3>1
  <2>2. CASE ~(n > Overlap)
    <3>1. step_back(n) = 0
      BY <2>2 DEF step_back
    <3>2. QED
      BY <1>0, <1>2, <1>3, <1>6, <3>1
  <2>3. QED
    BY <2>1, <2>2
<1>9. PICK m \in Nat : m = Len(pieces) /\ m < MaxPieces /\ Len(pieces') = m + 1
  BY <1>0, <1>7
<1>10. ASSUME NEW i \in 1..m + 1
       PROVE  /\ pieces'[i].start < pieces'[i].end /\ pieces'[i].end <= text_len
              /\ i > 1 => /\ pieces'[i].start \in {pieces'[i - 1].end, pieces'[i - 1].end - Overlap}
                          /\ pieces'[i].start > pieces'[i - 1].start
  <2>1. CASE i \in 1..m
    <3>1. pieces'[i] = pieces[i]
      BY <1>7, <1>9, <2>1
    <3>2. i > 1 => i - 1 \in 1..m /\ pieces'[i - 1] = pieces[i - 1]
      BY <1>7, <1>9, <2>1
    <3>3. QED
      BY <1>9, <2>1, <3>1, <3>2 DEF PieceInv
  <2>2. CASE i = m + 1
    <3>1. pieces'[i] = e
      BY <1>7, <1>9, <2>2
    <3>2. e.start < e.end /\ e.end <= text_len
      BY <1>0, <1>2, <1>3, <1>5
    <3>3. ASSUME i > 1
          PROVE  /\ pos \in {pieces'[i - 1].end, pieces'[i - 1].end - Overlap}
                 /\ pos > pieces'[i - 1].start
      <4>1. m \in 1..m /\ i - 1 = m
        BY <2>2, <3>3
      <4>2. pieces'[i - 1] = pieces[m]
        BY <1>7, <1>9, <4>1
      <4>3. pieces /= <<>>
        BY <1>9, <4>1
      <4>4. QED
        BY <1>9, <4>2, <4>3 DEF PieceInv
    <3>4. QED
      BY <1>5, <3>1, <3>2, <3>3
  <2>3. QED
    BY <2>1, <2>2
<1>11. pieces' /= <<>> /\ Len(pieces') <= MaxPieces
  <2>1. Len(<<>>) = 0 /\ m + 1 /= 0
    OBVIOUS
  <2>2. QED
    BY <1>0, <1>9, <2>1
<1>12. /\ pos' \in {pieces'[Len(pieces')].end, pieces'[Len(pieces')].end - Overlap}
       /\ pos' > pieces'[Len(pieces')].start
  BY <1>5, <1>7, <1>8
<1>13. /\ text_len' \in 0..MaxText /\ pos' \in 0..text_len'
       /\ text_len' > 0 => chunk_size' \in ChunkSizes
  BY <1>0, <1>8 DEF PieceInv
<1>14. \A i \in 1..Len(pieces') :
          /\ pieces'[i].start < pieces'[i].end /\ pieces'[i].end <= text_len'
          /\ i > 1 => /\ pieces'[i].start \in {pieces'[i - 1].end, pieces'[i - 1].end - Overlap}
                      /\ pieces'[i].start > pieces'[i - 1].start
  BY <1>0, <1>9, <1>10
<1>15. QED
  BY <1>7, <1>11, <1>12, <1>13, <1>14, Zenon DEF PieceInv

LEMMA TextKeepsPieces == ASSUME PieceInv, RagText PROVE PieceInv'
<1>1. /\ text_len = 0 /\ text_len' \in 1..MaxText /\ chunk_size' \in ChunkSizes
      /\ pieces' = pieces /\ pos' = pos /\ MaxText \in Nat
  BY RagNats DEF RagText
<1>2. pieces \in Seq(Piece) /\ Len(pieces) <= MaxPieces /\ pos = 0 /\ Len(pieces) \in Nat
  BY <1>1 DEF PieceInv
<1>3. Len(pieces) = 0
  <2>1. ASSUME Len(pieces) /= 0 PROVE FALSE
    <3>1. 1 \in 1..Len(pieces)
      BY <1>2, <2>1
    <3>2. pieces[1] \in Piece
      BY <1>2, <3>1
    <3>3. pieces[1].start \in Nat /\ pieces[1].end \in Nat
      BY <3>2 DEF Piece
    <3>4. pieces[1].start < pieces[1].end /\ pieces[1].end <= text_len
      BY <3>1 DEF PieceInv
    <3>5. QED
      BY <1>1, <3>3, <3>4
  <2>2. QED
    BY <2>1
<1>4. pieces = <<>>
  BY <1>2, <1>3
<1>5. QED
  BY <1>1, <1>2, <1>3, <1>4 DEF PieceInv

LEMMA PieceInvHolds == PieceInv => PiecesCover
<1> SUFFICES ASSUME PieceInv PROVE PiecesCover
  OBVIOUS
<1>0. /\ pieces \in Seq(Piece) /\ DOMAIN pieces = 1..Len(pieces) /\ Len(pieces) \in Nat
      /\ text_len \in Nat /\ Overlap \in Nat
  BY RagNats DEF PieceInv
<1>1. ASSUME pos = text_len, text_len > 0 PROVE Last(pieces).end = text_len
  <2>1. pieces /= <<>>
    BY <1>0, <1>1 DEF PieceInv
  <2>2. PICK n \in Nat : n = Len(pieces) /\ n \in 1..Len(pieces)
    <3>1. Len(pieces) /= 0
      BY <1>0, <2>1
    <3>2. PICK n \in Nat : n = Len(pieces)
      BY <1>0
    <3>3. n \in 1..n
      BY <3>1, <3>2
    <3>4. QED
      BY <3>2, <3>3
  <2>3. pieces[n] \in Piece
    BY <1>0, <2>2
  <2>4. pieces[n].end \in Nat
    BY <2>3 DEF Piece
  <2>5. pieces[n].end <= text_len /\ pos \in {pieces[n].end, pieces[n].end - Overlap}
    BY <2>1, <2>2 DEF PieceInv
  <2>6. pieces[n].end = text_len
    BY <1>0, <1>1, <2>4, <2>5
  <2>7. QED
    BY <2>2, <2>6 DEF Last
<1>2. QED
  BY <1>0, <1>1 DEF PieceInv, PiecesCover
-----------------------------------------------------------------------------
RagInv == SearchInv /\ PieceInv

LEMMA RagInvInit == RagInit => RagInv
  BY SearchInvInit, PieceInvInit DEF RagInv

LEMMA RagInvStep == RagInv /\ [RagIndexNext \/ RagChunkNext]_ragVars => RagInv'
<1> SUFFICES ASSUME RagInv, [RagIndexNext \/ RagChunkNext]_ragVars PROVE RagInv'
  OBVIOUS
<1>1. ASSUME UNCHANGED <<idx, scanned, scores, result>> PROVE SearchInv'
  BY <1>1 DEF RagInv, SearchInv, Embeddings
<1>2. ASSUME UNCHANGED <<text_len, chunk_size, pieces, pos>> PROVE PieceInv'
  BY <1>2 DEF RagInv, PieceInv
<1>3. CASE rag_index_add \/ rag_index_load
  BY <1>2, <1>3, FillKeepsSearch DEF RagInv, rag_index_add, rag_index_load, Filled
<1>4. CASE rag_index_search
  BY <1>2, <1>4, FindKeepsSearch DEF RagInv, rag_index_search
<1>5. CASE RagText
  BY <1>1, <1>5, TextKeepsPieces DEF RagInv, RagText
<1>6. CASE rag_chunk_text
  BY <1>1, <1>6, ChunkKeepsPieces DEF RagInv, rag_chunk_text
<1>7. CASE UNCHANGED ragVars
  BY <1>1, <1>2, <1>7 DEF RagInv, ragVars
<1>8. QED
  BY <1>3, <1>4, <1>5, <1>6, <1>7 DEF RagIndexNext, RagChunkNext

LEMMA RagInvHolds == RagInv => RagTypeOK /\ RagFaithful
<1> SUFFICES ASSUME RagInv PROVE RagTypeOK /\ RagFaithful
  OBVIOUS
<1>1. RagTypeOK
  BY DEF RagInv, SearchInv, PieceInv, RagTypeOK, Doc
<1>2. RagFaithful
  BY SearchInvHolds, PieceInvHolds DEF RagInv, RagFaithful
<1>3. QED
  BY <1>1, <1>2

\* For every index, query and text: the search returns the most similar documents,
\* each once and the best first, and the chunks leave nothing out.
THEOREM RagCorrect == RagSpec => [](RagTypeOK /\ RagFaithful)
  BY RagInvInit, RagInvStep, RagInvHolds, PTL DEF RagSpec
-----------------------------------------------------------------------------
(* The tools. *)

LEMMA CopyingTools == \A t \in Shells \cup {"read"} : t \in DOMAIN Handlers /\ Handlers[t].copies = TRUE
<1>1. /\ tool_shell_execute.copies = TRUE /\ tool_zsh_execute.copies = TRUE
      /\ tool_network_execute.copies = TRUE /\ tool_file_read_execute.copies = TRUE
  BY DEF tool_shell_execute, tool_zsh_execute, tool_network_execute, tool_file_read_execute, Copying
<1>2. QED
  BY <1>1 DEF Handlers, Shells

\* The handlers that ask for one key and do not copy its value.
KeyOf(t) == Handlers[t].keys[1].key
OneKey(t) == t \in DOMAIN Handlers /\ ~Handlers[t].copies /\ Handlers[t].keys = <<Key(KeyOf(t))>>

\* If no value reads like the key, the first field of its name is found.
LEMMA PlainLookup ==
    ASSUME NEW params, NEW key, DOMAIN params \subseteq Nat, Plain(params, key)
    PROVE  /\ Lookup(params, key) = {} => Given(params, key) = "NULL"
           /\ \A v \in Lookup(params, key) : Given(params, key) = IF v = Empty THEN "NULL" ELSE v
<1>1. PICK named : named = {i \in DOMAIN params : params[i].name = key}
  OBVIOUS
<1>2. /\ {i \in DOMAIN params : params[i].name = key \/ params[i].value = key} = named
      /\ {i \in DOMAIN params : <<params[i].value, key>> \in DOMAIN Embedded} = {}
  BY <1>1 DEF Plain
<1>3. CASE named = {}
  <2>1. Lookup(params, key) = {}
    BY <1>2, <1>3, Zenon DEF Lookup
  <2>2. Given(params, key) = "NULL"
    BY <1>1, <1>3, Zenon DEF Given
  <2>3. QED
    BY <2>1, <2>2
<1>4. CASE named /= {}
  <2>1. Min(named) \in named
    BY <1>1, <1>4, MinOfNats
  <2>2. PICK v : v = Cut(params[Min(named)].value)
    OBVIOUS
  <2>3. params[Min(named)].name = key
    BY <1>1, <2>1
  <2>4. Lookup(params, key) = {v}
    BY <1>2, <1>4, <2>2, <2>3, Zenon DEF Lookup
  <2>5. Given(params, key) = IF v = Empty THEN "NULL" ELSE v
    BY <1>1, <1>4, <2>2, Zenon DEF Given
  <2>6. QED
    BY <2>4, <2>5
<1>5. QED
  BY <1>3, <1>4

LEMMA PickedNone == ASSUME NEW s PROVE Picked(s, {}) = <<>>
<1>1. Cardinality({}) = 0
  BY FS_EmptySet
<1>2. QED
  BY <1>1 DEF Picked
-----------------------------------------------------------------------------
(* A handler on its way. *)

Fields == {"pc", "tool", "params", "todo", "got", "local", "alone"}

\* What was copied was checked, a handler that copies does nothing before, and one
\* that asks for one key has asked for it before it acts.
CallOK(c) ==
    /\ DOMAIN c = Fields /\ DOMAIN c.params \subseteq Nat
    /\ c.pc /= "idle" => c.tool \in DOMAIN Handlers
    /\ c.local = Empty \/ Checked(c.tool, c.local)
    /\ c.pc = "act" => ~Handlers[c.tool].copies \/ c.local /= Empty
    /\ c.pc /= "idle" /\ OneKey(c.tool) =>
          \/ c.pc \in {"clear", "fill"} /\ c.todo = Handlers[c.tool].keys /\ c.got = {}
          \/ c.pc = "act"

\* The buffer of a handler that was alone so far has what it has found.
HoldsFound(c, v) ==
    LET text == Lookup(c.params, KeyOf(c.tool))
    IN  IF text = {} THEN c.got = {}
        ELSE v \in text /\ c.got = IF v = Empty THEN {} ELSE {KeyOf(c.tool)}

ValueOK(c, v) ==
    c.alone /\ OneKey(c.tool) =>
        /\ c.pc = "fill" => v = Empty
        /\ c.pc = "act" => HoldsFound(c, v)

DidOK(d) ==
    d.on /= <<>> =>
        /\ d.tool \in DOMAIN Handlers
        /\ d.tool \in Shells \cup {"read"} => Checked(d.tool, d.on[1])
        /\ OneKey(d.tool) /\ d.alone /\ Plain(d.params, KeyOf(d.tool)) =>
              d.on[1] = Given(d.params, KeyOf(d.tool))

ToolsInv ==
    /\ DOMAIN call = ToolWorkers /\ DOMAIN did = ToolWorkers
    /\ \A w \in ToolWorkers : CallOK(call[w]) /\ ValueOK(call[w], value) /\ DidOK(did[w])
    /\ \A w, u \in ToolWorkers : w /= u /\ call[w].pc /= "idle" /\ call[w].alone => call[u].pc /= "fill"

LEMMA IdleOK == CallOK(Idle) /\ Idle.pc = "idle" /\ \A v : ValueOK(Idle, v)
<1>1. /\ DOMAIN Idle = Fields /\ Idle.pc = "idle" /\ Idle.local = Empty /\ DOMAIN Idle.params \subseteq Nat
  BY DEF Idle, Fields
<1>2. QED
  BY <1>1 DEF CallOK, ValueOK

LEMMA AdvanceIs ==
    ASSUME NEW c, DOMAIN c = Fields
    PROVE  LET d == Advance(c)
           IN  /\ DOMAIN d = Fields /\ d.tool = c.tool /\ d.params = c.params /\ d.got = c.got
               /\ d.local = c.local /\ d.alone = c.alone /\ d.pc \in {"clear", "copy", "act"}
               /\ d.pc = "act" => ~Handlers[c.tool].copies \/ c.local /= Empty
<1>1. PICK todo : todo = Picked(c.todo, {i \in DOMAIN c.todo : c.todo[i].unless \cap c.got = {}})
  OBVIOUS
<1>2. PICK stop : stop = IF ~(todo = <<>> \/ (Head(todo).later /\ ~HasNeeds(c))) THEN "clear"
                     ELSE IF Handlers[c.tool].copies /\ c.local = Empty THEN "copy" ELSE "act"
  OBVIOUS
<1>3. Advance(c) = [c EXCEPT !.todo = todo, !.pc = stop]
  BY <1>1, <1>2 DEF Advance
<1>4. /\ stop \in {"clear", "copy", "act"}
      /\ stop = "act" => ~Handlers[c.tool].copies \/ c.local /= Empty
  BY <1>2
<1>5. QED
  BY <1>3, <1>4 DEF Fields

\* A handler of one key asks for it, and acts when it has.
LEMMA AdvanceOneKey ==
    ASSUME NEW c, DOMAIN c = Fields, OneKey(c.tool)
    PROVE  /\ c.todo = Handlers[c.tool].keys /\ c.got = {}
              => Advance(c).pc = "clear" /\ Advance(c).todo = c.todo
           /\ c.todo = <<>> => Advance(c).pc = "act"
<1>2. PICK e : e = Key(KeyOf(c.tool)) /\ Handlers[c.tool].keys = <<e>> /\ ~Handlers[c.tool].copies
  BY DEF OneKey
<1>3. e.unless = {} /\ e.later = FALSE
  BY <1>2 DEF Key
<1>4. ASSUME c.todo = <<e>>, c.got = {} PROVE Advance(c).pc = "clear" /\ Advance(c).todo = <<e>>
  <2>1. {i \in DOMAIN c.todo : c.todo[i].unless \cap c.got = {}} = 1..Len(<<e>>)
    BY <1>3, <1>4
  <2>2. Picked(<<e>>, 1..Len(<<e>>)) = <<e>>
    <3>0. <<e>> \in Seq({e})
      OBVIOUS
    <3>1. PICK s \in Seq({e}) : s = <<e>>
      BY <3>0
    <3>2. Picked(s, 1..Len(s)) = s
      BY PickedAll
    <3>3. QED
      BY <3>1, <3>2
  <2>3. Picked(c.todo, {i \in DOMAIN c.todo : c.todo[i].unless \cap c.got = {}}) = <<e>>
    BY <1>4, <2>1, <2>2
  <2>4. <<e>> /= <<>> /\ ~Head(<<e>>).later
    BY <1>3
  <2>5. Advance(c) = [c EXCEPT !.todo = <<e>>, !.pc = "clear"]
    BY <2>3, <2>4 DEF Advance
  <2>6. QED
    BY <2>5 DEF Fields
<1>5. ASSUME c.todo = <<>> PROVE Advance(c).pc = "act"
  <2>1. {i \in DOMAIN c.todo : c.todo[i].unless \cap c.got = {}} = {}
    BY <1>5
  <2>2. Picked(c.todo, {i \in DOMAIN c.todo : c.todo[i].unless \cap c.got = {}}) = <<>>
    BY <2>1, PickedNone
  <2>3. PICK todo : Advance(c) = [c EXCEPT !.todo = todo, !.pc = "act"]
    BY <1>2, <2>2 DEF Advance
  <2>4. QED
    BY <2>3 DEF Fields
<1>6. QED
  BY <1>2, <1>4, <1>5

LEMMA AdvanceOK ==
    ASSUME NEW c, DOMAIN c = Fields, c.tool \in DOMAIN Handlers, DOMAIN c.params \subseteq Nat,
           c.local = Empty \/ Checked(c.tool, c.local),
           OneKey(c.tool) => \/ c.todo = Handlers[c.tool].keys /\ c.got = {}
                             \/ c.todo = <<>>
    PROVE  CallOK(Advance(c))
<1>1. PICK d : d = Advance(c)
  OBVIOUS
<1>2. /\ DOMAIN d = Fields /\ d.tool = c.tool /\ d.params = c.params /\ d.got = c.got
      /\ d.local = c.local /\ d.alone = c.alone /\ d.pc \in {"clear", "copy", "act"}
      /\ d.pc = "act" => ~Handlers[c.tool].copies \/ c.local /= Empty
  BY <1>1, AdvanceIs
<1>3. ASSUME OneKey(c.tool)
      PROVE  \/ d.pc \in {"clear", "fill"} /\ d.todo = Handlers[d.tool].keys /\ d.got = {}
             \/ d.pc = "act"
  BY <1>1, <1>2, <1>3, AdvanceOneKey
<1>4. QED
  BY <1>1, <1>2, <1>3 DEF CallOK

\* Another worker has come in between.
LEMMA Disturbed ==
    ASSUME NEW c, CallOK(c), NEW d, d = [c EXCEPT !.alone = FALSE]
    PROVE  CallOK(d) /\ d.alone = FALSE /\ d.pc = c.pc /\ \A v : ValueOK(d, v)
<1>1. /\ DOMAIN d = Fields /\ d.tool = c.tool /\ d.params = c.params /\ d.got = c.got
      /\ d.local = c.local /\ d.alone = FALSE /\ d.pc = c.pc /\ d.todo = c.todo
  BY DEF CallOK, Fields
<1>2. QED
  BY <1>1 DEF CallOK, ValueOK

LEMMA DisturbKeeps ==
    ASSUME ToolsInv, NEW w \in ToolWorkers, NEW c, CallOK(c), ValueOK(c, value'),
           call' = Disturb(c, w), did' = did, c.alone = call[w].alone, call[w].pc /= "idle"
    PROVE  ToolsInv'
<1>1. DOMAIN call' = ToolWorkers /\ DOMAIN did' = ToolWorkers /\ call'[w] = c
  BY DEF Disturb, ToolsInv
<1>2. ASSUME NEW u \in ToolWorkers, u /= w
      PROVE  /\ CallOK(call'[u]) /\ ValueOK(call'[u], value')
             /\ call'[u].pc = call[u].pc /\ (call'[u].pc /= "idle" => call'[u].alone = FALSE)
  <2>1. CallOK(call[u])
    BY DEF ToolsInv
  <2>2. CASE call[u].pc = "idle"
    <3>1. call'[u] = Idle
      BY <1>2, <2>2 DEF Disturb
    <3>2. QED
      BY <2>2, <3>1, IdleOK
  <2>3. CASE call[u].pc /= "idle"
    <3>1. call'[u] = [call[u] EXCEPT !.alone = FALSE]
      BY <1>2, <2>3 DEF Disturb
    <3>2. QED
      BY <2>1, <3>1, Disturbed
  <2>4. QED
    BY <2>2, <2>3
<1>3. \A u \in ToolWorkers : CallOK(call'[u]) /\ ValueOK(call'[u], value') /\ DidOK(did'[u])
  BY <1>1, <1>2 DEF ToolsInv
<1>4. ASSUME NEW x \in ToolWorkers, NEW u \in ToolWorkers, x /= u, call'[x].pc /= "idle", call'[x].alone
      PROVE  call'[u].pc /= "fill"
  <2>1. x = w
    BY <1>2, <1>4
  <2>2. call'[u].pc = call[u].pc /\ call[w].alone
    BY <1>1, <1>2, <1>4, <2>1
  <2>3. QED
    BY <1>4, <2>1, <2>2 DEF ToolsInv
<1>5. QED
  BY <1>1, <1>3, <1>4 DEF ToolsInv

\* g is f but for what it has for w, which is c.
OnlyAt(g, f, w, c) == DOMAIN g = ToolWorkers /\ g[w] = c /\ \A u \in ToolWorkers : u /= w => g[u] = f[u]

LEMMA FullDomains == ToolsInv => DOMAIN call = ToolWorkers /\ DOMAIN did = ToolWorkers
  BY DEF ToolsInv

\* One worker goes on, and leaves the buffer alone.
LEMMA OneKeeps ==
    ASSUME ToolsInv, NEW w \in ToolWorkers, NEW c, NEW d, CallOK(c), ValueOK(c, value), DidOK(d),
           OnlyAt(call', call, w, c), OnlyAt(did', did, w, d), value' = value, c.pc /= "fill",
           c.pc /= "idle" /\ c.alone => \A u \in ToolWorkers : u /= w => call[u].pc /= "fill"
    PROVE  ToolsInv'
<1>1. /\ DOMAIN call' = ToolWorkers /\ DOMAIN did' = ToolWorkers /\ call'[w] = c /\ did'[w] = d
      /\ \A u \in ToolWorkers : u /= w => call'[u] = call[u] /\ did'[u] = did[u]
  BY DEF OnlyAt
<1>2. ASSUME NEW u \in ToolWorkers
      PROVE  CallOK(call'[u]) /\ ValueOK(call'[u], value') /\ DidOK(did'[u])
  <2>1. CASE u = w
    BY <1>1, <2>1
  <2>2. CASE u /= w
    <3>1. call'[u] = call[u] /\ did'[u] = did[u]
      BY <1>1, <2>2
    <3>2. QED
      BY <3>1 DEF ToolsInv
  <2>3. QED
    BY <2>1, <2>2
<1>3. ASSUME NEW x \in ToolWorkers, NEW u \in ToolWorkers, x /= u, call'[x].pc /= "idle", call'[x].alone
      PROVE  call'[u].pc /= "fill"
  <2>1. CASE x = w
    BY <1>1, <1>3, <2>1
  <2>2. CASE u = w
    BY <1>1, <2>2
  <2>3. CASE x /= w /\ u /= w
    <3>1. call'[x] = call[x] /\ call'[u] = call[u]
      BY <1>1, <2>3
    <3>2. QED
      BY <1>3, <3>1 DEF ToolsInv
  <2>4. QED
    BY <2>1, <2>2, <2>3
<1>4. QED
  BY <1>1, <1>2, <1>3 DEF ToolsInv

LEMMA CallKeeps == ASSUME ToolsInv, NEW w \in ToolWorkers, Call(w) PROVE ToolsInv'
<1>0. call[w].pc = "idle" /\ value' = value
  BY DEF Call
<1>1. ASSUME NEW r \in RequestsOf(w), r.tool \in DOMAIN Handlers, did' = [did EXCEPT ![w] = Nothing],
             call' = [call EXCEPT ![w] =
                         Advance([Idle EXCEPT !.tool = r.tool, !.params = r.params,
                                              !.todo = Handlers[r.tool].keys, !.alone = AllIdle])]
      PROVE  ToolsInv'
  <2>1. PICK c : c = [Idle EXCEPT !.tool = r.tool, !.params = r.params,
                                  !.todo = Handlers[r.tool].keys, !.alone = AllIdle]
    OBVIOUS
  <2>2. /\ DOMAIN c = Fields /\ c.tool = r.tool /\ c.params = r.params
        /\ c.todo = Handlers[r.tool].keys /\ c.got = {} /\ c.local = Empty /\ c.alone = AllIdle
        /\ DOMAIN r.params \subseteq Nat
    BY <2>1, ToolsAssumption DEF Idle, Fields
  <2>3. PICK d : d = Advance(c)
    OBVIOUS
  <2>4. CallOK(d)
    BY <1>1, <2>2, <2>3, AdvanceOK
  <2>5. d.pc \in {"clear", "copy", "act"} /\ d.tool = c.tool /\ d.alone = AllIdle
    BY <2>2, <2>3, AdvanceIs
  <2>6. ASSUME OneKey(d.tool) PROVE d.pc = "clear"
    BY <2>2, <2>3, <2>5, <2>6, AdvanceOneKey
  <2>7. ValueOK(d, value)
    BY <2>6 DEF ValueOK
  <2>8. DidOK(Nothing)
    BY DEF DidOK, Nothing
  <2>9. d.alone => \A u \in ToolWorkers : call[u].pc /= "fill"
    BY <2>5 DEF AllIdle
  <2>10. call' = [call EXCEPT ![w] = d]
    BY <1>1, <2>1, <2>3
  <2>11. OnlyAt(call', call, w, d) /\ OnlyAt(did', did, w, Nothing)
    BY <1>1, <2>10, FullDomains DEF OnlyAt
  <2>12. QED
    BY <1>0, <2>4, <2>5, <2>7, <2>8, <2>9, <2>11, OneKeeps
<1>2. ASSUME call' = call, did' = [did EXCEPT ![w] = Nothing]
      PROVE  ToolsInv'
  <2>1. PICK d : d = Nothing
    OBVIOUS
  <2>2. d.on = <<>>
    BY <2>1 DEF Nothing
  <2>3. DidOK(d)
    BY <2>2 DEF DidOK
  <2>4. PICK c : c = call[w]
    OBVIOUS
  <2>5. call' = call /\ call[w] = c /\ CallOK(c) /\ ValueOK(c, value)
    BY <1>2, <2>4 DEF ToolsInv
  <2>6. did' = [did EXCEPT ![w] = d] /\ c.pc = "idle"
    BY <1>0, <1>2, <2>1, <2>4
  <2>7. OnlyAt(call', call, w, c) /\ OnlyAt(did', did, w, d)
    BY <2>5, <2>6, FullDomains DEF OnlyAt
  <2>8. QED
    BY <1>0, <2>3, <2>5, <2>6, <2>7, OneKeeps
<1>3. QED
  BY <1>1, <1>2 DEF Call

LEMMA ClearKeepsTools == ASSUME ToolsInv, NEW w \in ToolWorkers, Clear(w) PROVE ToolsInv'
<1>1. PICK c : c = [call[w] EXCEPT !.pc = "fill"]
  OBVIOUS
<1>2. CallOK(call[w]) /\ DOMAIN call[w] = Fields /\ call[w].pc = "clear"
  BY DEF ToolsInv, CallOK, Clear
<1>3. /\ DOMAIN c = Fields /\ c.tool = call[w].tool /\ c.params = call[w].params
      /\ c.todo = call[w].todo /\ c.got = call[w].got /\ c.local = call[w].local
      /\ c.alone = call[w].alone /\ c.pc = "fill"
  BY <1>1, <1>2 DEF Fields
<1>4. CallOK(c)
  BY <1>2, <1>3 DEF CallOK
<1>5. value' = Empty /\ call' = Disturb(c, w) /\ did' = did
  BY <1>1 DEF Clear
<1>6. ValueOK(c, value')
  BY <1>3, <1>5 DEF ValueOK
<1>7. QED
  BY <1>2, <1>3, <1>4, <1>5, <1>6, DisturbKeeps

LEMMA FillKeeps == ASSUME ToolsInv, NEW w \in ToolWorkers, Fill(w) PROVE ToolsInv'
<1>0. CallOK(call[w]) /\ ValueOK(call[w], value) /\ DOMAIN call[w] = Fields /\ call[w].pc = "fill" /\ did' = did
  BY DEF ToolsInv, CallOK, Fill
<1>1. PICK key, text : key = Head(call[w].todo).key /\ text = Lookup(call[w].params, key)
  OBVIOUS
<1>2. PICK got : got = call[w].got \cup IF text = {} \/ value' = Empty THEN {} ELSE {key}
  OBVIOUS
<1>3. PICK c : c = [call[w] EXCEPT !.todo = Tail(call[w].todo), !.got = got]
  OBVIOUS
<1>4. /\ DOMAIN c = Fields /\ c.tool = call[w].tool /\ c.params = call[w].params
      /\ c.todo = Tail(call[w].todo) /\ c.got = got /\ c.local = call[w].local
      /\ c.alone = call[w].alone
  BY <1>0, <1>3 DEF Fields
<1>5. call' = Disturb(Advance(c), w)
  BY <1>1, <1>2, <1>3 DEF Fill
<1>6. value' \in IF text = {} THEN {value} ELSE text \cup (Seen(w) \cap {"torn"})
  BY <1>1 DEF Fill
<1>7. ASSUME OneKey(c.tool)
      PROVE  /\ c.todo = <<>> /\ key = KeyOf(c.tool)
             /\ c.got = IF text = {} \/ value' = Empty THEN {} ELSE {key}
  <2>1. call[w].todo = Handlers[c.tool].keys /\ call[w].got = {}
    BY <1>0, <1>4, <1>7 DEF CallOK
  <2>2. PICK e : e = Key(KeyOf(c.tool)) /\ call[w].todo = <<e>>
    BY <1>7, <2>1 DEF OneKey
  <2>3. Head(<<e>>) = e /\ Tail(<<e>>) = <<>> /\ e.key = KeyOf(c.tool)
    BY <2>2 DEF Key
  <2>4. QED
    BY <1>1, <1>2, <1>4, <2>1, <2>2, <2>3
<1>8. PICK d : d = Advance(c)
  OBVIOUS
<1>9. /\ d.pc \in {"clear", "copy", "act"} /\ d.tool = c.tool /\ d.params = c.params
      /\ d.got = c.got /\ d.alone = c.alone
  BY <1>4, <1>8, AdvanceIs
<1>10. CallOK(d)
  <2>1. /\ c.tool \in DOMAIN Handlers /\ (c.local = Empty \/ Checked(c.tool, c.local))
        /\ DOMAIN c.params \subseteq Nat
    BY <1>0, <1>4 DEF CallOK
  <2>2. QED
    BY <1>4, <1>7, <1>8, <2>1, AdvanceOK
<1>11. ValueOK(d, value')
  <2>1. ASSUME d.alone, OneKey(d.tool)
        PROVE  HoldsFound(d, value')
    <3>1. /\ key = KeyOf(d.tool) /\ call[w].params = d.params /\ call[w].alone
          /\ d.got = IF text = {} \/ value' = Empty THEN {} ELSE {key}
      BY <1>4, <1>7, <1>9, <2>1
    <3>2. ~Filling(w)
      BY <1>0, <3>1 DEF Filling, ToolsInv
    <3>3. value = Empty
      BY <1>0, <1>4, <1>9, <2>1, <3>1 DEF ValueOK
    <3>4. Seen(w) \cap {"torn"} = {}
      BY <3>2, <3>3 DEF Seen, Empty
    <3>5. text = Lookup(d.params, KeyOf(d.tool)) /\ (text /= {} => value' \in text)
      BY <1>1, <1>6, <3>1, <3>4
    <3>6. QED
      BY <3>1, <3>5 DEF HoldsFound
  <2>2. QED
    BY <1>9, <2>1 DEF ValueOK
<1>12. QED
  BY <1>0, <1>4, <1>5, <1>8, <1>9, <1>10, <1>11, DisturbKeeps

LEMMA NothingDone ==
    ASSUME NEW c, NEW d, d = Did(c, <<>>)
    PROVE  DidOK(d)
<1>1. d.on = <<>>
  BY DEF Did, Nothing
<1>2. QED
  BY <1>1 DEF DidOK

LEMMA CopyKeeps == ASSUME ToolsInv, NEW w \in ToolWorkers, Copy(w) PROVE ToolsInv'
<1>0. /\ CallOK(call[w]) /\ DOMAIN call[w] = Fields /\ call[w].pc = "copy" /\ value' = value
      /\ ~OneKey(call[w].tool) /\ call[w].tool \in DOMAIN Handlers
  BY DEF ToolsInv, CallOK, Copy
<1>1. ASSUME NEW text, Checked(call[w].tool, text), did' = did,
             call' = [call EXCEPT ![w] = Advance([call[w] EXCEPT !.local = text,
                                                    !.todo = Handlers[call[w].tool].rest])]
      PROVE  ToolsInv'
  <2>1. PICK c : c = [call[w] EXCEPT !.local = text, !.todo = Handlers[call[w].tool].rest]
    OBVIOUS
  <2>2. /\ DOMAIN c = Fields /\ c.tool = call[w].tool /\ c.local = text /\ c.alone = call[w].alone
        /\ c.params = call[w].params /\ DOMAIN c.params \subseteq Nat
    BY <1>0, <2>1 DEF Fields, CallOK
  <2>3. PICK d : d = Advance(c)
    OBVIOUS
  <2>4. CallOK(d)
    BY <1>0, <1>1, <2>2, <2>3, AdvanceOK
  <2>5. d.pc \in {"clear", "copy", "act"} /\ d.tool = c.tool /\ d.alone = call[w].alone
    BY <2>2, <2>3, AdvanceIs
  <2>6. ValueOK(d, value)
    BY <1>0, <2>2, <2>5 DEF ValueOK
  <2>7. call' = [call EXCEPT ![w] = d]
    BY <1>1, <2>1, <2>3
  <2>8. PICK e : e = did[w]
    OBVIOUS
  <2>9. did' = did /\ did[w] = e /\ DidOK(e)
    BY <1>1, <2>8 DEF ToolsInv
  <2>10. d.alone => \A u \in ToolWorkers : u /= w => call[u].pc /= "fill"
    BY <1>0, <2>5 DEF ToolsInv
  <2>11. OnlyAt(call', call, w, d) /\ OnlyAt(did', did, w, e)
    BY <2>7, <2>9, FullDomains DEF OnlyAt
  <2>12. QED
    BY <1>0, <2>4, <2>5, <2>6, <2>9, <2>10, <2>11, OneKeeps
<1>2. CASE Finish(w, Did(call[w], <<>>))
  <2>1. PICK d : d = Did(call[w], <<>>)
    OBVIOUS
  <2>2. call' = [call EXCEPT ![w] = Idle] /\ did' = [did EXCEPT ![w] = d]
    BY <1>2, <2>1 DEF Finish
  <2>3. DidOK(d)
    BY <2>1, NothingDone
  <2>4. Idle.pc /= "fill" /\ Idle.pc = "idle"
    BY IdleOK
  <2>5. OnlyAt(call', call, w, Idle) /\ OnlyAt(did', did, w, d)
    BY <2>2, FullDomains DEF OnlyAt
  <2>6. QED
    BY <1>0, <2>3, <2>4, <2>5, IdleOK, OneKeeps
<1>3. QED
  BY <1>1, <1>2 DEF Copy

\* A handler of one key uses what it has found.
LEMMA ActsOnOneKey ==
    ASSUME NEW w \in ToolWorkers, CallOK(call[w]), ValueOK(call[w], value), call[w].pc = "act",
           OneKey(call[w].tool), call[w].alone, Plain(call[w].params, KeyOf(call[w].tool)),
           ActsOn(w) /= <<>>
    PROVE  ActsOn(w)[1] = Given(call[w].params, KeyOf(call[w].tool))
<1>1. PICK key, text, wanted : /\ key = KeyOf(call[w].tool) /\ text = Lookup(call[w].params, key)
                              /\ wanted = Given(call[w].params, key)
  OBVIOUS
<1>2. IF text = {} THEN call[w].got = {}
      ELSE value \in text /\ call[w].got = IF value = Empty THEN {} ELSE {key}
  BY <1>1 DEF ValueOK, HoldsFound
<1>3. /\ text = {} => wanted = "NULL"
      /\ \A v \in text : wanted = IF v = Empty THEN "NULL" ELSE v
  <2>1. DOMAIN call[w].params \subseteq Nat
    BY DEF CallOK
  <2>2. QED
    BY <1>1, <2>1, PlainLookup
<1>4. ActsOn(w) = IF call[w].got = {} THEN <<"NULL">> ELSE <<value>>
  BY DEF ActsOn, OneKey
<1>5. wanted = IF call[w].got = {} THEN "NULL" ELSE value
  BY <1>2, <1>3
<1>6. QED
  BY <1>1, <1>4, <1>5

LEMMA ActKeeps == ASSUME ToolsInv, NEW w \in ToolWorkers, Act(w) PROVE ToolsInv'
<1>0. /\ CallOK(call[w]) /\ ValueOK(call[w], value) /\ call[w].pc = "act" /\ value' = value
      /\ call[w].tool \in DOMAIN Handlers
  BY DEF ToolsInv, CallOK, Act
<1>1. PICK on \in {ActsOn(w), <<>>} : Finish(w, Did(call[w], on))
  BY DEF Act
<1>2. PICK d : d = Did(call[w], on)
  OBVIOUS
<1>3. d.tool = call[w].tool /\ d.params = call[w].params /\ d.on = on /\ d.alone = call[w].alone
  BY <1>2 DEF Did, Nothing
<1>4. ASSUME on /= <<>>, d.tool \in Shells \cup {"read"} PROVE Checked(d.tool, d.on[1])
  <2>1. Handlers[call[w].tool].copies = TRUE
    BY <1>3, <1>4, CopyingTools
  <2>2. on = <<call[w].local>>
    BY <1>1, <1>4, <2>1 DEF ActsOn, Copied
  <2>3. Checked(call[w].tool, call[w].local)
    BY <1>0, <2>1 DEF CallOK
  <2>4. QED
    BY <1>3, <2>2, <2>3
<1>5. ASSUME on /= <<>>, OneKey(d.tool), d.alone, Plain(d.params, KeyOf(d.tool))
      PROVE  d.on[1] = Given(d.params, KeyOf(d.tool))
  BY <1>0, <1>1, <1>3, <1>5, ActsOnOneKey
<1>6. DidOK(d)
  BY <1>0, <1>3, <1>4, <1>5 DEF DidOK
<1>7. call' = [call EXCEPT ![w] = Idle] /\ did' = [did EXCEPT ![w] = d]
  BY <1>1, <1>2 DEF Finish
<1>8. Idle.pc /= "fill" /\ Idle.pc = "idle"
  BY IdleOK
<1>9. OnlyAt(call', call, w, Idle) /\ OnlyAt(did', did, w, d)
  BY <1>7, FullDomains DEF OnlyAt
<1>10. QED
  BY <1>0, <1>6, <1>8, <1>9, IdleOK, OneKeeps

LEMMA ToolsInvInit == ToolsInit => ToolsInv
<1> SUFFICES ASSUME ToolsInit PROVE ToolsInv
  OBVIOUS
<1>1. DidOK(Nothing)
  BY DEF DidOK, Nothing
<1>2. /\ DOMAIN call = ToolWorkers /\ DOMAIN did = ToolWorkers
      /\ \A w \in ToolWorkers : call[w] = Idle /\ did[w] = Nothing
  BY DEF ToolsInit
<1>3. QED
  BY <1>1, <1>2, IdleOK DEF ToolsInv

LEMMA ToolsInvStep == ToolsInv /\ [ToolsNext]_toolVars => ToolsInv'
<1> SUFFICES ASSUME ToolsInv, [ToolsNext]_toolVars PROVE ToolsInv'
  OBVIOUS
<1>1. CASE UNCHANGED toolVars
  BY <1>1 DEF toolVars, ToolsInv
<1>2. CASE ToolsNext
  BY <1>2, CallKeeps, ClearKeepsTools, FillKeeps, CopyKeeps, ActKeeps DEF ToolsNext
<1>3. QED
  BY <1>1, <1>2

LEMMA ToolsInvHolds == ToolsInv => ToolsFaithful
<1> SUFFICES ASSUME ToolsInv PROVE ToolsFaithful
  OBVIOUS
<1>1. \A w \in ToolWorkers : DidOK(did[w])
  BY DEF ToolsInv
<1>2. RunsWhatItChecked
  BY <1>1 DEF RunsWhatItChecked, DidOK
<1>3. ASSUME NEW w \in ToolWorkers, did[w].alone, did[w].on /= <<>>, ~Handlers[did[w].tool].copies,
             Handlers[did[w].tool].keys = <<Key(KeyOf(did[w].tool))>>,
             Plain(did[w].params, KeyOf(did[w].tool))
      PROVE  did[w].on[1] = Given(did[w].params, KeyOf(did[w].tool))
  <2>1. OneKey(did[w].tool)
    BY <1>1, <1>3 DEF DidOK, OneKey
  <2>2. QED
    BY <1>1, <1>3, <2>1 DEF DidOK
<1>4. OneKeyIsFaithful
  BY <1>3, Zenon DEF OneKeyIsFaithful, KeyOf
<1>5. QED
  BY <1>2, <1>4 DEF ToolsFaithful

\* For any workers and calls, in any interleaving of their use of the one buffer:
\* what a shell runs and read opens is what was checked, and a tool of one key
\* acts on the value of its key, if no other worker came in between and no value
\* of the request reads like the key.
THEOREM ToolsAreFaithful == ToolsSpec => []ToolsFaithful
  BY ToolsInvInit, ToolsInvStep, ToolsInvHolds, PTL DEF ToolsSpec
-----------------------------------------------------------------------------
(* All stores together. *)

\* The memory or the migration into it, as store says.
MemoryStep ==
    /\ store' = store
    /\ \/ /\ store /= "migration" /\ [MemoryNext]_memoryVars
          /\ UNCHANGED <<json, regular, dest, mstate, items_scanned, items_migrated, items_failed,
                         pending, kills>>
       \/ store = "migration" /\ [MigrationNext]_migrationVars

\* A step of one store is a step of this one and none of the others.
LEMMA StoresSteps ==
    ASSUME [StoresNext]_storesVars
    PROVE  /\ [CronNext]_cronVars /\ [RegistriesNext]_registryVars
           /\ [RagIndexNext \/ RagChunkNext]_ragVars /\ [ToolsNext]_toolVars /\ MemoryStep
<1> USE DEF MemoryStep, migrationVars, counters, ragVars, toolVars
<1>1. CASE OnlyCron /\ CronNext
  BY <1>1 DEF OnlyCron
<1>2. CASE OnlyMemory("memory", MemoryStoreNext)
  BY <1>2 DEF OnlyMemory, MemoryNext
<1>3. CASE OnlyMemory("cache", MemoryCacheNext) \/ OnlyMemory("muninn", MemoryMuninnNext)
  BY <1>3 DEF OnlyMemory, MemoryNext
<1>4. CASE OnlyMemory("chunks", MemoryChunkNext)
  BY <1>4 DEF OnlyMemory, MemoryNext
<1>5. CASE OnlyMigration /\ MigrationNext
  BY <1>5 DEF OnlyMigration
<1>6. CASE \/ OnlyRegistry("auth", AuthNext) \/ OnlyRegistry("skills", SkillsNext)
           \/ OnlyRegistry("instances", InstancesNext) \/ OnlyRegistry("approvals", ApprovalsNext)
           \/ OnlyRegistry("health", HealthNext)
  BY <1>6 DEF OnlyRegistry, RegistriesNext
<1>7. CASE OnlyRag("rag", RagIndexNext) \/ OnlyRag("pieces", RagChunkNext)
  BY <1>7 DEF OnlyRag
<1>8. CASE OnlyTools /\ ToolsNext
  BY <1>8 DEF OnlyTools
<1>9. CASE UNCHANGED storesVars
  BY <1>9 DEF storesVars
<1> QED
  BY <1>1, <1>2, <1>3, <1>4, <1>5, <1>6, <1>7, <1>8, <1>9 DEF StoresNext

\* A migration leaves the cache, the chunker and the export alone, and keeps the
\* types of the rest.
LEMMA MigrationLeaves ==
    ASSUME MigrationInv, MemoryTypeInv, [MigrationNext]_migrationVars
    PROVE  UNCHANGED <<cacheVars, chunkVars, exported, muninnVars, clock>> /\ MemoryTypeInv'
<1> USE DEF migrationVars
<1>0. /\ backend \in Backends /\ db_handle \in BOOLEAN
      /\ wrote \in [Keys -> SUBSET Values] /\ Len(exported) <= ListLimit
  BY DEF MemoryTypeInv
<1>1. CASE ExecuteJson \/ ImportEnds \/ Again
  <2>1. backend' \in Backends /\ db_handle' \in BOOLEAN
        /\ UNCHANGED <<wrote, exported, cacheVars, chunkVars, muninnVars, clock>>
    BY <1>1 DEF ExecuteJson, ImportEnds, Again, Backends
  <2> QED
    BY <1>0, <2>1 DEF MemoryTypeInv
<1>2. CASE ImportItem
  <2>1. PICK item : /\ item = json[items_scanned + 1] /\ item \in Keys \X Values
                    /\ memory_store(item[1], item[2]) \/ UNCHANGED memoryVars
    <3>1. /\ items_scanned \in 0..Len(json) /\ items_scanned < Len(json) /\ json \in Seq(Item)
          /\ json[items_scanned + 1] /= NoPair
      BY <1>2 DEF ImportItem, parse_one_kv, MigrationInv, ImportInv
    <3>2. items_scanned + 1 \in 1..Len(json)
      BY <3>1
    <3>3. json[items_scanned + 1] \in Keys \X Values
      BY <3>1, <3>2 DEF Item
    <3> QED
      BY <1>2, <3>3 DEF ImportItem
  <2>2. item[1] \in Keys /\ item[2] \in Values
    BY <2>1
  <2>3. CASE memory_store(item[1], item[2])
    <3>1. /\ wrote' = [wrote EXCEPT ![item[1]] = {item[2]}]
          /\ UNCHANGED <<backend, db_handle, exported, cacheVars, chunkVars, muninnVars, clock>>
      BY <2>3 DEF memory_store
    <3>2. wrote' \in [Keys -> SUBSET Values]
      BY <1>0, <2>2, <3>1
    <3> QED
      BY <1>0, <3>1, <3>2 DEF MemoryTypeInv
  <2>4. CASE UNCHANGED memoryVars
    BY <1>0, <2>4 DEF MemoryTypeInv
  <2> QED
    BY <2>1, <2>3, <2>4
<1>3. CASE \/ Prepare \/ ExecuteFails \/ ExecuteDirectory \/ (\E n \in Names : CopyFile(n))
           \/ CopyEnds \/ UNCHANGED migrationVars
  <2>1. UNCHANGED memoryVars
    BY <1>3 DEF Prepare, ExecuteFails, ExecuteDirectory, CopyFile, CopyEnds
  <2> QED
    BY <1>0, <2>1 DEF MemoryTypeInv
<1> QED
  BY <1>1, <1>2, <1>3 DEF MigrationNext

\* The memory as both use it; there is no migration without store saying so.
SharedInv ==
    /\ MigrationInv /\ RecalledInv /\ CacheInv /\ ChunkInv /\ MemoryTypeInv
    /\ store /= "migration" => mstate = "unset"

LEMMA SharedInit == StoresInit => SharedInv
<1> SUFFICES ASSUME StoresInit PROVE SharedInv
  OBVIOUS
<1>1. MigrationInit /\ MemoryInit /\ mstate = "unset"
  BY DEF StoresInit, MigrationInit
<1> QED
  BY <1>1, MigrationInvInit, RecalledInit, CacheInit, ChunkInit, MemoryTypeInit DEF SharedInv

LEMMA SharedStep == SharedInv /\ MemoryStep => SharedInv'
<1> SUFFICES ASSUME SharedInv, MemoryStep PROVE SharedInv'
  OBVIOUS
<1>0. /\ MigrationInv /\ RowsInv /\ RecalledInv /\ CacheInv /\ ChunkInv /\ MemoryTypeInv
      /\ store' = store /\ (store /= "migration" => mstate = "unset")
  BY DEF SharedInv, MigrationInv, MemoryStep
<1>1. CASE /\ store /= "migration" /\ [MemoryNext]_memoryVars
           /\ UNCHANGED <<json, regular, dest, mstate, items_scanned, items_migrated, items_failed,
                          pending, kills>>
  <2>1. RowsInv' /\ RecalledInv'
    BY <1>0, <1>1, RowsStep, RecalledStep
  <2>2. CacheInv'
    BY <1>0, <1>1, CacheStep
  <2>3. ChunkInv'
    BY <1>0, <1>1, ChunkStep
  <2>4. MemoryTypeInv'
    BY <1>0, <1>1, MemoryTypeStep
  <2>5. mstate = "unset" /\ mstate' = "unset" /\ UNCHANGED <<json, regular, dest, pending>>
    BY <1>0, <1>1
  <2>6. json' \in Seq(Item) /\ ImportInv'
    BY <1>0, <2>5 DEF MigrationInv, ImportInv
  <2>7. DirectoryInv'
    BY <1>0, <2>5 DEF MigrationInv, DirectoryInv
  <2> QED
    BY <2>1, <2>2, <2>3, <2>4, <2>5, <2>6, <2>7 DEF SharedInv, MigrationInv
<1>2. CASE store = "migration" /\ [MigrationNext]_migrationVars
  <2>1. MigrationInv'
    BY <1>0, <1>2, MigrationInvStep
  <2>2. UNCHANGED <<cacheVars, chunkVars, muninnVars, clock>> /\ MemoryTypeInv'
    BY <1>0, <1>2, MigrationLeaves
  <2>3. CacheInv' /\ ChunkInv'
    BY <1>0, <2>2 DEF CacheInv, ChunkInv
  <2>4. RecalledInv'
    BY <1>0, <2>2 DEF RecalledInv, MatchedFor, Hits
  <2> QED
    BY <1>0, <1>2, <2>1, <2>2, <2>3, <2>4 DEF SharedInv
<1> QED
  BY <1>1, <1>2 DEF MemoryStep

\* The behaviours of all stores are behaviours of each of them.
LEMMA StoresParts ==
    StoresSpec => /\ CronSpec /\ RegistriesSpec /\ RagSpec /\ ToolsSpec
                  /\ []SharedInv /\ [][MemoryStep]_storesVars
<1>1. StoresInit => CronInit /\ RegistriesInit /\ RagInit /\ ToolsInit /\ SharedInv
  BY SharedInit DEF StoresInit
<1>2. [StoresNext]_storesVars =>
         /\ [CronNext]_cronVars /\ [RegistriesNext]_registryVars
         /\ [RagIndexNext \/ RagChunkNext]_ragVars /\ [ToolsNext]_toolVars /\ MemoryStep
  BY StoresSteps
<1> QED
  BY <1>1, <1>2, SharedStep, PTL DEF StoresSpec, CronSpec, RegistriesSpec, RagSpec, ToolsSpec

\* In whatever store the program works, every variable keeps its type: no table grows
\* over its size, no list over its limit, no time over the clock.
THEOREM StoresTypeCorrect == StoresSpec => []StoresTypeOK
<1>1. SharedInv => MemoryTypeOK
  BY MemoryTypesHold DEF SharedInv, MigrationInv
<1>2. StoresTypeOK <=> CronTypeOK /\ MemoryTypeOK /\ RegistriesTypeOK /\ RagTypeOK
  BY DEF StoresTypeOK
<1> QED
  BY <1>1, <1>2, StoresParts, CronTypeCorrect, RegistriesCorrect, RagCorrect, PTL

\* The export takes the newest rows, the sweep none that is fresh, no disabled skill
\* runs, and an answer stays with its request when the old requests are cleared.
THEOREM StepsAreRight == StoresSpec => StepsSelectRight
<1>1. SharedInv => RowsInv
  BY DEF SharedInv, MigrationInv
<1>2. RowsInv => [\A days \in 1..clock :
                     memory_hygiene_run(days) =>
                        \A x \in rows \ rows' : clock - x.timestamp > days]_memoryVars
  BY SweepStep
<1>3. SharedInv /\ [MemoryStep]_storesVars => [exported' /= exported => ExportsNewest]_memoryVars
  <2> SUFFICES ASSUME SharedInv, [MemoryStep]_storesVars, exported' /= exported, ~UNCHANGED memoryVars
               PROVE  ExportsNewest
    OBVIOUS
  <2>1. RowsInv /\ MigrationInv /\ MemoryTypeInv
    BY DEF SharedInv, MigrationInv
  <2>2. MemoryStep
    BY DEF storesVars, migrationVars
  <2>3. MemoryNext
    BY <2>1, <2>2, MigrationLeaves DEF MemoryStep
  <2> QED
    BY <2>1, <2>3, ExportStep
<1>4. StoresSpec => SweepSparesFresh
  BY <1>1, <1>2, StoresParts, PTL DEF SweepSparesFresh
<1>5. StoresSpec => [][exported' /= exported => ExportsNewest]_memoryVars
  BY <1>3, StoresParts, PTL
<1>6. StoresSpec => ExportIsNewest
  BY <1>5 DEF ExportIsNewest, ExportsNewest
<1> QED
  BY <1>4, <1>6, StoresParts, DisabledStaysOff, AnswersStayWithRequests, PTL DEF StepsSelectRight

\* All that the stores promise holds for all of them together, as long as no two
\* processes use the table of cron at the same time.
THEOREM StoresAreFaithful ==
    ASSUME OneAtATime
    PROVE  StoresSpec => /\ [](AddedIsPersisted /\ CronFaithful /\ MemoryFaithful)
                         /\ [](MigrationFaithful /\ RegistriesFaithful)
                         /\ [](RagFaithful /\ ToolsFaithful) /\ RunsAreSpaced
<1>1. SharedInv => MemoryFaithful /\ MigrationFaithful
  <2>1. SharedInv => RowsInv
    BY DEF SharedInv, MigrationInv
  <2> QED
    BY <2>1, RecalledIsBest, CacheAnswers, ChunksAreRight, MigrationInvHolds DEF SharedInv, MemoryFaithful, RowsInv
<1>2. CronSpec => []AddedIsPersisted
  BY AddedTasksStay
<1>3. CronSpec => []CronFaithful
  BY CronIsFaithful
<1>4. CronSpec => RunsAreSpaced
  BY RunsAreSpacedOut
<1> QED
  BY <1>1, <1>2, <1>3, <1>4, StoresParts, RegistriesCorrect, RagCorrect, ToolsAreFaithful, PTL
=============================================================================
