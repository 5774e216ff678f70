------------------------------ MODULE Registries ------------------------------
(***************************************************************************)
(* Tables in which an entry is found by its name, the first one of that    *)
(* name: the auth profiles (src/src/auth/auth.c, with cmd_auth), the       *)
(* skills (src/src/skills/skills.c), the instances of the daemon           *)
(* (src/src/instance/instance.c), the approval requests                    *)
(* (src/src/approval/approval.c) and the health checks                     *)
(* (src/src/health/health.c).  Names are not unique in the first two.      *)
(***************************************************************************)
EXTENDS Naturals, Sequences, FiniteSets, SequencesExt, Selection

CONSTANTS EntryNames, LongNames,   \* names; those of INSTANCE_ID_MAX characters
          Settings,                \* what an instance is configured with
          MaxEntries,              \* the size of every table
          Expiry,                  \* 300 seconds
          MaxRegTime               \* bound: the clock

\* An empty string, where a name or a configuration may be.
None == "none"

ASSUME RegistriesAssumption ==
    /\ None \notin EntryNames /\ LongNames \subseteq EntryNames /\ MaxEntries \in Nat \ {0}
    /\ Expiry \in Nat \ {0} /\ MaxRegTime \in Nat

VARIABLES profiles, active_profile, auth_toml,   \* auth_t and its file
          skills, banned, executed,   \* skills; the names that were disabled and not
                                      \* enabled or removed since; what ran last
          instances, configured,      \* the registry; configured[n]: its last config
          approvals, given,           \* the requests; the answers given to them
          regtime,
          checks, g_checkers, measured   \* health: the monitor, the checkers, and
                                         \* what each of them has found last

authVars == <<profiles, active_profile, auth_toml>>
skillVars == <<skills, banned, executed>>
instanceVars == <<instances, configured>>
approvalVars == <<approvals, given, regtime>>
healthVars == <<checks, g_checkers, measured>>
registryVars == <<authVars, skillVars, instanceVars, approvalVars, healthVars>>

RegistriesInit ==
    /\ profiles = <<>> /\ active_profile = None /\ auth_toml = <<>>
    /\ skills = <<>> /\ banned = {} /\ executed = None
    /\ instances = <<>> /\ configured = [n \in EntryNames |-> None]
    /\ approvals = <<>> /\ given = {} /\ regtime = 0
    /\ checks = <<>> /\ g_checkers = <<>> /\ measured = [n \in EntryNames |-> "unknown"]

FirstOf(t, n) == SelectInSeq(t, LAMBDA e : e.name = n)
-----------------------------------------------------------------------------
(* auth.c *)

\* A command begins: auth_load leaves the table empty, since the key of a line
\* "name = x" is read with the blank behind it and equals none of the keys.
auth_load == /\ profiles' = <<>> /\ active_profile' = None
             /\ UNCHANGED <<auth_toml, skillVars, instanceVars, approvalVars, healthVars>>

auth_add_profile(n) ==
    /\ Len(profiles) < MaxEntries
    /\ profiles' = Append(profiles, [name |-> n, active |-> FALSE])
    /\ UNCHANGED <<active_profile, auth_toml, skillVars, instanceVars, approvalVars, healthVars>>

auth_remove_profile(n) ==
    /\ FirstOf(profiles, n) > 0
    /\ profiles' = RemoveAt(profiles, FirstOf(profiles, n))
    /\ UNCHANGED <<active_profile, auth_toml, skillVars, instanceVars, approvalVars, healthVars>>

auth_set_active(n) ==
    /\ profiles' = [i \in DOMAIN profiles |-> [profiles[i] EXCEPT !.active = (profiles[i].name = n)]]
    /\ active_profile' = IF FirstOf(profiles, n) > 0 THEN n ELSE active_profile
    /\ UNCHANGED <<auth_toml, skillVars, instanceVars, approvalVars, healthVars>>

auth_save == /\ auth_toml' = [i \in DOMAIN profiles |-> profiles[i].name]
             /\ UNCHANGED <<profiles, active_profile, skillVars, instanceVars, approvalVars,
                            healthVars>>
-----------------------------------------------------------------------------
(* skills.c *)

skills_add(n) ==
    /\ Len(skills) < MaxEntries
    /\ skills' = Append(skills, [name |-> n, enabled |-> TRUE])
    /\ UNCHANGED <<banned, executed, authVars, instanceVars, approvalVars, healthVars>>

skills_remove(n) ==
    /\ FirstOf(skills, n) > 0
    /\ skills' = RemoveAt(skills, FirstOf(skills, n)) /\ banned' = banned \ {n}
    /\ UNCHANGED <<executed, authVars, instanceVars, approvalVars, healthVars>>

\* skills_enable and skills_disable.
skills_enable(n, b) ==
    /\ FirstOf(skills, n) > 0
    /\ skills' = [skills EXCEPT ![FirstOf(skills, n)].enabled = b]
    /\ banned' = IF b THEN banned \ {n} ELSE banned \cup {n}
    /\ executed' = None
    /\ UNCHANGED <<authVars, instanceVars, approvalVars, healthVars>>

skills_execute(n) ==
    /\ FirstOf(skills, n) > 0 /\ skills[FirstOf(skills, n)].enabled
    /\ executed' = n
    /\ UNCHANGED <<skills, banned, authVars, instanceVars, approvalVars, healthVars>>
-----------------------------------------------------------------------------
(* instance.c *)

\* The first entry of the id.  A long id is stored without its terminator and
\* the comparison reads on behind it, so it is found only as the last entry.
FindInstance(n) ==
    LET i == FirstOf(instances, n)
    IN  IF n \in LongNames THEN (IF i = Len(instances) /\ i < MaxEntries THEN i ELSE 0) ELSE i

\* Mistake: an instance that is there already keeps its configuration.
register_once(n, c) ==
    /\ IF FindInstance(n) > 0 THEN UNCHANGED instances
       ELSE Len(instances) < MaxEntries /\ instances' = Append(instances, [name |-> n, config |-> c])
    /\ configured' = [configured EXCEPT ![n] = c]
    /\ UNCHANGED <<authVars, skillVars, approvalVars, healthVars>>

instance_register(n, c) ==
    /\ IF FindInstance(n) > 0
       THEN instances' = [instances EXCEPT ![FindInstance(n)].config = c]
       ELSE Len(instances) < MaxEntries /\ instances' = Append(instances, [name |-> n, config |-> c])
    /\ configured' = [configured EXCEPT ![n] = c]
    /\ UNCHANGED <<authVars, skillVars, approvalVars, healthVars>>

instance_get_config(n) ==
    IF FindInstance(n) = 0 THEN None ELSE instances[FindInstance(n)].config

instance_shutdown ==
    /\ instances' = <<>> /\ configured' = [n \in EntryNames |-> None]
    /\ UNCHANGED <<authVars, skillVars, approvalVars, healthVars>>
-----------------------------------------------------------------------------
(* approval.c; the ids are random and taken to be different *)

approval_request(id) ==
    /\ Len(approvals) < MaxEntries /\ FirstOf(approvals, id) = 0
    /\ \A g \in given : g[1] /= id
    /\ approvals' = Append(approvals, [name |-> id, status |-> "pending",
                                       expires_at |-> regtime + Expiry])
    /\ UNCHANGED <<given, regtime, authVars, skillVars, instanceVars, healthVars>>

\* The last answer counts, also one that comes after the request expired.
approval_respond(id, approved) ==
    /\ FirstOf(approvals, id) > 0
    /\ approvals' = [approvals EXCEPT ![FirstOf(approvals, id)].status =
                        IF approved THEN "approved" ELSE "denied"]
    /\ given' = {g \in given : g[1] /= id} \cup {<<id, approved>>}
    /\ UNCHANGED <<regtime, authVars, skillVars, instanceVars, healthVars>>

Live == {i \in DOMAIN approvals : approvals[i].expires_at > regtime}

\* Mistake: the entry is copied from the place it goes to.
clear_expired_stale ==
    /\ approvals' = SubSeq(approvals, 1, Cardinality(Live))
    /\ UNCHANGED <<given, regtime, authVars, skillVars, instanceVars, healthVars>>

\* The others move to the front of the array.
approval_clear_expired ==
    /\ approvals' = Picked(approvals, Live)
    /\ UNCHANGED <<given, regtime, authVars, skillVars, instanceVars, healthVars>>

RegistryClock == /\ regtime < MaxRegTime /\ regtime' = regtime + 1
                 /\ UNCHANGED <<approvals, given, authVars, skillVars, instanceVars, healthVars>>
-----------------------------------------------------------------------------
(* health.c *)

health_register(n) ==
    /\ Len(checks) < MaxEntries
    /\ checks' = Append(checks, [name |-> n, status |-> "ok", fresh |-> FALSE])
    /\ UNCHANGED <<g_checkers, measured, authVars, skillVars, instanceVars, approvalVars>>

\* The checkers are global: every health_init_auto adds its own once more.
health_register_checker(n) ==
    /\ Len(g_checkers) < MaxEntries
    /\ g_checkers' = Append(g_checkers, n)
    /\ UNCHANGED <<checks, measured, authVars, skillVars, instanceVars, approvalVars>>

\* The first entry of each name in found gets what was found.
health_update(c, found) ==
    [i \in DOMAIN c |-> IF c[i].name \in DOMAIN found /\ FirstOf(c, c[i].name) = i
                        THEN [c[i] EXCEPT !.status = found[c[i].name], !.fresh = TRUE]
                        ELSE c[i]]

\* Every checker is asked, and its component updated if it is registered.
health_run_checks ==
    /\ g_checkers /= <<>>
    /\ \E found \in [ToSet(g_checkers) -> {"ok", "degraded"}] :
          /\ measured' = [n \in EntryNames |-> IF n \in ToSet(g_checkers) THEN found[n]
                                                                       ELSE measured[n]]
          /\ checks' = health_update(checks, found)
    /\ UNCHANGED <<g_checkers, authVars, skillVars, instanceVars, approvalVars>>

AuthNext == \/ auth_load \/ auth_save
            \/ \E n \in EntryNames : \/ auth_add_profile(n) \/ auth_remove_profile(n)
                                     \/ auth_set_active(n)
SkillsNext == \E n \in EntryNames :
                 \/ skills_add(n) \/ skills_remove(n) \/ skills_execute(n)
                 \/ \E b \in BOOLEAN : skills_enable(n, b)
InstancesNext == \/ instance_shutdown
                 \/ \E n \in EntryNames, c \in Settings : instance_register(n, c)
ApprovalsNext == \/ approval_clear_expired \/ RegistryClock
                 \/ \E n \in EntryNames : \/ approval_request(n)
                                          \/ \E b \in BOOLEAN : approval_respond(n, b)
HealthNext == \/ health_run_checks
              \/ \E n \in EntryNames : health_register(n) \/ health_register_checker(n)

RegistriesNext == AuthNext \/ SkillsNext \/ InstancesNext \/ ApprovalsNext \/ HealthNext

RegistriesSpec == RegistriesInit /\ [][RegistriesNext]_registryVars
-----------------------------------------------------------------------------
\* No table has more entries than it has room for.
RegistriesTypeOK ==
    /\ \A t \in {profiles, skills, instances, approvals, checks} : Len(t) <= MaxEntries
    /\ Len(g_checkers) <= MaxEntries /\ regtime \in 0..MaxRegTime

\* At most one name is active, through adding, removing and switching, and it is
\* the one that auth_save writes as active_profile.
OneActive == \A i \in DOMAIN profiles : profiles[i].active => profiles[i].name = active_profile

\* A skill that was disabled does not run before it is enabled or removed, also
\* when others of its name are added: add, remove, disable and run agree on
\* which entry a name stands for.
DisabledNeverRuns == [][executed' /= executed => executed' \notin banned']_skillVars

\* Workers get the configuration an instance was registered with last, and every
\* id that is short enough is in the registry once.
InstanceIsCurrent ==
    \A n \in EntryNames \ LongNames :
        /\ instance_get_config(n) = configured[n]
        /\ Cardinality({i \in DOMAIN instances : instances[i].name = n}) <= 1

\* A request shows the last answer that was given to it, and no request is lost
\* before it expires, although clearing moves the others within the array.
AnswersStay ==
    [][\A i \in DOMAIN approvals :
          LET r == approvals[i]
              now_at == SelectInSeq(approvals', LAMBDA x : x.name = r.name)
          IN  /\ now_at = 0 => r.expires_at <= regtime
              /\ now_at > 0 => \A g \in given' : g[1] = r.name =>
                    approvals'[now_at].status = IF g[2] THEN "approved" ELSE "denied"
      ]_approvalVars

\* A component's status is what its checker found last.
HealthIsMeasured ==
    \A i \in DOMAIN checks : checks[i].fresh => checks[i].status = measured[checks[i].name]

\* The small tables say what was last told to them, although names repeat.
RegistriesFaithful == OneActive /\ InstanceIsCurrent /\ HealthIsMeasured
=============================================================================
