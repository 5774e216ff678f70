------------------------------- MODULE Services -------------------------------
(***************************************************************************)
(* The service manager, src/src/service/service.c: a table of services,    *)
(* each of which may have a child process.  One thread calls it, in any    *)
(* order: the API is checked as such (the command `service` makes one call *)
(* on an empty table and never gets to the later states).  The             *)
(* kernel is modelled by what fork, kill and waitpid do: a child that has  *)
(* ended keeps its pid until it is waited for, then the pid may go to any  *)
(* other process.                                                          *)
(***************************************************************************)
EXTENDS Naturals, Sequences, FiniteSets, SequencesExt

CONSTANTS ServiceNames, Pids,
          MaxServices,   \* 32
          MaxForks       \* bound: children started

ASSUME ServicesAssumption == /\ Pids \subseteq Nat \ {0} /\ MaxServices \in Nat \ {0}
                             /\ MaxForks \in Nat

VARIABLES services,    \* the table
          owner,       \* owner[p]: whose process p is
          signalled,   \* the children that were sent SIGTERM
          stopping,    \* the index of the service that service_stop waits for, 0 if none
          restarting,  \* it was called by service_restart
          forks,
          stray        \* a signal went to a process that is no child

serviceVars == <<services, owner, signalled, stopping, restarting, forks, stray>>

States == {"stopped", "running", "stopping", "failed"}
Service == [name : ServiceNames, state : States, pid : Pids \cup {0}, enabled : BOOLEAN]

ServicesInit == /\ services = <<>> /\ owner = [p \in Pids |-> "none"] /\ signalled = {}
                /\ stopping = 0 /\ restarting = FALSE /\ forks = 0 /\ stray = FALSE

\* The first entry of the name, 0 if there is none.
Find(n) == SelectInSeq(services, LAMBDA s : s.name = n)
Ready == stopping = 0

service_register(n) ==
    /\ Ready /\ Len(services) < MaxServices
    /\ services' = Append(services, [name |-> n, state |-> "stopped", pid |-> 0,
                                     enabled |-> FALSE])
    /\ UNCHANGED <<owner, signalled, stopping, restarting, forks, stray>>

\* kill(pid, SIGTERM) for every pid in the set.
Kill(ps) == /\ signalled' = signalled \cup {p \in ps : owner[p] = "child"}
            /\ stray' = (stray \/ \E p \in ps : owner[p] \in {"none", "other"})

Running(i) == services[i].state = "running"

\* The entries behind it move up; nobody waits for the child.
service_unregister(n) ==
    /\ Ready /\ Find(n) > 0
    /\ Kill(IF Running(Find(n)) THEN {services[Find(n)].pid} ELSE {})
    /\ services' = RemoveAt(services, Find(n))
    /\ UNCHANGED <<owner, stopping, restarting, forks>>

\* fork gives a pid that is not in use, or fails.  What the child does, exec and
\* exit included, is its own business.
StartService(table, used, i) ==
    IF table[i].state = "running" THEN UNCHANGED <<services, owner, forks>>
    ELSE \/ /\ forks < MaxForks
            /\ \E p \in Pids :
                  /\ used[p] = "none"
                  /\ owner' = [used EXCEPT ![p] = "child"]
                  /\ services' = [table EXCEPT ![i].state = "running", ![i].pid = p]
            /\ forks' = forks + 1
         \/ /\ services' = [table EXCEPT ![i].state = "failed"]
            /\ owner' = used /\ UNCHANGED forks

service_start(n) ==
    /\ Ready /\ Find(n) > 0
    /\ StartService(services, owner, Find(n))
    /\ UNCHANGED <<signalled, stopping, restarting, stray>>

\* service_stop up to waitpid, called by itself or by service_restart (which is
\* service_start when nothing is to be stopped).
StopBegin(n, restart) ==
    /\ Ready /\ Find(n) > 0 /\ Running(Find(n))
    /\ services' = [services EXCEPT ![Find(n)].state = "stopping"]
    /\ Kill({services[Find(n)].pid})
    /\ stopping' = Find(n) /\ restarting' = restart
    /\ UNCHANGED <<owner, forks>>

\* Mistake: the state is left for the next call to find out.
StopEndForgets ==
    /\ stopping > 0 /\ owner[services[stopping].pid] = "zombie"
    /\ owner' = [owner EXCEPT ![services[stopping].pid] = "none"]
    /\ services' = [services EXCEPT ![stopping].state = "running"]
    /\ signalled' = signalled \ {services[stopping].pid}
    /\ stopping' = 0
    /\ UNCHANGED <<restarting, forks, stray>>

\* waitpid returns when the child has ended; service_restart goes on.
StopEnd ==
    /\ stopping > 0 /\ owner[services[stopping].pid] = "zombie"
    /\ LET freed == [owner EXCEPT ![services[stopping].pid] = "none"]
           stopped == [services EXCEPT ![stopping].state = "stopped", ![stopping].pid = 0]
       IN  IF restarting THEN StartService(stopped, freed, stopping)
           ELSE services' = stopped /\ owner' = freed /\ UNCHANGED forks
    /\ signalled' = signalled \ {services[stopping].pid}
    /\ stopping' = 0 /\ restarting' = FALSE
    /\ UNCHANGED stray

SetEnabled(n, b) ==
    /\ Ready /\ Find(n) > 0 /\ services[Find(n)].enabled /= b
    /\ services' = [services EXCEPT ![Find(n)].enabled = b]
    /\ UNCHANGED <<owner, signalled, stopping, restarting, forks, stray>>

service_manager_free ==
    /\ Ready /\ services /= <<>>
    /\ Kill({services[i].pid : i \in {j \in DOMAIN services : Running(j)}})
    /\ services' = <<>>
    /\ UNCHANGED <<owner, stopping, restarting, forks>>
-----------------------------------------------------------------------------
\* A child ends, after SIGTERM or when it likes; other processes come and go.
ChildEnds(p) ==
    /\ owner[p] = "child"
    /\ owner' = [owner EXCEPT ![p] = "zombie"]
    /\ UNCHANGED <<services, signalled, stopping, restarting, forks, stray>>

OtherProcess(p) ==
    /\ owner[p] \in {"none", "other"}
    /\ owner' = [owner EXCEPT ![p] = IF @ = "none" THEN "other" ELSE "none"]
    /\ UNCHANGED <<services, signalled, stopping, restarting, forks, stray>>

ServicesNext ==
    \/ \E n \in ServiceNames :
          \/ service_register(n) \/ service_unregister(n) \/ service_start(n)
          \/ (\E restart \in BOOLEAN : StopBegin(n, restart))
          \/ \E b \in BOOLEAN : SetEnabled(n, b)
    \/ StopEnd \/ service_manager_free
    \/ \E p \in Pids : ChildEnds(p) \/ OtherProcess(p)

ServicesSpec == ServicesInit /\ [][ServicesNext]_serviceVars
-----------------------------------------------------------------------------
\* The table and the processes.
ServicesTypeOK ==
    /\ services \in Seq(Service) /\ Len(services) <= MaxServices
    /\ owner \in [Pids -> {"none", "other", "child", "zombie"}]
    /\ stopping \in 0..Len(services)

\* SIGTERM goes to children of the manager and to nobody else: a pid in the
\* table is that of a child which ended at most, and was not waited for, so it
\* cannot have become another process; no two services share one.
NoStrayKill ==
    /\ ~stray
    /\ \A i \in DOMAIN services : services[i].state \in {"running", "stopping"} =>
          /\ owner[services[i].pid] \in {"child", "zombie"}
          /\ \A j \in DOMAIN services : j /= i /\ services[j].pid > 0 =>
                services[j].pid /= services[i].pid

\* Every child that runs belongs to a service, or was told to end.
NoOrphan ==
    \A p \in Pids : owner[p] = "child" =>
        \/ p \in signalled
        \/ \E i \in DOMAIN services : services[i].pid = p /\ services[i].state = "running"

\* service_stop returns, unless its child never ends (SIGTERM can be ignored and
\* the wait has no limit).
StopReturns ==
    (stopping > 0) ~> \/ stopping = 0
                      \/ [](stopping > 0 /\ owner[services[stopping].pid] = "child")

\* The manager's table and the processes agree, however children end.
ServicesOwned == NoStrayKill /\ NoOrphan
=============================================================================
