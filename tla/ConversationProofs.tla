------------------------- MODULE ConversationProofs -------------------------
(***************************************************************************)
(* What the service manager, the run of a command, the providers, the      *)
(* senders, the history, the Telegram listener and the channel table       *)
(* promise, for every value of their constants.  Each has an inductive     *)
(* invariant of its own, and since a step of the conversation is a step of *)
(* one part and leaves the others alone, all of them hold of the composed  *)
(* specification too.                                                      *)
(***************************************************************************)
EXTENDS MCConversation, AgentTurnsProofs, OperatorLemmas, FiniteSetTheorems, SequenceTheorems, TLAPS
-----------------------------------------------------------------------------
(* The run of a command. *)

USE DEF shellVars, NoCode

\* A child is there while the loop polls, and has no result yet; a result that is
\* there before the last waitpid is the child's.
ShellInv ==
    /\ KillsOwnChild
    /\ loop \in {"idle", "polling", "waiting", "returned"}
    /\ loop = "idle" => child = "none"
    /\ child = "none" => loop \in {"idle", "returned"} /\ code = -1 /\ status = -1
    /\ child = "running" => code = -1
    /\ child \in {"none", "running", "zombie", "reaped"}
    /\ loop = "polling" => child /= "reaped"
    /\ child \in {"running", "zombie"} => status = -1 /\ loop \in {"polling", "waiting"}
    /\ child = "reaped" => loop \in {"waiting", "returned"}
    /\ child = "reaped" => status = code \/ (status = -1 /\ TimeIsUp)

LEMMA ShellInvInit == ShellInit => ShellInv
  BY DEF ShellInit, ShellInv, KillsOwnChild

LEMMA ShellInvStep == ShellInv /\ [ShellRunNext]_shellVars => ShellInv'
<1> SUFFICES ASSUME ShellInv, [ShellRunNext]_shellVars PROVE ShellInv'
  OBVIOUS
<1> USE DEF ShellInv, KillsOwnChild, TimeIsUp
<1>1. CASE RunBegin
  BY <1>1 DEF RunBegin
<1>2. CASE Timeout
  BY <1>2 DEF Timeout
<1>3. CASE PollOutput
  BY <1>3 DEF PollOutput
<1>4. CASE PollEnd
  BY <1>4 DEF PollEnd
<1>5. CASE PollInterrupted
  BY <1>5 DEF PollInterrupted
<1>6. CASE PollNothing
  BY <1>6 DEF PollNothing
<1>7. CASE WaitChild
  BY <1>7 DEF WaitChild
<1>8. CASE Writes
  BY <1>8 DEF Writes
<1>9. CASE Exits
  BY <1>9 DEF Exits
<1>10. CASE Closes
  BY <1>10 DEF Closes
<1>11. CASE Second
  BY <1>11 DEF Second
<1>12. CASE UNCHANGED shellVars
  BY <1>12
<1>13. QED
  BY <1>1, <1>2, <1>3, <1>4, <1>5, <1>6, <1>7, <1>8, <1>9, <1>10, <1>11, <1>12 DEF ShellRunNext

LEMMA ShellInvClean == ShellInv => RunIsClean
  BY DEF ShellInv, RunIsClean, KillsOwnChild, ChildIsReaped, ExitCodeKept
-----------------------------------------------------------------------------
(* The service manager. *)

USE DEF serviceVars

\* SelectInSeq gives 0 or a place whose element passes the test.
LEMMA FindIsPlace ==
    ASSUME NEW n, services \in Seq(Service), Find(n) > 0
    PROVE  Find(n) \in 1..Len(services)
<1> DEFINE I == {i \in 1..Len(services) : services[i].name = n}
<1>1. Find(n) = IF I # {} THEN Min(I) ELSE 0
  BY DEF Find, SelectInSeq
<1>2. I # {}
  BY <1>1
<1>3. I \subseteq Nat
  OBVIOUS
<1>4. Min(I) \in I
  BY <1>2, <1>3, MinOfNats
<1>5. QED
  BY <1>1, <1>2, <1>4

Busy(i) == services[i].state \in {"running", "stopping"}

ServicesInv ==
    /\ ServicesTypeOK /\ signalled \subseteq Pids /\ ~stray
    /\ \A i \in DOMAIN services :
          /\ Busy(i) => /\ services[i].pid \in Pids
                        /\ owner[services[i].pid] \in {"child", "zombie"}
          /\ ~Busy(i) => services[i].pid = 0
          /\ services[i].state = "stopping" <=> i = stopping
    /\ \A i, j \in DOMAIN services :
          Busy(i) /\ Busy(j) /\ i /= j => services[i].pid /= services[j].pid
    /\ stopping > 0 =>
          (owner[services[stopping].pid] = "child" => services[stopping].pid \in signalled)
    /\ NoOrphan

LEMMA ServicesInvInit == ServicesInit => ServicesInv
  BY ServicesAssumption DEF ServicesInit, ServicesInv, ServicesTypeOK, NoOrphan, Busy

\* A change of one element of a sequence.
LEMMA EntryChanged ==
    ASSUME NEW S, NEW s \in Seq(S), NEW k \in 1..Len(s), NEW e \in S, NEW r, r = [s EXCEPT ![k] = e]
    PROVE  /\ r \in Seq(S) /\ Len(r) = Len(s) /\ DOMAIN r = 1..Len(s)
           /\ r[k] = e /\ \A i \in 1..Len(s) : i /= k => r[i] = s[i]
  OBVIOUS

\* The states and pids are all that the invariant is about.
LEMMA RegisterStep == ASSUME ServicesInv, NEW n \in ServiceNames, service_register(n) PROVE ServicesInv'
<1> DEFINE e == [name |-> n, state |-> "stopped", pid |-> 0, enabled |-> FALSE]
<1>1. services \in Seq(Service) /\ Len(services) \in Nat /\ Len(services) < MaxServices /\ MaxServices \in Nat
  BY ServicesAssumption DEF ServicesInv, ServicesTypeOK, service_register
<1>2. e \in Service
  BY DEF Service, States
<1>3. /\ services' \in Seq(Service) /\ Len(services') = Len(services) + 1
      /\ services'[Len(services) + 1] = e /\ \A i \in 1..Len(services) : services'[i] = services[i]
  BY <1>1, <1>2, AppendProperties DEF service_register
<1>4. e.state = "stopped" /\ e.pid = 0
  OBVIOUS
<1> HIDE DEF e
<1>5. /\ UNCHANGED <<owner, signalled, stopping, restarting, forks, stray>> /\ stopping = 0
  BY DEF service_register, Ready
<1>6. ServicesTypeOK'
  BY <1>1, <1>3, <1>5 DEF ServicesInv, ServicesTypeOK
<1>7. \A i \in DOMAIN services' : i \in DOMAIN services \/ i = Len(services) + 1
  BY <1>1, <1>3
<1>8. \A i \in DOMAIN services : i \in DOMAIN services' /\ services'[i] = services[i]
  BY <1>1, <1>3
<1>9. NoOrphan'
  BY <1>5, <1>8 DEF NoOrphan, ServicesInv
<1>10. QED
  BY <1>1, <1>3, <1>4, <1>5, <1>6, <1>7, <1>8, <1>9 DEF ServicesInv, Busy

\* SIGTERM to the running ones goes to children only.
LEMMA KillStep ==
    ASSUME ServicesInv, NEW K \in SUBSET DOMAIN services, \A i \in K : Running(i),
           Kill({services[i].pid : i \in K})
    PROVE  /\ ~stray' /\ signalled' \subseteq Pids /\ signalled \subseteq signalled'
           /\ \A i \in K : owner[services[i].pid] = "child" => services[i].pid \in signalled'
<1>1. \A i \in K : Busy(i)
  BY DEF Busy, Running
<1>2. \A i \in K : services[i].pid \in Pids /\ owner[services[i].pid] \in {"child", "zombie"}
  BY <1>1 DEF ServicesInv
<1>3. QED
  BY <1>2 DEF Kill, ServicesInv

LEMMA FreeStep == ServicesInv /\ service_manager_free => ServicesInv'
<1> SUFFICES ASSUME ServicesInv, service_manager_free PROVE ServicesInv'
  OBVIOUS
<1> DEFINE K == {j \in DOMAIN services : Running(j)}
<1>1. /\ ~stray' /\ signalled' \subseteq Pids /\ signalled \subseteq signalled'
      /\ \A i \in K : owner[services[i].pid] = "child" => services[i].pid \in signalled'
  BY KillStep DEF service_manager_free
<1>2. services' = <<>> /\ stopping = 0 /\ UNCHANGED <<owner, stopping>>
  BY DEF service_manager_free, Ready
<1>3. NoOrphan'
  BY <1>1, <1>2 DEF NoOrphan, ServicesInv, Running
<1>4. ServicesTypeOK'
  BY <1>2, ServicesAssumption DEF ServicesTypeOK, ServicesInv
<1>5. QED
  BY <1>1, <1>2, <1>3, <1>4 DEF ServicesInv

LEMMA UnregisterStep == ASSUME ServicesInv, NEW n \in ServiceNames, service_unregister(n) PROVE ServicesInv'
<1>0. services \in Seq(Service) /\ Len(services) \in Nat /\ MaxServices \in Nat /\ Len(services) <= MaxServices
  BY ServicesAssumption DEF ServicesInv, ServicesTypeOK
<1>1. PICK k \in 1..Len(services) : k = Find(n)
  BY <1>0, FindIsPlace DEF service_unregister
<1>2. /\ services' \in Seq(Service) /\ Len(services') = Len(services) - 1
      /\ \A j \in 1..Len(services) - 1 :
            services'[j] = IF j < k THEN services[j] ELSE services[j + 1]
  BY <1>0, <1>1, RemoveAtProperties DEF service_unregister
<1>3. stopping = 0 /\ UNCHANGED <<owner, stopping>>
  BY DEF service_unregister, Ready
<1>4. /\ ~stray' /\ signalled' \subseteq Pids /\ signalled \subseteq signalled'
      /\ Running(k) => (owner[services[k].pid] = "child" => services[k].pid \in signalled')
  <2>1. CASE Running(k)
    <3>1. {services[i].pid : i \in {k}} = {services[k].pid}
      OBVIOUS
    <3>2. Kill({services[i].pid : i \in {k}})
      BY <1>1, <2>1, <3>1 DEF service_unregister
    <3>3. {k} \in SUBSET DOMAIN services /\ \A i \in {k} : Running(i)
      BY <1>0, <2>1
    <3>4. QED
      BY <3>2, <3>3, KillStep
  <2>2. CASE ~Running(k)
    <3>1. Kill({})
      BY <1>1, <2>2 DEF service_unregister
    <3>2. QED
      BY <2>2, <3>1 DEF Kill, ServicesInv
  <2>3. QED
    BY <2>1, <2>2
<1>5. ServicesTypeOK'
  BY <1>0, <1>2, <1>3 DEF ServicesTypeOK, ServicesInv
<1>a. DOMAIN services = 1..Len(services) /\ DOMAIN services' = 1..Len(services) - 1
  BY <1>0, <1>2
<1>6. \A i \in DOMAIN services : i /= k =>
         \E j \in DOMAIN services' : services'[j] = services[i]
  <2> SUFFICES ASSUME NEW i \in 1..Len(services), i /= k
               PROVE  \E j \in 1..Len(services) - 1 : services'[j] = services[i]
    BY <1>a
  <2>1. CASE i < k
    BY <1>0, <1>2, <2>1
  <2>2. CASE i > k
    <3>1. i - 1 \in 1..Len(services) - 1 /\ ~(i - 1 < k) /\ (i - 1) + 1 = i
      BY <1>0, <2>2
    <3>2. QED
      BY <1>2, <3>1
  <2>3. QED
    BY <1>0, <2>1, <2>2
<1>7. NoOrphan'
  <2> SUFFICES ASSUME NEW p \in Pids, owner'[p] = "child", p \notin signalled'
               PROVE  \E i \in DOMAIN services' : services'[i].pid = p /\ services'[i].state = "running"
    BY DEF NoOrphan
  <2>1. PICK i \in DOMAIN services : services[i].pid = p /\ services[i].state = "running"
    BY <1>3, <1>4 DEF NoOrphan, ServicesInv
  <2>2. i /= k
    BY <1>3, <1>4, <2>1 DEF Running
  <2>3. QED
    BY <1>6, <2>1, <2>2
<1>8. ASSUME NEW i \in DOMAIN services'
      PROVE  \E h \in DOMAIN services : services'[i] = services[h] /\ h = IF i < k THEN i ELSE i + 1
  BY <1>0, <1>2
<1>9. ASSUME NEW i \in DOMAIN services'
      PROVE  /\ Busy(i)' => /\ services'[i].pid \in Pids
                            /\ owner'[services'[i].pid] \in {"child", "zombie"}
             /\ ~Busy(i)' => services'[i].pid = 0
             /\ services'[i].state /= "stopping" /\ i /= stopping'
  <2>1. PICK h \in DOMAIN services : services'[i] = services[h]
    BY <1>8
  <2>2. i /= 0 /\ h /= 0
    <3>1. i \in 1..Len(services') /\ h \in 1..Len(services)
      BY <1>0, <1>2
    <3>2. QED
      BY <3>1
  <2>3. QED
    BY <1>3, <2>1, <2>2 DEF ServicesInv, Busy
<1>10. ASSUME NEW i \in DOMAIN services', NEW j \in DOMAIN services', Busy(i)', Busy(j)', i /= j
       PROVE  services'[i].pid /= services'[j].pid
  <2>1. PICK h \in DOMAIN services : services'[i] = services[h] /\ h = IF i < k THEN i ELSE i + 1
    BY <1>8
  <2>2. PICK g \in DOMAIN services : services'[j] = services[g] /\ g = IF j < k THEN j ELSE j + 1
    BY <1>8
  <2>3. h /= g
    BY <1>0, <1>2, <1>10, <2>1, <2>2
  <2>4. QED
    BY <1>10, <2>1, <2>2, <2>3 DEF ServicesInv, Busy
<1>11. QED
  BY <1>3, <1>4, <1>5, <1>7, <1>9, <1>10 DEF ServicesInv

Alive == {"running", "stopping"}

\* A start gives the entry a pid that nobody had, or none.
LEMMA StartKeeps ==
    ASSUME NEW tab \in Seq(Service), NEW own \in [Pids -> {"none", "other", "child", "zombie"}],
           NEW k \in 1..Len(tab), tab[k].state \notin Alive, tab[k].pid = 0,
           StartService(tab, own, k)
    PROVE  /\ services' \in Seq(Service) /\ Len(services') = Len(tab)
           /\ owner' \in [Pids -> {"none", "other", "child", "zombie"}]
           /\ \A i \in 1..Len(tab) : i /= k => services'[i] = tab[i]
           /\ \/ /\ services'[k].state = "failed" /\ services'[k].pid = 0 /\ owner' = own
              \/ \E p \in Pids : /\ own[p] = "none" /\ services'[k].state = "running"
                                 /\ services'[k].pid = p /\ owner' = [own EXCEPT ![p] = "child"]
<1>0. tab[k] \in Service /\ tab[k].state /= "running"
  BY DEF Alive
<1>1. CASE services' = [tab EXCEPT ![k].state = "failed"] /\ owner' = own
  <2>1. [tab[k] EXCEPT !.state = "failed"] \in Service
    BY <1>0 DEF Service, States
  <2>2. services' = [tab EXCEPT ![k] = [tab[k] EXCEPT !.state = "failed"]]
    BY <1>1
  <2>3. [tab[k] EXCEPT !.state = "failed"].state = "failed" /\ [tab[k] EXCEPT !.state = "failed"].pid = 0
    BY <1>0 DEF Service
  <2>4. QED
    BY <1>1, <2>1, <2>2, <2>3
<1>2. ASSUME NEW p \in Pids, own[p] = "none", owner' = [own EXCEPT ![p] = "child"],
             services' = [tab EXCEPT ![k].state = "running", ![k].pid = p]
      PROVE  /\ services' \in Seq(Service) /\ Len(services') = Len(tab)
             /\ owner' \in [Pids -> {"none", "other", "child", "zombie"}]
             /\ \A i \in 1..Len(tab) : i /= k => services'[i] = tab[i]
             /\ services'[k].state = "running" /\ services'[k].pid = p
  <2> DEFINE e == [tab[k] EXCEPT !.state = "running", !.pid = p]
  <2>1. e \in Service /\ e.state = "running" /\ e.pid = p
    BY <1>0 DEF Service, States
  <2>2. services' = [tab EXCEPT ![k] = e]
    BY <1>2
  <2> HIDE DEF e
  <2>3. /\ services' \in Seq(Service) /\ Len(services') = Len(tab)
        /\ services'[k] = e /\ \A i \in 1..Len(tab) : i /= k => services'[i] = tab[i]
    BY <2>1, <2>2, EntryChanged
  <2>4. owner' \in [Pids -> {"none", "other", "child", "zombie"}]
    BY <1>2
  <2>5. QED
    BY <2>1, <2>3, <2>4
<1>3. QED
  BY <1>0, <1>1, <1>2 DEF StartService

LEMMA StartStep == ASSUME ServicesInv, NEW n \in ServiceNames, service_start(n) PROVE ServicesInv'
<1>0. services \in Seq(Service) /\ Len(services) \in Nat /\ DOMAIN services = 1..Len(services)
  BY DEF ServicesInv, ServicesTypeOK
<1>1. PICK k \in 1..Len(services) : k = Find(n)
  BY <1>0, FindIsPlace DEF service_start
<1>2. stopping = 0 /\ UNCHANGED <<signalled, stopping, stray>>
  BY DEF service_start, Ready
<1>3. CASE services[k].state = "running"
  <2>1. UNCHANGED serviceVars
    BY <1>1, <1>3 DEF service_start, StartService
  <2>2. QED
    BY <2>1 DEF ServicesInv, ServicesTypeOK, NoOrphan, Busy
<1>4. CASE services[k].state /= "running"
  <2>1. services[k].state \notin Alive /\ services[k].pid = 0
    BY <1>0, <1>2, <1>4 DEF ServicesInv, Alive, Busy
  <2>2. /\ services' \in Seq(Service) /\ Len(services') = Len(services)
        /\ owner' \in [Pids -> {"none", "other", "child", "zombie"}]
        /\ \A i \in 1..Len(services) : i /= k => services'[i] = services[i]
        /\ \/ /\ services'[k].state = "failed" /\ services'[k].pid = 0 /\ owner' = owner
           \/ \E p \in Pids : /\ owner[p] = "none" /\ services'[k].state = "running"
                              /\ services'[k].pid = p /\ owner' = [owner EXCEPT ![p] = "child"]
    BY <1>0, <1>1, <2>1, StartKeeps DEF service_start, ServicesInv, ServicesTypeOK
  <2>3. ServicesTypeOK' /\ DOMAIN services' = 1..Len(services)
    BY <1>2, <2>2 DEF ServicesTypeOK, ServicesInv
  <2>4. CASE services'[k].state = "failed" /\ services'[k].pid = 0 /\ owner' = owner
    <3>1. NoOrphan'
      BY <1>0, <1>2, <1>4, <2>2, <2>3, <2>4 DEF NoOrphan, ServicesInv
    <3>2. QED
      BY <1>0, <1>2, <2>2, <2>3, <2>4, <3>1 DEF ServicesInv, Busy
  <2>5. ASSUME NEW p \in Pids, owner[p] = "none", services'[k].state = "running",
               services'[k].pid = p, owner' = [owner EXCEPT ![p] = "child"]
        PROVE  ServicesInv'
    <3>0. owner'[p] = "child" /\ \A q \in Pids : q /= p => owner'[q] = owner[q]
      BY <2>5 DEF ServicesInv, ServicesTypeOK
    <3>1. NoOrphan'
      BY <1>0, <1>2, <1>4, <2>2, <2>3, <2>5, <3>0 DEF NoOrphan, ServicesInv
    <3>2. \A i \in 1..Len(services) : i /= k /\ Busy(i) => services[i].pid /= p
      BY <1>0, <2>5 DEF ServicesInv
    <3>3. ASSUME NEW i \in 1..Len(services)
          PROVE  /\ Busy(i)' => /\ services'[i].pid \in Pids
                                /\ owner'[services'[i].pid] \in {"child", "zombie"}
                 /\ ~Busy(i)' => services'[i].pid = 0
                 /\ services'[i].state = "stopping" <=> i = stopping'
      BY <1>0, <1>2, <2>2, <2>5, <3>0, <3>2 DEF ServicesInv, Busy
    <3>4. ASSUME NEW i \in 1..Len(services), NEW j \in 1..Len(services), Busy(i)', Busy(j)', i /= j
          PROVE  services'[i].pid /= services'[j].pid
      BY <1>0, <2>2, <2>5, <3>2, <3>4 DEF ServicesInv, Busy
    <3>5. QED
      BY <1>2, <2>3, <3>1, <3>3, <3>4 DEF ServicesInv
  <2>6. QED
    BY <2>2, <2>4, <2>5
<1>5. QED
  BY <1>3, <1>4

LEMMA StopBeginStep ==
    ASSUME ServicesInv, NEW n \in ServiceNames, NEW b, StopBegin(n, b) PROVE ServicesInv'
<1>0. services \in Seq(Service) /\ Len(services) \in Nat /\ DOMAIN services = 1..Len(services)
  BY DEF ServicesInv, ServicesTypeOK
<1>1. PICK k \in 1..Len(services) : k = Find(n)
  BY <1>0, FindIsPlace DEF StopBegin
<1>2. stopping = 0 /\ owner' = owner /\ stopping' = k /\ services[k].state = "running"
  BY <1>1 DEF StopBegin, Ready, Running
<1> DEFINE e == [services[k] EXCEPT !.state = "stopping"]
<1>3. e \in Service /\ e.state = "stopping" /\ e.pid = services[k].pid
  <2>1. services[k] \in Service
    BY <1>0
  <2>2. QED
    BY <2>1 DEF Service, States
<1>4. services' = [services EXCEPT ![k] = e]
  BY <1>1 DEF StopBegin
<1> HIDE DEF e
<1>5. /\ services' \in Seq(Service) /\ Len(services') = Len(services) /\ DOMAIN services' = 1..Len(services)
      /\ services'[k] = e /\ \A i \in 1..Len(services) : i /= k => services'[i] = services[i]
  BY <1>0, <1>3, <1>4, EntryChanged
<1>6. /\ ~stray' /\ signalled' \subseteq Pids /\ signalled \subseteq signalled'
      /\ owner[services[k].pid] = "child" => services[k].pid \in signalled'
  <2>1. {services[i].pid : i \in {k}} = {services[k].pid}
    OBVIOUS
  <2>2. Kill({services[i].pid : i \in {k}})
    BY <1>1, <2>1 DEF StopBegin
  <2>3. {k} \in SUBSET DOMAIN services /\ \A i \in {k} : Running(i)
    BY <1>0, <1>2 DEF Running
  <2>4. QED
    BY <2>2, <2>3, KillStep
<1>7. ServicesTypeOK'
  BY <1>0, <1>2, <1>5 DEF ServicesTypeOK, ServicesInv
<1>8. NoOrphan'
  BY <1>0, <1>2, <1>5, <1>6 DEF NoOrphan, ServicesInv
<1>9. ASSUME NEW i \in 1..Len(services)
      PROVE  /\ Busy(i)' => /\ services'[i].pid \in Pids
                            /\ owner'[services'[i].pid] \in {"child", "zombie"}
             /\ ~Busy(i)' => services'[i].pid = 0
             /\ services'[i].state = "stopping" <=> i = stopping'
  BY <1>0, <1>2, <1>3, <1>5 DEF ServicesInv, Busy
<1>10. ASSUME NEW i \in 1..Len(services), NEW j \in 1..Len(services), Busy(i)', Busy(j)', i /= j
       PROVE  services'[i].pid /= services'[j].pid
  BY <1>0, <1>2, <1>3, <1>5, <1>10 DEF ServicesInv, Busy
<1>11. QED
  BY <1>2, <1>3, <1>5, <1>6, <1>7, <1>8, <1>9, <1>10 DEF ServicesInv

LEMMA SetEnabledStep ==
    ASSUME ServicesInv, NEW n \in ServiceNames, NEW b \in BOOLEAN, SetEnabled(n, b) PROVE ServicesInv'
<1>0. services \in Seq(Service) /\ Len(services) \in Nat /\ DOMAIN services = 1..Len(services)
  BY DEF ServicesInv, ServicesTypeOK
<1>1. PICK k \in 1..Len(services) : k = Find(n)
  BY <1>0, FindIsPlace DEF SetEnabled
<1> DEFINE e == [services[k] EXCEPT !.enabled = b]
<1>2. e \in Service /\ e.state = services[k].state /\ e.pid = services[k].pid
  <2>1. services[k] \in Service
    BY <1>0
  <2>2. QED
    BY <2>1 DEF Service
<1>3. services' = [services EXCEPT ![k] = e]
  BY <1>1 DEF SetEnabled
<1> HIDE DEF e
<1>4. /\ services' \in Seq(Service) /\ Len(services') = Len(services) /\ DOMAIN services' = 1..Len(services)
      /\ services'[k] = e /\ \A i \in 1..Len(services) : i /= k => services'[i] = services[i]
  BY <1>0, <1>2, <1>3, EntryChanged
<1>5. \A i \in 1..Len(services) : services'[i].state = services[i].state /\ services'[i].pid = services[i].pid
  BY <1>2, <1>4
<1>6. UNCHANGED <<owner, signalled, stopping, stray>>
  BY DEF SetEnabled
<1>7. ServicesTypeOK'
  BY <1>0, <1>4, <1>6 DEF ServicesTypeOK, ServicesInv
<1>8. NoOrphan'
  BY <1>0, <1>4, <1>5, <1>6 DEF NoOrphan, ServicesInv
<1>9. stopping > 0 => stopping \in 1..Len(services)
  BY <1>0 DEF ServicesInv, ServicesTypeOK
<1>10. QED
  BY <1>0, <1>4, <1>5, <1>6, <1>7, <1>8, <1>9 DEF ServicesInv, Busy

\* waitpid gives the pid back, and only then may a start take it again.
LEMMA StopEndStep == ServicesInv /\ StopEnd => ServicesInv'
<1> SUFFICES ASSUME ServicesInv, StopEnd PROVE ServicesInv'
  OBVIOUS
<1>0. /\ services \in Seq(Service) /\ Len(services) \in Nat /\ DOMAIN services = 1..Len(services)
      /\ owner \in [Pids -> {"none", "other", "child", "zombie"}]
  BY DEF ServicesInv, ServicesTypeOK
<1>1. PICK k \in 1..Len(services) : k = stopping
  BY <1>0 DEF StopEnd, ServicesInv, ServicesTypeOK
<1>2. services[k].state = "stopping" /\ services[k] \in Service
  BY <1>0, <1>1 DEF ServicesInv
<1>3. PICK q \in Pids : q = services[k].pid
  BY <1>0, <1>2 DEF ServicesInv, Busy
<1>4. /\ owner[q] = "zombie" /\ signalled' = signalled \ {q} /\ stopping' = 0 /\ stray' = stray
  BY <1>1, <1>3 DEF StopEnd
<1>5. PICK freed : freed = [owner EXCEPT ![q] = "none"]
  OBVIOUS
<1>6. /\ freed \in [Pids -> {"none", "other", "child", "zombie"}] /\ freed[q] = "none"
      /\ \A p \in Pids : p /= q => freed[p] = owner[p]
  BY <1>0, <1>5
<1>7. PICK e : e = [services[k] EXCEPT !.state = "stopped", !.pid = 0]
  OBVIOUS
<1>8. e \in Service /\ e.state = "stopped" /\ e.pid = 0
  BY <1>2, <1>7 DEF Service, States
<1>9. PICK tab : tab = [services EXCEPT ![k] = e]
  OBVIOUS
<1>10. /\ tab \in Seq(Service) /\ Len(tab) = Len(services)
       /\ tab[k] = e /\ \A i \in 1..Len(services) : i /= k => tab[i] = services[i]
  BY <1>0, <1>8, <1>9, EntryChanged
<1>11. tab = [services EXCEPT ![k].state = "stopped", ![k].pid = 0]
  BY <1>7, <1>9
<1>12. IF restarting THEN StartService(tab, freed, k) ELSE services' = tab /\ owner' = freed
  BY <1>1, <1>3, <1>5, <1>11 DEF StopEnd
<1>13. /\ services' \in Seq(Service) /\ Len(services') = Len(services)
       /\ owner' \in [Pids -> {"none", "other", "child", "zombie"}]
       /\ \A i \in 1..Len(services) : i /= k => services'[i] = services[i]
       /\ \/ /\ services'[k].state \in {"stopped", "failed"} /\ services'[k].pid = 0 /\ owner' = freed
          \/ \E p \in Pids : /\ freed[p] = "none" /\ services'[k].state = "running"
                             /\ services'[k].pid = p /\ owner' = [freed EXCEPT ![p] = "child"]
  <2>1. CASE restarting
    <3>1. tab[k].state \notin Alive /\ tab[k].pid = 0 /\ k \in 1..Len(tab) /\ StartService(tab, freed, k)
      BY <1>8, <1>10, <1>12, <2>1 DEF Alive
    <3>2. /\ services' \in Seq(Service) /\ Len(services') = Len(tab)
          /\ owner' \in [Pids -> {"none", "other", "child", "zombie"}]
          /\ \A i \in 1..Len(tab) : i /= k => services'[i] = tab[i]
          /\ \/ /\ services'[k].state = "failed" /\ services'[k].pid = 0 /\ owner' = freed
             \/ \E p \in Pids : /\ freed[p] = "none" /\ services'[k].state = "running"
                                /\ services'[k].pid = p /\ owner' = [freed EXCEPT ![p] = "child"]
      BY <1>6, <1>10, <3>1, StartKeeps
    <3>3. QED
      BY <1>10, <3>2
  <2>2. CASE ~restarting
    BY <1>6, <1>8, <1>10, <1>12, <2>2
  <2>3. QED
    BY <2>1, <2>2
<1>14. ServicesTypeOK' /\ DOMAIN services' = 1..Len(services)
  BY <1>0, <1>4, <1>13 DEF ServicesTypeOK, ServicesInv
<1>15. signalled' \subseteq Pids /\ ~stray'
  BY <1>4 DEF ServicesInv
<1>16. \A i \in 1..Len(services) : i /= k =>
          /\ services[i].state /= "stopping"
          /\ Busy(i) => services[i].pid \in Pids /\ services[i].pid /= q
  BY <1>0, <1>1, <1>2, <1>3 DEF ServicesInv, Busy
<1>17. CASE services'[k].state \in {"stopped", "failed"} /\ services'[k].pid = 0 /\ owner' = freed
  <2>1. NoOrphan'
    BY <1>0, <1>2, <1>4, <1>6, <1>13, <1>14, <1>17 DEF NoOrphan, ServicesInv
  <2>2. QED
    BY <1>0, <1>4, <1>6, <1>13, <1>14, <1>15, <1>16, <1>17, <2>1 DEF ServicesInv, Busy
<1>18. ASSUME NEW p \in Pids, freed[p] = "none", services'[k].state = "running",
              services'[k].pid = p, owner' = [freed EXCEPT ![p] = "child"]
       PROVE  ServicesInv'
  <2>0. owner'[p] = "child" /\ \A r \in Pids : r /= p => owner'[r] = freed[r]
    BY <1>6, <1>18
  <2>1. NoOrphan'
    <3> SUFFICES ASSUME NEW r \in Pids, owner'[r] = "child", r \notin signalled'
                 PROVE  \E i \in 1..Len(services) : services'[i].pid = r /\ services'[i].state = "running"
      BY <1>14 DEF NoOrphan
    <3>1. CASE r = p
      BY <1>18, <3>1
    <3>2. CASE r /= p
      <4>1. owner[r] = "child" /\ r /= q /\ r \notin signalled
        BY <1>4, <1>6, <2>0, <3>2
      <4>2. PICK i \in 1..Len(services) : services[i].pid = r /\ services[i].state = "running"
        BY <1>0, <4>1 DEF NoOrphan, ServicesInv
      <4>3. i /= k
        BY <1>2, <4>2
      <4>4. QED
        BY <1>13, <4>2, <4>3
    <3>3. QED
      BY <3>1, <3>2
  <2>2. \A i \in 1..Len(services) : i /= k /\ Busy(i) => services[i].pid /= p
    BY <1>0, <1>6, <1>16, <1>18 DEF ServicesInv
  <2>3. ASSUME NEW i \in 1..Len(services)
        PROVE  /\ Busy(i)' => /\ services'[i].pid \in Pids
                              /\ owner'[services'[i].pid] \in {"child", "zombie"}
               /\ ~Busy(i)' => services'[i].pid = 0
               /\ services'[i].state = "stopping" <=> i = stopping'
    <3>1. CASE i = k
      BY <1>4, <1>18, <2>0, <3>1 DEF Busy
    <3>2. CASE i /= k
      <4>1. services'[i] = services[i] /\ services[i].state /= "stopping" /\ i /= 0
        BY <1>13, <1>16, <3>2
      <4>2. ~Busy(i) => services[i].pid = 0
        BY <1>0 DEF ServicesInv
      <4>3. Busy(i) => /\ services[i].pid \in Pids /\ services[i].pid /= p /\ services[i].pid /= q
                       /\ owner[services[i].pid] \in {"child", "zombie"}
        BY <1>0, <1>16, <2>2, <3>2 DEF ServicesInv
      <4>4. Busy(i) => owner'[services[i].pid] = owner[services[i].pid]
        BY <1>6, <2>0, <4>3
      <4>5. QED
        BY <1>4, <4>1, <4>2, <4>3, <4>4 DEF Busy
    <3>3. QED
      BY <3>1, <3>2
  <2>4. ASSUME NEW i \in 1..Len(services), NEW j \in 1..Len(services), Busy(i)', Busy(j)', i /= j
        PROVE  services'[i].pid /= services'[j].pid
    BY <1>0, <1>13, <1>18, <2>2, <2>4 DEF ServicesInv, Busy
  <2>5. QED
    BY <1>4, <1>14, <1>15, <2>1, <2>3, <2>4 DEF ServicesInv
<1>19. QED
  BY <1>13, <1>17, <1>18

\* Processes that end, and processes of others.
LEMMA ProcessStep == ASSUME ServicesInv, NEW p \in Pids, ChildEnds(p) \/ OtherProcess(p) PROVE ServicesInv'
<1>0. /\ services \in Seq(Service) /\ Len(services) \in Nat /\ DOMAIN services = 1..Len(services)
      /\ owner \in [Pids -> {"none", "other", "child", "zombie"}]
  BY DEF ServicesInv, ServicesTypeOK
<1>1. UNCHANGED <<services, signalled, stopping, stray>>
  BY DEF ChildEnds, OtherProcess
<1>2. /\ owner' \in [Pids -> {"none", "other", "child", "zombie"}]
      /\ \A q \in Pids : /\ owner[q] \in {"child", "zombie"} => owner'[q] \in {"child", "zombie"}
                         /\ owner'[q] = "child" => owner[q] = "child"
  BY <1>0 DEF ChildEnds, OtherProcess
<1>3. ServicesTypeOK' /\ NoOrphan'
  BY <1>0, <1>1, <1>2 DEF ServicesTypeOK, ServicesInv, NoOrphan
<1>4. stopping > 0 => services[stopping].pid \in Pids
  <2> SUFFICES ASSUME stopping > 0 PROVE services[stopping].pid \in Pids
    OBVIOUS
  <2>1. stopping \in DOMAIN services
    BY <1>0 DEF ServicesInv, ServicesTypeOK
  <2>2. Busy(stopping)
    BY <2>1 DEF ServicesInv, Busy
  <2>3. QED
    BY <2>1, <2>2 DEF ServicesInv
<1>5. QED
  BY <1>0, <1>1, <1>2, <1>3, <1>4 DEF ServicesInv, Busy

LEMMA ServicesInvStep == ServicesInv /\ [ServicesNext]_serviceVars => ServicesInv'
<1> SUFFICES ASSUME ServicesInv, [ServicesNext]_serviceVars PROVE ServicesInv'
  OBVIOUS
<1>1. CASE UNCHANGED serviceVars
  BY <1>1 DEF ServicesInv, ServicesTypeOK, NoOrphan, Busy
<1>2. QED
  BY <1>1, RegisterStep, UnregisterStep, StartStep, StopBeginStep, SetEnabledStep, StopEndStep,
     FreeStep, ProcessStep DEF ServicesNext

LEMMA ServicesInvOwned == ServicesInv => ServicesOwned
  BY ServicesAssumption DEF ServicesInv, ServicesOwned, NoStrayKill, Busy

\* Whatever happens to the children, the manager's signals go to its own children,
\* no running child is left behind without a signal, a command run by a tool is
\* reaped when run_with_timeout returns, and its result is its exit code unless its
\* time was up.
THEOREM ChildrenAreOwned == ConvSpec => []ChildrenOwned
<1>1. ConvInit => ShellInv /\ ServicesInv
  BY ShellInvInit, ServicesInvInit DEF ConvInit
<1>2. [ConvNext]_convVars => [ShellRunNext]_shellVars
  BY DEF ConvNext, convVars, OnlyTurns, OnlyHistory, OnlyPoller, OnlyChannels, OnlyCommand, OnlyDelivery,
         OnlyProviders, OnlyRouter, OnlyServices, OnlyShell
<1>3. [ConvNext]_convVars => [ServicesNext]_serviceVars
  BY DEF ConvNext, convVars, OnlyTurns, OnlyHistory, OnlyPoller, OnlyChannels, OnlyCommand, OnlyDelivery,
         OnlyProviders, OnlyRouter, OnlyServices, OnlyShell
<1>4. ShellInv /\ ServicesInv => ChildrenOwned
  BY ShellInvClean, ServicesInvOwned DEF ChildrenOwned
<1>5. QED
  BY <1>1, <1>2, <1>3, <1>4, ShellInvStep, ServicesInvStep, PTL DEF ConvSpec
-----------------------------------------------------------------------------
(* The providers. *)

USE DEF configVars, callVars, routerVars, modelVars, providerVars

\* The router: the n-th choice is that of the turn n.
RouterInv ==
    /\ chosen \in Seq(ProviderTypes) /\ current_index \in 0..Len(Routed) - 1
    /\ strategy = "round_robin" =>
          /\ current_index = Len(chosen) % Len(Routed)
          /\ \A i \in 1..Len(chosen) : chosen[i] = Routed[((i - 1) % Len(Routed)) + 1]

LEMMA RouterInvInit == ProvidersInit => RouterInv
<1> SUFFICES ASSUME ProvidersInit PROVE RouterInv
  OBVIOUS
<1>1. chosen = <<>> /\ current_index = 0 /\ Len(Routed) \in Nat \ {0}
  BY ProvidersAssumption DEF ProvidersInit
<1>2. 0 % Len(Routed) = 0
  BY <1>1, SMT
<1>3. QED
  BY <1>1, <1>2 DEF RouterInv

LEMMA RouterInvStep == RouterInv /\ [ProvidersNext]_providerVars => RouterInv'
<1> SUFFICES ASSUME RouterInv, [ProvidersNext]_providerVars PROVE RouterInv'
  OBVIOUS
<1>0. Len(Routed) \in Nat \ {0} /\ \A i \in 1..Len(Routed) : Routed[i] \in ProviderTypes
  BY ProvidersAssumption
<1>1. CASE UNCHANGED <<strategy, current_index, chosen>>
  BY <1>1 DEF RouterInv
<1>2. ASSUME NEW n \in 1..Len(Routed), provider_router_next(n) PROVE RouterInv'
  <2>1. /\ chosen' = Append(chosen, Routed[n]) /\ strategy' = strategy
        /\ current_index' = IF strategy = "round_robin" THEN next_index ELSE current_index
        /\ strategy = "round_robin" => n = current_index + 1
    BY <1>2 DEF provider_router_next
  <2>2. /\ chosen' \in Seq(ProviderTypes) /\ Len(chosen') = Len(chosen) + 1 /\ Len(chosen) \in Nat
        /\ chosen'[Len(chosen) + 1] = Routed[n]
        /\ \A i \in 1..Len(chosen) : chosen'[i] = chosen[i]
    BY <1>0, <2>1, AppendProperties DEF RouterInv
  <2>3. next_index \in 0..Len(Routed) - 1
    <3>1. current_index + 1 \in Nat
      BY <1>0 DEF RouterInv
    <3>2. QED
      BY <1>0, <3>1, SMT DEF next_index
  <2>4. CASE strategy /= "round_robin"
    BY <2>1, <2>2, <2>4 DEF RouterInv
  <2>5. CASE strategy = "round_robin"
    <3>1. next_index = (Len(chosen) + 1) % Len(Routed)
      BY <1>0, <2>2, <2>5, ModNext DEF next_index, RouterInv
    <3>2. Routed[n] = Routed[(Len(chosen) % Len(Routed)) + 1] /\ (Len(chosen) + 1) - 1 = Len(chosen)
      BY <2>1, <2>2, <2>5 DEF RouterInv
    <3>3. ASSUME NEW i \in 1..Len(chosen')
          PROVE  chosen'[i] = Routed[((i - 1) % Len(Routed)) + 1]
      <4>1. CASE i = Len(chosen) + 1
        BY <2>2, <3>2, <4>1
      <4>2. CASE i \in 1..Len(chosen)
        BY <2>2, <2>5, <4>2 DEF RouterInv
      <4>3. QED
        BY <2>2, <4>1, <4>2
    <3>4. QED
      BY <2>1, <2>2, <2>3, <2>5, <3>1, <3>3 DEF RouterInv
  <2>6. QED
    BY <2>4, <2>5
<1>3. QED
  BY <1>1, <1>2 DEF ProvidersNext, ProviderCallNext, RouterNext, ReliableCall, Attempt, Called,
     LocalCall, provider_router_select

LEMMA RouterInvTurn == RouterInv => EachInTurn
<1> SUFFICES ASSUME RouterInv, strategy = "round_robin",
                    NEW i \in 1..Len(chosen), i + Len(Routed) - 1 <= Len(chosen)
             PROVE  {chosen[j] : j \in i..i + Len(Routed) - 1} = ToSet(Routed)
  BY DEF EachInTurn
<1>0. Len(Routed) \in Nat \ {0} /\ Len(chosen) \in Nat /\ ToSet(Routed) = {Routed[m] : m \in 1..Len(Routed)}
  BY ProvidersAssumption DEF RouterInv, ToSet
<1>1. ASSUME NEW j \in i..i + Len(Routed) - 1 PROVE chosen[j] \in ToSet(Routed)
  <2>1. j \in 1..Len(chosen) /\ j - 1 \in Nat
    BY <1>0
  <2>2. (j - 1) % Len(Routed) \in 0..Len(Routed) - 1
    BY <1>0, <2>1, SMT
  <2>3. ((j - 1) % Len(Routed)) + 1 \in 1..Len(Routed)
    BY <1>0, <2>2
  <2>4. QED
    BY <1>0, <2>1, <2>3 DEF RouterInv
<1>2. ASSUME NEW m \in 1..Len(Routed)
      PROVE  \E j \in i..i + Len(Routed) - 1 : chosen[j] = Routed[m]
  <2>1. i - 1 \in Nat /\ m - 1 \in 0..Len(Routed) - 1
    BY <1>0
  <2>2. PICK y \in i - 1..(i - 1) + Len(Routed) - 1 : y % Len(Routed) = m - 1
    BY <1>0, <2>1, ModCovers
  <2>3. y + 1 \in i..i + Len(Routed) - 1 /\ y + 1 \in 1..Len(chosen) /\ (y + 1) - 1 = y /\ (m - 1) + 1 = m
    BY <1>0, <2>1
  <2>4. QED
    BY <2>2, <2>3 DEF RouterInv
<1>3. QED
  BY <1>0, <1>1, <1>2

\* The local model.
ModelInv ==
    /\ contexts \in Seq(ModelPaths \cup {"none"}) /\ s_model \in 0..Len(contexts)
    /\ s_model > 0 => contexts[s_model] = wanted_path /\ s_last_path = wanted_path
    /\ \A n \in 1..Len(contexts) : contexts[n] /= "none" => n = s_model

LEMMA ModelInvStep == ModelInv /\ [ProvidersNext]_providerVars => ModelInv'
<1> SUFFICES ASSUME ModelInv, [ProvidersNext]_providerVars PROVE ModelInv'
  OBVIOUS
<1>1. CASE UNCHANGED modelVars
  BY <1>1 DEF ModelInv
<1>2. ASSUME NEW path \in ModelPaths, NEW o, provider_llama_completion(path, o) PROVE ModelInv'
  <2>0. contexts \in Seq(ModelPaths \cup {"none"}) /\ Len(contexts) \in Nat /\ wanted_path' = path
    BY <1>2 DEF ModelInv, provider_llama_completion
  <2>1. CASE s_model > 0 /\ ~path_changed(path)
    <3>1. s_last_path = path /\ UNCHANGED <<s_model, s_last_path, contexts>>
      BY <1>2, <2>1 DEF provider_llama_completion, path_changed
    <3>2. QED
      BY <2>0, <2>1, <3>1 DEF ModelInv
  <2>2. CASE ~(s_model > 0 /\ ~path_changed(path))
    <3>1. PICK left : left = IF path_changed(path) /\ s_model > 0
                             THEN llama_unload_model(contexts, s_model) ELSE contexts
      OBVIOUS
    <3>2. /\ left \in Seq(ModelPaths \cup {"none"}) /\ Len(left) = Len(contexts)
          /\ \A n \in 1..Len(left) : left[n] = "none"
      <4>1. CASE s_model > 0
        <5>1. s_model \in 1..Len(contexts) /\ left = [contexts EXCEPT ![s_model] = "none"]
          BY <2>0, <2>2, <3>1, <4>1 DEF llama_unload_model, ModelInv
        <5>2. /\ left \in Seq(ModelPaths \cup {"none"}) /\ Len(left) = Len(contexts)
              /\ left[s_model] = "none" /\ \A n \in 1..Len(contexts) : n /= s_model => left[n] = contexts[n]
          BY <2>0, <5>1, EntryChanged
        <5>3. QED
          BY <5>2 DEF ModelInv
      <4>2. CASE ~(s_model > 0)
        <5>1. s_model = 0 /\ left = contexts
          BY <2>0, <3>1, <4>2 DEF ModelInv
        <5>2. QED
          BY <2>0, <5>1 DEF ModelInv
      <4>3. QED
        BY <4>1, <4>2
    <3>3. CASE contexts' = left /\ s_model' = 0
      BY <2>0, <3>2, <3>3 DEF ModelInv
    <3>4. CASE contexts' = Append(left, path) /\ s_model' = Len(left) + 1 /\ s_last_path' = path
      <4>1. /\ contexts' \in Seq(ModelPaths \cup {"none"}) /\ Len(contexts') = Len(left) + 1
            /\ contexts'[Len(left) + 1] = path
            /\ \A n \in 1..Len(left) : contexts'[n] = left[n]
        BY <3>2, <3>4, AppendProperties
      <4>2. Len(left) \in Nat
        BY <2>0, <3>2
      <4>3. QED
        BY <2>0, <3>2, <3>4, <4>1, <4>2 DEF ModelInv
    <3>5. QED
      BY <1>2, <2>2, <3>1, <3>3, <3>4 DEF provider_llama_completion, llama_load_model
  <2>3. QED
    BY <2>1, <2>2
<1>3. QED
  BY <1>1, <1>2 DEF ProvidersNext, ProviderCallNext, RouterNext, ReliableCall, Attempt, Called,
     provider_chat_completion, LocalCall, provider_router_select, provider_router_next

LEMMA ModelInvInit == ProvidersInit => ModelInv
  BY DEF ProvidersInit, ModelInv

LEMMA ModelInvRight == ModelInv => RightModel
  BY DEF ModelInv, RightModel

Answers == {"answer", "refusal", "fragment"}

\* The calls made so far: their providers are those of the configuration, and
\* while the loop goes on there is one for every attempt and none was answered.
CallInv ==
    /\ calling \in {"idle", "trying", "returned"} /\ attempts \in 0..MaxRetries
    /\ asked \in Seq([type : ProviderTypes, out : CallOutcomes])
    /\ primary \in ProviderTypes /\ fallback \in ProviderTypes
    /\ calling = "idle" => asked = <<>> /\ attempts = 0
    /\ calling = "trying" => /\ Len(asked) = attempts
                             /\ attempts > 0 => auto_failover
                             /\ \A i \in 1..Len(asked) : asked[i].out \notin Answers
    /\ AnsweredOnce /\ NoStaleContent

LEMMA CallInvInit == ProvidersInit => CallInv
<1> SUFFICES ASSUME ProvidersInit PROVE CallInv
  OBVIOUS
<1>1. /\ calling = "idle" /\ attempts = 0 /\ asked = <<>>
      /\ primary \in ProviderTypes /\ fallback \in ProviderTypes /\ MaxRetries \in Nat
  BY ProvidersAssumption DEF ProvidersInit
<1>2. AnsweredOnce /\ NoStaleContent
  BY <1>1 DEF AnsweredOnce, NoStaleContent
<1>3. QED
  BY <1>1, <1>2 DEF CallInv

LEMMA AttemptStep == ASSUME CallInv, NEW o \in CallOutcomes, Attempt(o) PROVE CallInv'
<1>0. /\ calling = "trying" /\ attempts \in Nat /\ attempts <= MaxRetries /\ MaxRetries \in Nat
      /\ asked \in Seq([type : ProviderTypes, out : CallOutcomes])
      /\ Len(asked) = attempts /\ (attempts > 0 => auto_failover)
      /\ \A i \in 1..Len(asked) : asked[i].out \notin Answers
      /\ \A i \in 1..Len(asked) : asked[i].type = IF i = 1 THEN primary ELSE fallback
  BY ProvidersAssumption DEF CallInv, Attempt, AnsweredOnce
<1>1. PICK e : e = [type |-> TypeOfAttempt, out |-> o]
  OBVIOUS
<1>2. /\ e \in [type : ProviderTypes, out : CallOutcomes] /\ e.out = o
      /\ e.type = IF attempts = 0 THEN primary ELSE fallback
  BY <1>1 DEF TypeOfAttempt, CallInv
<1>3. /\ asked' = Append(asked, e) /\ last_error' = IF Succeeds(o) THEN 0 ELSE 1
      /\ UNCHANGED <<primary, fallback, auto_failover>>
  BY <1>1 DEF Attempt, Called
<1>4. /\ asked' \in Seq([type : ProviderTypes, out : CallOutcomes])
      /\ Len(asked') = attempts + 1 /\ asked'[attempts + 1] = e
      /\ \A i \in 1..attempts : asked'[i] = asked[i]
  BY <1>0, <1>2, <1>3, AppendProperties
<1>5. \A i \in 1..attempts + 1 : asked'[i].type = IF i = 1 THEN primary ELSE fallback
  <2> SUFFICES ASSUME NEW i \in 1..attempts + 1
               PROVE  asked'[i].type = IF i = 1 THEN primary ELSE fallback
    OBVIOUS
  <2>1. CASE i = attempts + 1
    <3>1. (i = 1) <=> (attempts = 0)
      BY <1>0, <2>1
    <3>2. QED
      BY <1>2, <1>4, <2>1, <3>1
  <2>2. CASE i \in 1..attempts
    BY <1>0, <1>4, <2>2
  <2>3. QED
    BY <1>0, <2>1, <2>2
<1>6. \A i \in 1..attempts + 1 : i < Len(asked') => asked'[i].out \notin Answers
  <2> SUFFICES ASSUME NEW i \in 1..attempts + 1, i < Len(asked') PROVE asked'[i].out \notin Answers
    OBVIOUS
  <2>1. i \in 1..attempts
    BY <1>0, <1>4
  <2>2. QED
    BY <1>0, <1>4, <2>1
<1>7. AnsweredOnce'
  <2>1. attempts + 1 <= IF auto_failover THEN MaxRetries + 1 ELSE 1
    BY <1>0
  <2>2. DOMAIN asked' = 1..attempts + 1
    BY <1>4
  <2>3. QED
    BY <1>3, <1>4, <1>5, <1>6, <2>1, <2>2 DEF AnsweredOnce, Answers
<1>8. Last(asked').out = o
  BY <1>2, <1>4 DEF Last
<1>9. CASE Succeeds(o) /\ new_content(o) /= "none"
  <2>1. content' = new_content(o) /\ calling' = "returned" /\ attempts' = attempts
    BY <1>9 DEF Attempt
  <2>2. new_content(o) = o
    BY <1>9 DEF new_content, Succeeds, parse_response_content
  <2>3. NoStaleContent'
    BY <1>8, <2>1, <2>2 DEF NoStaleContent
  <2>4. QED
    BY <1>0, <1>3, <1>4, <1>7, <2>1, <2>3 DEF CallInv
<1>10. CASE /\ ~(Succeeds(o) /\ new_content(o) /= "none")
            /\ ~auto_failover \/ attempts >= MaxRetries
  <2>1. content' = "all_failed" /\ calling' = "returned" /\ attempts' = attempts
    BY <1>10 DEF Attempt
  <2>2. NoStaleContent'
    BY <2>1 DEF NoStaleContent
  <2>3. QED
    BY <1>0, <1>3, <1>4, <1>7, <2>1, <2>2 DEF CallInv
<1>11. CASE /\ ~(Succeeds(o) /\ new_content(o) /= "none")
            /\ ~(~auto_failover \/ attempts >= MaxRetries)
  <2>1. calling' = calling /\ attempts' = attempts + 1 /\ auto_failover
    BY <1>11 DEF Attempt
  <2>2. NoStaleContent'
    BY <1>0, <2>1 DEF NoStaleContent
  <2>3. o \notin Answers
    BY <1>11 DEF Succeeds, new_content, parse_response_content, Answers
  <2>4. \A i \in 1..attempts + 1 : asked'[i].out \notin Answers
    BY <1>0, <1>2, <1>4, <1>6, <2>3
  <2>5. attempts + 1 \in 0..MaxRetries
    BY <1>0, <1>11
  <2>6. QED
    BY <1>0, <1>3, <1>4, <1>7, <2>1, <2>2, <2>4, <2>5 DEF CallInv
<1>12. QED
  BY <1>9, <1>10, <1>11

LEMMA CallInvStep == CallInv /\ [ProvidersNext]_providerVars => CallInv'
<1> SUFFICES ASSUME CallInv, [ProvidersNext]_providerVars PROVE CallInv'
  OBVIOUS
<1>1. CASE UNCHANGED callVars
  BY <1>1 DEF CallInv, AnsweredOnce, NoStaleContent
<1>2. CASE ReliableCall
  <2>1. /\ calling = "idle" /\ calling' = "trying" /\ asked = <<>> /\ attempts = 0
        /\ UNCHANGED <<primary, fallback, attempts, last_error, content, asked>>
    BY <1>2 DEF ReliableCall, CallInv
  <2>2. AnsweredOnce' /\ NoStaleContent'
    <3>1. MaxRetries \in Nat /\ asked' = <<>> /\ Len(asked') = 0 /\ DOMAIN asked' = {}
      BY <2>1, ProvidersAssumption
    <3>2. 0 <= IF auto_failover' THEN MaxRetries + 1 ELSE 1
      BY <3>1
    <3>3. QED
      BY <2>1, <3>1, <3>2 DEF AnsweredOnce, NoStaleContent
  <2>3. QED
    BY <2>1, <2>2 DEF CallInv
<1>3. QED
  BY <1>1, <1>2, AttemptStep DEF ProvidersNext, ProviderCallNext, RouterNext, LocalCall,
     provider_router_select, provider_router_next

\* Whatever fails and however often it is tried again: a call that was answered is
\* not made again, a result that is reported as a success is that of the last call,
\* every provider of the router has its turn, and the local model in use is the one
\* that was asked for.
THEOREM CallsAreFaithful == ProvidersSpec => []CallsFaithful
<1>1. ProvidersInit => CallInv /\ RouterInv /\ ModelInv
  BY CallInvInit, RouterInvInit, ModelInvInit
<1>2. CallInv /\ RouterInv /\ ModelInv => CallsFaithful
  BY RouterInvTurn, ModelInvRight DEF CallInv, CallsFaithful
<1>3. QED
  BY <1>1, <1>2, CallInvStep, RouterInvStep, ModelInvStep, PTL DEF ProvidersSpec
-----------------------------------------------------------------------------
(* The senders. *)

USE DEF deliveryVars, textVars

Piece == [from : Nat, to : Nat, mark : Nat, outcome : Outcomes]

\* What the loop has cut so far: pieces that follow each other, of a length that
\* the service takes, and broken within a word only if they are one word.
Chain ==
    \A i \in 1..Len(posted) :
        /\ posted[i].from = IF i = 1 THEN 1 ELSE posted[i - 1].to + 1
        /\ posted[i].to - posted[i].from + 1 \in 1..Limit
        /\ posted[i].mark = IF i = 1 THEN 0 ELSE Mark
        /\ posted[i].to <= Len(letters)
        /\ posted[i].to < Len(letters) /\ letters[posted[i].to] =>
              \A k \in posted[i].from..posted[i].to : letters[k]

Apart == \A i, j \in 1..Len(posted) : i < j => posted[i].to < posted[j].from

FailureIsLast == \A i \in 1..Len(posted) :
                     Status(posted[i].outcome) /= 0 => i = Len(posted) /\ result /= 0

DeliveryInv ==
    /\ service \in Cutting \cup Once \cup Printing /\ content_len \in Nat
    /\ Len(letters) = KeptLen(service, content_len)
    /\ posted \in Seq(Piece)
    /\ sending \in {"idle", "text", "plain", "done"}
    /\ Cuts => Chain /\ Apart
    /\ ReceivedOnce /\ FailureIsLast
    /\ sending = "idle" \/ (sending = "text" /\ ~Cuts) => posted = <<>> /\ result = 0
    /\ sending = "plain" => /\ ~Cuts /\ Len(posted) = 1 /\ posted[1].outcome = "refused"
                            /\ posted[1].to = Len(letters) /\ result = 0
    /\ sending = "done" /\ result = 0 /\ service \notin Printing =>
          posted /= <<>> /\ posted[Len(posted)].to = Len(letters)

LengthIs == Len(letters) \in Nat

\* What a sender has of the text.
LEMMA KeptIs ==
    ASSUME NEW s \in Cutting \cup Once \cup Printing, NEW n \in Nat
    PROVE  /\ KeptLen(s, n) \in Nat
           /\ s \notin Printing => KeptLen(s, n) = IF s \in {"discord", "slack"} \/ n <= Buffer
                                                 THEN n ELSE Buffer
  BY DeliveryAssumption DEF KeptLen, Cutting, Once, Printing

LEMMA DeliveryInvInit == DeliveryInit => DeliveryInv
  BY DeliveryAssumption DEF KeptLen, Cutting, DeliveryInit, DeliveryInv, Chain, Apart, ReceivedOnce, FailureIsLast

LEMMA LettersAre == DeliveryInv => LengthIs
  BY KeptIs DEF DeliveryInv, LengthIs

LEMMA DeliveryInvWhole == DeliveryInv => DeliveredWhole
<1> SUFFICES ASSUME DeliveryInv PROVE DeliveredWhole
  OBVIOUS
<1>0. /\ DOMAIN posted = 1..Len(posted) /\ Len(posted) \in Nat /\ Len(letters) \in Nat
      /\ \A i \in 1..Len(posted) : posted[i].to \in Nat /\ posted[i].from \in Nat
  <2>1. posted \in Seq(Piece) /\ Len(letters) \in Nat
    BY LettersAre DEF DeliveryInv, LengthIs
  <2>2. \A i \in 1..Len(posted) : posted[i] \in Piece
    BY <2>1
  <2>3. \A x \in Piece : x.to \in Nat /\ x.from \in Nat
    BY DEF Piece
  <2>4. QED
    BY <2>1, <2>2, <2>3
<1>1. InOrder
  <2> SUFFICES ASSUME Cuts, NEW i \in 1..Len(posted)
               PROVE  /\ posted[i].from = IF i = 1 THEN 1 ELSE posted[i - 1].to + 1
                      /\ posted[i].to - posted[i].from + 1 \in 1..Limit
                      /\ posted[i].mark = IF i = 1 THEN 0 ELSE Mark
                      /\ posted[i].to <= Len(letters)
                      /\ i > 1 /\ letters[posted[i].from - 1] =>
                            \A k \in posted[i - 1].from..posted[i - 1].to : letters[k]
    BY <1>0 DEF InOrder
  <2>1. Chain
    BY DEF DeliveryInv
  <2>2. /\ posted[i].from = IF i = 1 THEN 1 ELSE posted[i - 1].to + 1
        /\ posted[i].to - posted[i].from + 1 \in 1..Limit
        /\ posted[i].mark = IF i = 1 THEN 0 ELSE Mark
        /\ posted[i].to <= Len(letters)
    BY <2>1 DEF Chain
  <2>3. ASSUME i > 1, letters[posted[i].from - 1]
        PROVE  \A k \in posted[i - 1].from..posted[i - 1].to : letters[k]
    <3>1. i - 1 \in 1..Len(posted)
      BY <1>0, <2>3
    <3>2. posted[i].from - 1 = posted[i - 1].to /\ posted[i - 1].to < Len(letters)
      <4>1. /\ posted[i].to \in Nat /\ posted[i].from \in Nat /\ posted[i - 1].to \in Nat
            /\ posted[i].from = posted[i - 1].to + 1 /\ posted[i].to - posted[i].from + 1 >= 1
        BY <1>0, <2>2, <2>3, <3>1, DeliveryAssumption
      <4>2. \A a, b, c, n \in Nat :
               b = c + 1 /\ a - b + 1 >= 1 /\ a <= n => b - 1 = c /\ c < n
        OBVIOUS
      <4>3. Len(letters) \in Nat /\ posted[i].to <= Len(letters)
        BY <1>0, <2>2
      <4>4. QED
        BY <4>1, <4>2, <4>3
    <3>3. QED
      BY <2>1, <2>3, <3>1, <3>2 DEF Chain
  <2>4. QED
    BY <2>2, <2>3
<1>2. SuccessIsWhole
  <2>1. ASSUME Returned, result = 0, service \notin Printing PROVE Remaining = Len(letters) + 1
    <3>1. CASE sending = "done"
      BY <2>1, <3>1 DEF DeliveryInv, Remaining
    <3>2. CASE sending = "text" /\ Cuts /\ Rest = 0
      <4>1. Remaining \in Nat
        <5>1. CASE posted = <<>>
          BY <5>1 DEF Remaining
        <5>2. CASE posted /= <<>>
          <6>1. Len(posted) \in 1..Len(posted)
            BY <5>2 DEF DeliveryInv
          <6>2. QED
            BY <1>0, <5>2, <6>1 DEF Remaining
        <5>3. QED
          BY <5>1, <5>2
      <4>2. QED
        BY <1>0, <3>2, <4>1 DEF Rest
    <3>3. QED
      BY <2>1, <3>1, <3>2 DEF Returned
  <2>2. ASSUME Returned, result = 0, service \notin Printing
        PROVE  Remaining - 1 = IF service \in {"discord", "slack"} \/ content_len <= Buffer
                               THEN content_len ELSE Buffer
    <3>1. Remaining - 1 = Len(letters)
      BY <1>0, <2>1, <2>2
    <3>2. QED
      BY <2>2, <3>1, KeptIs DEF DeliveryInv
  <2>3. QED
    BY <1>0, <2>2 DEF SuccessIsWhole, DeliveryInv, FailureIsLast
<1>3. QED
  BY <1>1, <1>2 DEF DeliveredWhole, DeliveryInv

\* Where the next piece begins, and how long it is.
LEMMA NextPiece ==
    ASSUME DeliveryInv, Cuts, Rest > 0
    PROVE  /\ Remaining \in Nat \ {0} /\ chunk_len \in 1..Limit
           /\ Remaining + chunk_len - 1 <= Len(letters)
           /\ Remaining + chunk_len - 1 < Len(letters) /\ letters[Remaining + chunk_len - 1] =>
                 \A k \in Remaining..Remaining + chunk_len - 1 : letters[k]
<1>0. Limit \in Nat \ {0} /\ Len(letters) \in Nat
  BY DeliveryAssumption, LettersAre DEF LengthIs
<1>1. PICK r \in Nat \ {0} : r = Remaining /\ r <= Len(letters)
  <2>1. Remaining \in Nat \ {0}
    <3>1. CASE posted = <<>>
      BY <3>1 DEF Remaining
    <3>2. CASE posted /= <<>>
      <4>1. posted \in Seq(Piece) /\ Len(posted) \in 1..Len(posted)
        BY <3>2 DEF DeliveryInv
      <4>2. posted[Len(posted)] \in Piece
        BY <4>1
      <4>3. posted[Len(posted)].to \in Nat
        BY <4>2 DEF Piece
      <4>4. QED
        BY <3>2, <4>3 DEF Remaining
    <3>3. QED
      BY <3>1, <3>2
  <2>2. QED
    BY <1>0, <2>1 DEF Rest
<1>2. PICK n \in Nat : n = Rest
  BY <1>0, <1>1 DEF Rest
<1>3. n = Len(letters) + 1 - r /\ n > 0
  BY <1>1, <1>2 DEF Rest
<1>4. CASE service = "telegram" /\ n <= Limit
  <2>1. chunk_len = n
    BY <1>2, <1>4 DEF chunk_len
  <2>2. r + n - 1 = Len(letters)
    BY <1>0, <1>3
  <2>3. QED
    BY <1>0, <1>1, <1>3, <1>4, <2>1, <2>2
<1>5. CASE ~(service = "telegram" /\ n <= Limit)
  <2>1. PICK m \in Nat : m = Shorter
    BY <1>0, <1>2 DEF Shorter
  <2>a. m = IF n < Limit THEN n ELSE Limit
    BY <1>2, <2>1 DEF Shorter
  <2>2. m \in 1..Limit /\ m <= n
    BY <1>0, <1>3, <2>a
  <2> DEFINE ends == {k \in 1..m : ~letters[r + k - 1]}
  <2>3. chunk_len = IF ends = {} THEN m ELSE Max(ends)
    BY <1>1, <1>2, <1>5, <2>1 DEF chunk_len, Break
  <2>4. CASE ends = {}
    <3>1. chunk_len = m
      BY <2>3, <2>4
    <3>2. \A k \in 1..m : letters[r + k - 1]
      BY <2>4
    <3>3. ASSUME NEW k \in r..r + m - 1 PROVE letters[k]
      <4>1. k - r + 1 \in 1..m /\ r + (k - r + 1) - 1 = k
        BY <1>1, <2>1
      <4>2. letters[r + (k - r + 1) - 1]
        BY <3>2, <4>1
      <4>3. QED
        BY <4>1, <4>2
    <3>4. r + m - 1 <= Len(letters)
      BY <1>0, <1>3, <2>2
    <3>5. QED
      BY <1>1, <2>2, <3>1, <3>3, <3>4
  <2>5. CASE ends /= {}
    <3>1. ends \subseteq 1..m
      OBVIOUS
    <3>2. Max(ends) \in ends
      BY <2>5, <3>1, MaxOfBounded
    <3>3. PICK c \in 1..m : c = chunk_len /\ ~letters[r + c - 1]
      BY <2>3, <2>5, <3>2
    <3>4. c \in 1..Limit /\ r + c - 1 <= Len(letters)
      BY <1>0, <1>3, <2>2
    <3>5. QED
      BY <1>1, <3>3, <3>4
  <2>6. QED
    BY <2>4, <2>5
<1>6. QED
  BY <1>4, <1>5

\* One more request behind the others.
LEMMA Posted ==
    ASSUME DeliveryInv, NEW n \in Nat, NEW o \in Outcomes, Remaining \in Nat \ {0}, Post(n, o)
    PROVE  /\ posted' \in Seq(Piece) /\ Len(posted') = Len(posted) + 1 /\ Len(posted) \in Nat
           /\ \A i \in 1..Len(posted) : posted'[i] = posted[i]
           /\ posted'[Len(posted) + 1].from = Remaining
           /\ posted'[Len(posted) + 1].to = Remaining + n - 1
           /\ posted'[Len(posted) + 1].mark = IF Len(posted) = 0 THEN 0 ELSE Mark
           /\ posted'[Len(posted) + 1].outcome = o
<1> DEFINE e == [from |-> Remaining, to |-> Remaining + n - 1,
                 mark |-> IF posted = <<>> THEN 0 ELSE Mark, outcome |-> o]
<1>0. posted = <<>> <=> Len(posted) = 0
  BY DEF DeliveryInv
<1>1. /\ e \in Piece /\ e.from = Remaining /\ e.to = Remaining + n - 1 /\ e.outcome = o
      /\ e.mark = IF Len(posted) = 0 THEN 0 ELSE Mark
  BY <1>0, DeliveryAssumption DEF Piece
<1>2. posted' = Append(posted, e)
  BY DEF Post
<1> HIDE DEF e
<1>3. posted \in Seq(Piece)
  BY DEF DeliveryInv
<1>4. QED
  BY <1>1, <1>2, <1>3, AppendProperties

LEMMA ChunkStep == ASSUME DeliveryInv, NEW o \in Outcomes, Chunk(o) PROVE DeliveryInv'
<1>0. /\ sending = "text" /\ Cuts /\ Rest > 0 /\ result = 0 /\ result' = Status(o)
      /\ UNCHANGED <<service, content_len, letters, sending>> /\ Limit \in Nat
  BY DeliveryAssumption DEF Chunk
<1>1. PICK r \in Nat \ {0}, c \in 1..Limit :
         /\ r = Remaining /\ c = chunk_len /\ r + c - 1 <= Len(letters)
         /\ r + c - 1 < Len(letters) /\ letters[r + c - 1] => \A k \in r..r + c - 1 : letters[k]
  BY <1>0, NextPiece
<1>2. PICK m \in Nat : m = Len(posted)
  BY DEF DeliveryInv
<1>3. /\ posted' \in Seq(Piece) /\ Len(posted') = m + 1
      /\ \A i \in 1..m : posted'[i] = posted[i]
      /\ posted'[m + 1].from = r /\ posted'[m + 1].to = r + c - 1 /\ posted'[m + 1].outcome = o
      /\ posted'[m + 1].mark = IF m = 0 THEN 0 ELSE Mark
  <2>1. c \in Nat /\ Post(c, o)
    BY <1>0, <1>1 DEF Chunk
  <2>2. QED
    BY <1>1, <1>2, <2>1, Posted
<1>4. /\ m = 0 => r = 1
      /\ m > 0 => r = posted[m].to + 1
  BY <1>1, <1>2 DEF Remaining, DeliveryInv
<1>5. \A i \in 1..m : posted[i].from \in Nat /\ posted[i].to \in Nat
  <2>1. posted \in Seq(Piece)
    BY DEF DeliveryInv
  <2>2. \A i \in 1..m : posted[i] \in Piece
    BY <1>2, <2>1
  <2>3. \A x \in Piece : x.to \in Nat /\ x.from \in Nat
    BY DEF Piece
  <2>4. QED
    BY <2>2, <2>3
<1>6. Chain /\ Apart /\ FailureIsLast /\ ReceivedOnce
  BY <1>0 DEF DeliveryInv
<1>7. Chain'
  <2> SUFFICES ASSUME NEW i \in 1..m + 1
               PROVE  /\ posted'[i].from = IF i = 1 THEN 1 ELSE posted'[i - 1].to + 1
                      /\ posted'[i].to - posted'[i].from + 1 \in 1..Limit
                      /\ posted'[i].mark = IF i = 1 THEN 0 ELSE Mark
                      /\ posted'[i].to <= Len(letters)
                      /\ posted'[i].to < Len(letters) /\ letters[posted'[i].to] =>
                            \A k \in posted'[i].from..posted'[i].to : letters[k]
    BY <1>0, <1>3 DEF Chain
  <2>1. CASE i \in 1..m
    <3>1. i /= 1 => i - 1 \in 1..m
      BY <2>1
    <3>2. posted'[i] = posted[i] /\ (i /= 1 => posted'[i - 1] = posted[i - 1])
      BY <1>3, <2>1, <3>1
    <3>3. QED
      BY <1>2, <1>6, <2>1, <3>2 DEF Chain
  <2>2. CASE i = m + 1
    <3>1. posted'[i].to - posted'[i].from + 1 = c
      BY <1>1, <1>3, <2>2
    <3>2. posted'[i].from = IF i = 1 THEN 1 ELSE posted'[i - 1].to + 1
      <4>1. CASE m = 0
        BY <1>3, <1>4, <2>2, <4>1
      <4>2. CASE m > 0
        <5>1. m \in 1..m /\ i - 1 = m /\ i /= 1
          BY <2>2, <4>2
        <5>2. posted'[m] = posted[m]
          BY <1>3, <5>1
        <5>3. QED
          BY <1>3, <1>4, <2>2, <4>2, <5>1, <5>2
      <4>3. QED
        BY <4>1, <4>2
    <3>3. QED
      BY <1>1, <1>3, <2>2, <3>1, <3>2
  <2>3. QED
    BY <2>1, <2>2
<1>8. \A i \in 1..m : posted[i].to < r
  <2> SUFFICES ASSUME NEW i \in 1..m PROVE posted[i].to < r
    OBVIOUS
  <2>1. r = posted[m].to + 1 /\ posted[m].to \in Nat /\ posted[m].from \in Nat /\ posted[i].to \in Nat
    BY <1>4, <1>5
  <2>2. CASE i = m
    BY <2>1, <2>2
  <2>3. CASE i < m
    <3>1. posted[i].to < posted[m].from
      BY <1>2, <1>6, <2>3 DEF Apart
    <3>2. posted[m].to - posted[m].from + 1 \in 1..Limit
      BY <1>2, <1>6 DEF Chain
    <3>3. QED
      BY <1>0, <2>1, <3>1, <3>2
  <2>4. QED
    BY <2>2, <2>3
<1>9. Apart'
  <2> SUFFICES ASSUME NEW i \in 1..m + 1, NEW j \in 1..m + 1, i < j
               PROVE  posted'[i].to < posted'[j].from
    BY <1>3 DEF Apart
  <2>1. i \in 1..m /\ posted'[i] = posted[i]
    BY <1>3
  <2>2. CASE j = m + 1
    BY <1>3, <1>8, <2>1, <2>2
  <2>3. CASE j \in 1..m
    BY <1>2, <1>3, <1>6, <2>1, <2>3 DEF Apart
  <2>4. QED
    BY <2>2, <2>3
<1>10. ReceivedOnce'
  <2>1. DOMAIN posted' = 1..Len(posted')
    BY <1>3
  <2>2. QED
    BY <1>9, <2>1 DEF Apart, ReceivedOnce
<1>11. FailureIsLast'
  <2> SUFFICES ASSUME NEW i \in 1..m + 1, Status(posted'[i].outcome) /= 0
               PROVE  i = m + 1 /\ result' /= 0
    BY <1>3 DEF FailureIsLast, Status
  <2>1. CASE i \in 1..m
    <3>1. Status(posted[i].outcome) /= 0
      BY <1>3, <2>1
    <3>2. QED
      BY <1>0, <1>2, <1>6, <2>1, <3>1 DEF FailureIsLast
  <2>2. CASE i = m + 1
    BY <1>0, <1>3, <2>2
  <2>3. QED
    BY <2>1, <2>2
<1>12. Cuts' = Cuts
  BY <1>0 DEF Cuts
<1>13. QED
  BY <1>0, <1>3, <1>7, <1>9, <1>10, <1>11, <1>12 DEF DeliveryInv

\* The whole text in one request, the first.
LEMMA OnePost ==
    ASSUME DeliveryInv, ~Cuts, sending = "text", NEW o \in Outcomes, Post(Len(letters), o),
           result' = Status(o), UNCHANGED <<service, content_len, letters>>,
           sending' = "done" \/ (sending' = "plain" /\ o = "refused")
    PROVE  DeliveryInv'
<1>1. posted = <<>> /\ Len(letters) \in Nat
  BY LettersAre DEF DeliveryInv, LengthIs
<1>2. Remaining = 1 /\ Len(posted) = 0
  BY <1>1 DEF Remaining
<1>3. /\ posted' \in Seq(Piece) /\ Len(posted') = 1
      /\ posted'[1].to = Len(letters) /\ posted'[1].outcome = o
  <2>1. /\ posted' \in Seq(Piece) /\ Len(posted') = Len(posted) + 1
        /\ posted'[Len(posted) + 1].to = Remaining + Len(letters) - 1
        /\ posted'[Len(posted) + 1].outcome = o
    BY <1>1, <1>2, Posted
  <2>2. QED
    BY <1>1, <1>2, <2>1
<1>4. ~Cuts'
  BY DEF Cuts
<1>5. ReceivedOnce'
  <2>1. DOMAIN posted' = 1..1
    BY <1>3
  <2>2. QED
    BY <2>1 DEF ReceivedOnce
<1>6. FailureIsLast'
  BY <1>3 DEF FailureIsLast
<1>7. o = "refused" => result' = 0
  BY DEF Status
<1>8. posted' /= <<>>
  <2>1. Len(posted') = 1
    BY <1>3
  <2>2. Len(<<>>) = 0
    OBVIOUS
  <2>3. QED
    BY <2>1, <2>2
<1>9. QED
  BY <1>1, <1>3, <1>4, <1>5, <1>6, <1>7, <1>8 DEF DeliveryInv

LEMMA PlainStep == ASSUME DeliveryInv, NEW o \in Outcomes, Plain(o) PROVE DeliveryInv'
<1>1. /\ ~Cuts /\ Len(posted) = 1 /\ posted[1].outcome = "refused"
      /\ posted[1].to = Len(letters) /\ posted \in Seq(Piece) /\ Len(letters) \in Nat
  BY LettersAre DEF DeliveryInv, LengthIs, Plain
<1>2. PICK e \in Piece : e = [posted[1] EXCEPT !.outcome = o] /\ e.to = Len(letters) /\ e.outcome = o
  <2>1. 1 \in 1..Len(posted)
    BY <1>1
  <2>2. posted[1] \in Piece
    BY <1>1, <2>1, ElementOfSeq
  <2>3. PICK x \in Piece : x = posted[1]
    BY <2>2
  <2>4. /\ [x EXCEPT !.outcome = o] \in Piece /\ [x EXCEPT !.outcome = o].to = x.to
        /\ [x EXCEPT !.outcome = o].outcome = o
    BY DEF Piece
  <2>5. QED
    BY <1>1, <2>3, <2>4
<1>3. posted' = Append(posted, e) /\ sending' = "done" /\ result' = Status(o)
      /\ UNCHANGED <<service, content_len, letters>>
  BY <1>2 DEF Plain
<1>4. /\ posted' \in Seq(Piece) /\ Len(posted') = 2
      /\ posted'[1] = posted[1] /\ posted'[2] = e
  <2>1. /\ posted' \in Seq(Piece) /\ Len(posted') = Len(posted) + 1
        /\ \A i \in 1..Len(posted) : posted'[i] = posted[i]
        /\ posted'[Len(posted) + 1] = e
    <3>1. posted \in Seq(Piece)
      BY <1>1
    <3>2. posted' = Append(posted, e)
      BY <1>3
    <3>3. QED
      BY <3>1, <3>2, AppendProperties
  <2>2. Len(posted) + 1 = 2 /\ 1 \in 1..Len(posted)
    BY <1>1
  <2>3. QED
    BY <2>1, <2>2
<1>5. ~Cuts'
  BY <1>1, <1>3 DEF Cuts
<1>6. ReceivedOnce'
  <2>1. DOMAIN posted' = 1..2
    BY <1>4
  <2>2. ~Got(posted'[1])
    BY <1>1, <1>4 DEF Got
  <2>3. \A i, j \in 1..2 : i < j => i = 1
    OBVIOUS
  <2>4. \A i, j \in DOMAIN posted' : i < j => ~Got(posted'[i])
    BY <2>1, <2>2, <2>3
  <2>5. QED
    BY <2>4 DEF ReceivedOnce, Got
<1>7. FailureIsLast'
  <2>1. Status(posted'[1].outcome) = 0 /\ Status(posted'[2].outcome) = Status(o)
    BY <1>1, <1>2, <1>4 DEF Status
  <2>2. QED
    BY <1>3, <1>4, <2>1 DEF FailureIsLast, Status
<1>8. posted'[Len(posted')].to = Len(letters') /\ posted' /= <<>>
  BY <1>2, <1>3, <1>4
<1>9. QED
  BY <1>1, <1>3, <1>4, <1>5, <1>6, <1>7, <1>8 DEF DeliveryInv

LEMMA SendStep == ASSUME DeliveryInv, Send PROVE DeliveryInv'
<1>1. posted = <<>> /\ result = 0 /\ posted' = <<>>
  BY DEF Send, DeliveryInv
<1>2. /\ service' \in Cutting \cup Once \cup Printing /\ content_len' \in Nat
      /\ Len(letters') = KeptLen(service', content_len')
  <2>1. /\ service' \in Cutting \cup Once \cup Printing /\ content_len' \in Nat
        /\ letters' \in [1..KeptLen(service', content_len') -> BOOLEAN]
    BY DeliveryAssumption DEF Send
  <2>2. PICK n \in Nat : n = KeptLen(service', content_len')
    BY <2>1, KeptIs
  <2>3. letters' \in Seq(BOOLEAN) /\ DOMAIN letters' = 1..n
    BY <2>1, <2>2, IsASeq
  <2>4. Len(letters') = n
    BY <2>3, <2>2
  <2>5. QED
    BY <2>1, <2>2, <2>4
<1>3. \/ sending' = "text" /\ result' = 0
      \/ sending' = "done" /\ result' = 1
  BY <1>1 DEF Send
<1>4. QED
  BY <1>1, <1>2, <1>3 DEF DeliveryInv, Chain, Apart, ReceivedOnce, FailureIsLast

LEMMA DeliveryInvStep == DeliveryInv /\ [DeliveryNext]_deliveryVars => DeliveryInv'
<1> SUFFICES ASSUME DeliveryInv, [DeliveryNext]_deliveryVars PROVE DeliveryInv'
  OBVIOUS
<1>1. CASE Send
  BY <1>1, SendStep
<1>2. CASE Printed
  BY <1>2 DEF Printed, DeliveryInv, Chain, Apart, ReceivedOnce, FailureIsLast, Cuts, Cutting,
              Printing, Got, Status
<1>3. ASSUME NEW o \in Outcomes, Whole(o) PROVE DeliveryInv'
  <2>1. Len(letters) \in Nat /\ Limit \in Nat
    BY DeliveryAssumption, LettersAre DEF LengthIs
  <2>2. ~Cuts
    BY <1>3, <2>1 DEF Whole, Cuts
  <2>3. QED
    BY <1>3, <2>2, OnePost DEF Whole
<1>4. ASSUME NEW o \in Outcomes, Plain(o) PROVE DeliveryInv'
  BY <1>4, PlainStep
<1>5. ASSUME NEW o \in Outcomes, Chunk(o) PROVE DeliveryInv'
  BY <1>5, ChunkStep
<1>6. ASSUME NEW o \in Outcomes, Single(o) PROVE DeliveryInv'
  <2>1. ~Cuts
    BY <1>6 DEF Single, Cuts, Cutting, Once
  <2>2. QED
    BY <1>6, <2>1, OnePost DEF Single
<1>7. CASE UNCHANGED deliveryVars
  BY <1>7 DEF DeliveryInv, Chain, Apart, ReceivedOnce, FailureIsLast, Cuts, Got, Status
<1>8. QED
  BY <1>1, <1>2, <1>3, <1>4, <1>5, <1>6, <1>7 DEF DeliveryNext

\* Every sender, for every text, every limit of a service and every size of the
\* buffer: what is reported as sent was sent in order, all of it or what the buffer
\* takes, in pieces within the limit (but for the mark) that break no word that
\* fits, no part is received twice, and nothing follows a request that failed.
THEOREM DeliveredIsWhole == DeliverySpec => []DeliveredWhole
<1>1. DeliveryInit => DeliveryInv
  BY DeliveryInvInit
<1>2. DeliveryInv /\ [DeliveryNext]_deliveryVars => DeliveryInv'
  BY DeliveryInvStep
<1>3. DeliveryInv => DeliveredWhole
  BY DeliveryInvWhole
<1>4. QED
  BY <1>1, <1>2, <1>3, PTL DEF DeliverySpec
-----------------------------------------------------------------------------
(* The history. *)

USE DEF historyVars

\* The array after n messages of which the first k are forgotten: the system
\* prompt, the r messages that the last trim kept, newest first, and those added
\* since, oldest first.
Shape(m, n, k, r) ==
    /\ Len(m) = n - k + 1 /\ r <= n - k /\ m[1] = [system |-> TRUE, no |-> 0]
    /\ \A i \in 2..Len(m) :
          m[i] = [system |-> FALSE, no |-> IF i - 1 <= r THEN k + r + 2 - i ELSE k + i - 1]
    /\ k > 0 => r = KeepRecent

\* What the next trim relies on: the array has that shape.
HistoryInv ==
    /\ HistoryTypeOK /\ FitsAllocation
    /\ \E k \in 0..sent, r \in {0, KeepRecent} : Shape(messages, sent, k, r)

LEMMA HistoryNats ==
    /\ InitialCapacity \in Nat \ {0} /\ MaxHistory \in Nat /\ KeepRecent \in Nat \ {0}
    /\ KeepRecent + KeepRecent <= MaxHistory + 1 /\ Slack \in Nat
    /\ MaxToolCalls \in Nat \ {0} /\ MaxSent \in Nat
  BY HistoryAssumption

\* Where the system prompt and the others are, and that nothing is missing.
LEMMA ShapeFacts ==
    ASSUME NEW m \in Seq(Message), NEW n \in Nat, NEW k \in 0..n, NEW r \in {0, KeepRecent},
           Shape(m, n, k, r)
    PROVE  /\ SystemAt(m) = {1} /\ OtherAt(m) = 2..Len(m)
           /\ {m[i].no : i \in OtherAt(m)} = k + 1..n
<1>0. r \in Nat /\ Len(m) \in Nat /\ DOMAIN m = 1..Len(m) /\ Len(m) = n - k + 1 /\ Len(m) >= 1
  BY HistoryNats DEF Shape
<1>1. /\ m[1].system = TRUE
      /\ \A i \in 2..Len(m) : /\ m[i].system = FALSE
                              /\ m[i].no = IF i - 1 <= r THEN k + r + 2 - i ELSE k + i - 1
  <2>1. m[1] = [system |-> TRUE, no |-> 0]
    BY DEF Shape
  <2>2. ASSUME NEW i \in 2..Len(m)
        PROVE  /\ m[i].system = FALSE
               /\ m[i].no = IF i - 1 <= r THEN k + r + 2 - i ELSE k + i - 1
    <3>1. PICK x : x = IF i - 1 <= r THEN k + r + 2 - i ELSE k + i - 1
      OBVIOUS
    <3>2. m[i] = [system |-> FALSE, no |-> x]
      BY <3>1 DEF Shape
    <3>3. QED
      BY <3>1, <3>2
  <2>3. m[1].system = TRUE
    BY <2>1
  <2>4. QED
    BY <2>2, <2>3
<1>2. SystemAt(m) = {1} /\ OtherAt(m) = 2..Len(m)
  BY <1>0, <1>1 DEF SystemAt, OtherAt
<1>3. ASSUME NEW i \in 2..Len(m) PROVE m[i].no \in k + 1..n
  <2>1. i \in Nat /\ 2 <= i /\ i <= n - k + 1 /\ r <= n - k
    BY <1>0 DEF Shape
  <2>2. QED
    BY <1>0, <1>1, <2>1
<1>4. ASSUME NEW x \in k + 1..n PROVE \E i \in 2..Len(m) : m[i].no = x
  <2>0. r <= n - k /\ x \in Nat /\ k + 1 <= x /\ x <= n
    BY DEF Shape
  <2>1. CASE x <= k + r
    <3>1. k + r + 2 - x \in 2..Len(m) /\ (k + r + 2 - x) - 1 <= r
      BY <1>0, <2>0, <2>1
    <3>2. m[k + r + 2 - x].no = k + r + 2 - (k + r + 2 - x)
      BY <1>1, <3>1
    <3>3. k + r + 2 - (k + r + 2 - x) = x
      BY <1>0, <2>0
    <3>4. QED
      BY <3>1, <3>2, <3>3
  <2>2. CASE x > k + r
    <3>1. x - k + 1 \in 2..Len(m) /\ ~((x - k + 1) - 1 <= r)
      BY <1>0, <2>0, <2>2
    <3>2. m[x - k + 1].no = k + (x - k + 1) - 1
      BY <1>1, <3>1
    <3>3. k + (x - k + 1) - 1 = x
      BY <1>0, <2>0
    <3>4. QED
      BY <3>1, <3>2, <3>3
  <2>3. QED
    BY <1>0, <2>0, <2>1, <2>2
<1>5. QED
  BY <1>2, <1>3, <1>4

\* chat_context_add_message keeps the shape.
LEMMA ShapeAppend ==
    ASSUME NEW m \in Seq(Message), NEW n \in Nat, n < MaxSent, NEW k \in 0..n,
           NEW r \in {0, KeepRecent}, Shape(m, n, k, r)
    PROVE  LET s == Append(m, [system |-> FALSE, no |-> n + 1])
           IN  /\ s \in Seq(Message) /\ Len(s) = Len(m) + 1
               /\ Shape(s, n + 1, k, r)
<1> DEFINE e == [system |-> FALSE, no |-> n + 1]
           s == Append(m, e)
<1>0. r \in Nat /\ Len(m) \in Nat /\ Len(m) = n - k + 1 /\ r <= n - k /\ MaxSent \in Nat
  BY HistoryNats DEF Shape
<1>1. e \in Message
  BY <1>0 DEF Message
<1>2. s \in Seq(Message) /\ Len(s) = Len(m) + 1 /\ s[Len(m) + 1] = e /\ \A i \in 1..Len(m) : s[i] = m[i]
  BY <1>1, AppendProperties
<1>3. s[1] = [system |-> TRUE, no |-> 0]
  BY <1>0, <1>2 DEF Shape
<1>4. ASSUME NEW i \in 2..Len(m) + 1
      PROVE  s[i] = [system |-> FALSE, no |-> IF i - 1 <= r THEN k + r + 2 - i ELSE k + i - 1]
  <2>1. CASE i <= Len(m)
    <3>1. i \in 1..Len(m) /\ i \in 2..Len(m)
      BY <1>0, <2>1
    <3>2. s[i] = m[i]
      BY <1>2, <3>1
    <3>3. QED
      BY <3>1, <3>2 DEF Shape
  <2>2. CASE i = Len(m) + 1
    <3>1. ~(i - 1 <= r) /\ k + i - 1 = n + 1
      BY <1>0, <2>2
    <3>2. QED
      BY <1>2, <2>2, <3>1
  <2>3. QED
    BY <1>0, <2>1, <2>2
<1>5. Len(s) = (n + 1) - k + 1 /\ r <= (n + 1) - k
  BY <1>0, <1>2
<1>6. k > 0 => r = KeepRecent
  BY DEF Shape
<1> HIDE DEF s
<1>7. Shape(s, n + 1, k, r)
  BY <1>2, <1>3, <1>4, <1>5, <1>6 DEF Shape
<1>8. QED
  BY <1>2, <1>7 DEF s

\* A trim forgets all but the last KeepRecent messages and turns these round:
\* those it takes were added since the last trim.
LEMMA ShapeTrimmed ==
    ASSUME NEW m \in Seq(Message), NEW n \in Nat, NEW k \in 0..n,
           NEW r \in {0, KeepRecent}, Shape(m, n, k, r), TooLong(m)
    PROVE  /\ Trimmed(m) \in Seq(Message) /\ Len(Trimmed(m)) = KeepRecent + 1
           /\ Cardinality(SystemAt(m)) = 1
           /\ n - KeepRecent \in 0..n /\ Shape(Trimmed(m), n, n - KeepRecent, KeepRecent)
<1> DEFINE K == KeepRecent
           other == Picked(m, OtherAt(m))
           L == n - k
           sub == SubSeq(other, L - K + 1, L)
           rev == Reverse(sub)
           sys == Picked(m, SystemAt(m))
<1>0. r \in Nat /\ Len(m) \in Nat /\ Len(m) = n - k + 1 /\ r <= n - k /\ K \in Nat /\ K >= 1
      /\ MaxHistory \in Nat /\ K + K <= MaxHistory + 1 /\ r <= K
  BY HistoryNats DEF Shape
<1>1. SystemAt(m) = 1..1 /\ OtherAt(m) = 2..Len(m)
  <2>1. 1..1 = {1}
    OBVIOUS
  <2>2. QED
    BY <2>1, ShapeFacts
<1>a. \A a, b \in Nat : 1 <= a /\ a <= b + 1 /\ b <= Len(m) =>
         /\ Picked(m, a..b) \in Seq(Message) /\ Len(Picked(m, a..b)) = b - a + 1
         /\ \A j \in 1..b - a + 1 : Picked(m, a..b)[j] = m[a + j - 1]
  <2>1. TAKE a, b \in Nat
  <2>2. HAVE 1 <= a /\ a <= b + 1 /\ b <= Len(m)
  <2>3. QED
    BY <2>2, PickedInterval
<1>2. /\ other \in Seq(Message) /\ Len(other) = L
      /\ \A j \in 1..L : other[j] = m[j + 1]
  <2>1. PICK l \in Nat : l = Len(m)
    BY <1>0
  <2>2. 1 <= 2 /\ 2 <= l + 1 /\ l <= Len(m)
    BY <1>0, <2>1
  <2>3. /\ Picked(m, 2..l) \in Seq(Message) /\ Len(Picked(m, 2..l)) = l - 2 + 1
        /\ \A j \in 1..l - 2 + 1 : Picked(m, 2..l)[j] = m[2 + j - 1]
    BY <1>a, <2>2
  <2>4. l - 2 + 1 = L /\ \A j \in 1..L : 2 + j - 1 = j + 1
    BY <1>0, <2>1
  <2>5. QED
    BY <1>1, <2>1, <2>3, <2>4
<1>3. /\ sys \in Seq(Message) /\ Len(sys) = 1 /\ sys[1] = m[1]
  <2>1. PICK o \in Nat : o = 1
    OBVIOUS
  <2>2. /\ Picked(m, o..o) \in Seq(Message) /\ Len(Picked(m, o..o)) = o - o + 1
        /\ \A j \in 1..o - o + 1 : Picked(m, o..o)[j] = m[o + j - 1]
    <3>1. 1 <= o /\ o <= o + 1 /\ o <= Len(m)
      BY <1>0, <2>1
    <3>2. QED
      BY <3>1, PickedInterval
  <2>3. o - o + 1 = 1 /\ o \in 1..1 /\ o + o - 1 = o
    BY <2>1
  <2>4. Picked(m, o..o)[o] = m[o]
    BY <2>2, <2>3
  <2>5. QED
    BY <1>1, <2>1, <2>2, <2>3, <2>4
<1>4. Cardinality(SystemAt(m)) = 1 /\ Cardinality(OtherAt(m)) = L
  <2>0. 1..1 = {1}
    OBVIOUS
  <2>1. Cardinality(1..1) = 1
    BY <2>0, FS_Singleton
  <2>2. Cardinality(2..Len(m)) = IF 2 > Len(m) THEN 0 ELSE Len(m) - 2 + 1
    BY <1>0, FS_Interval
  <2>3. QED
    BY <1>0, <1>1, <2>1, <2>2
<1>5. L >= K + K /\ L - K + 1 \in 1..L + 1 /\ L \in Nat /\ L - K + 1 <= L
  BY <1>0, <1>4 DEF TooLong
<1> HIDE DEF other
<1>6. /\ sub \in Seq(Message) /\ Len(sub) = K
      /\ \A j \in 1..K : sub[j] = other[L - K + j]
  <2>1. PICK a \in Nat : a = L - K + 1
    BY <1>5
  <2>2. PICK b \in Nat : b = L
    BY <1>5
  <2>3. /\ SubSeq(other, a, b) \in Seq(Message) /\ Len(SubSeq(other, a, b)) = b - a + 1
        /\ \A j \in 1..b - a + 1 : SubSeq(other, a, b)[j] = other[a + j - 1]
    <3>1. a \in 1..Len(other) + 1 /\ b \in a - 1..Len(other) /\ other \in Seq(Message)
      BY <1>2, <1>5, <2>1, <2>2
    <3>2. QED
      BY <3>1, SubSeqProperties
  <2>4. b - a + 1 = K /\ \A j \in 1..K : a + j - 1 = L - K + j
    BY <1>0, <1>5, <2>1, <2>2
  <2>5. QED
    BY <2>1, <2>2, <2>3, <2>4
<1> HIDE DEF sub
<1>7. /\ rev \in Seq(Message) /\ Len(rev) = K
      /\ \A j \in 1..K : rev[j] = m[L + 2 - j]
  <2>1. rev = [j \in 1..K |-> sub[K - j + 1]]
    BY <1>6 DEF Reverse
  <2>2. \A j \in 1..K : K - j + 1 \in 1..K /\ L - K + (K - j + 1) = L - j + 1 /\ L - j + 1 \in 1..L
                        /\ (L - j + 1) + 1 = L + 2 - j
    BY <1>0, <1>5
  <2>3. \A j \in 1..K : sub[K - j + 1] = m[L + 2 - j] /\ sub[K - j + 1] \in Message
    <3>1. \A j \in 1..K : sub[j] \in Message
      BY <1>6
    <3>2. ASSUME NEW j \in 1..K PROVE sub[K - j + 1] = m[L + 2 - j]
      <4>1. sub[K - j + 1] = other[L - K + (K - j + 1)]
        BY <1>6, <2>2
      <4>2. other[L - j + 1] = m[(L - j + 1) + 1]
        BY <1>2, <2>2
      <4>3. QED
        BY <2>2, <4>1, <4>2
    <3>3. QED
      BY <2>2, <3>1, <3>2
  <2>4. [j \in 1..K |-> sub[K - j + 1]] \in Seq(Message) /\ Len([j \in 1..K |-> sub[K - j + 1]]) = K
    <3>1. PICK N \in Nat : N = K
      BY <1>0
    <3>2. \A j \in 1..N : sub[N - j + 1] \in Message
      BY <2>3, <3>1
    <3>3. [j \in 1..N |-> sub[N - j + 1]] \in Seq(Message) /\ Len([j \in 1..N |-> sub[N - j + 1]]) = N
      BY <3>2
    <3>4. QED
      BY <3>1, <3>3
  <2> HIDE DEF rev
  <2>5. QED
    BY <2>1, <2>3, <2>4
<1> HIDE DEF rev, sys
<1>8. Trimmed(m) = sys \o rev
  <2>1. Len(other) = L
    BY <1>2
  <2>2. QED
    BY <2>1 DEF Trimmed, other, sub, rev, sys
<1>9. /\ sys \o rev \in Seq(Message) /\ Len(sys \o rev) = K + 1
      /\ (sys \o rev)[1] = m[1] /\ \A i \in 2..K + 1 : (sys \o rev)[i] = rev[i - 1]
  <2>1. /\ sys \o rev \in Seq(Message) /\ Len(sys \o rev) = Len(sys) + Len(rev)
        /\ \A i \in 1..Len(sys) + Len(rev) :
              (sys \o rev)[i] = IF i <= Len(sys) THEN sys[i] ELSE rev[i - Len(sys)]
    BY <1>3, <1>7, ConcatProperties
  <2>2. \A i \in 1..1 + K : (sys \o rev)[i] = IF i <= 1 THEN sys[i] ELSE rev[i - 1]
    BY <1>3, <1>7, <2>1
  <2>3. 1 \in 1..1 + K /\ \A i \in 2..K + 1 : i \in 1..1 + K /\ ~(i <= 1)
    BY <1>0
  <2>4. Len(sys \o rev) = K + 1
    BY <1>0, <1>3, <1>7, <2>1
  <2>5. (sys \o rev)[1] = m[1]
    <3>1. PICK cat : cat = sys \o rev
      OBVIOUS
    <3>2. \A i \in 1..1 + K : cat[i] = IF i <= 1 THEN sys[i] ELSE rev[i - 1]
      BY <2>2, <3>1, Zenon
    <3>3. cat[1] = sys[1]
      BY <2>3, <3>2
    <3>4. QED
      BY <1>3, <3>1, <3>3
  <2>6. QED
    BY <2>1, <2>2, <2>3, <2>4, <2>5
<1>10. ASSUME NEW i \in 2..K + 1
       PROVE  Trimmed(m)[i] = [system |-> FALSE, no |-> n + 2 - i]
  <2>1. i - 1 \in 1..K /\ L + 2 - (i - 1) = L + 3 - i /\ L + 3 - i \in 2..Len(m)
        /\ ~((L + 3 - i) - 1 <= r) /\ k + (L + 3 - i) - 1 = n + 2 - i
    BY <1>0, <1>5
  <2>2. Trimmed(m)[i] = m[L + 3 - i]
    BY <1>7, <1>8, <1>9, <2>1
  <2>3. m[L + 3 - i] = [system |-> FALSE, no |-> k + (L + 3 - i) - 1]
    BY <2>1 DEF Shape
  <2>4. QED
    BY <2>1, <2>2, <2>3
<1>11. Trimmed(m) \in Seq(Message) /\ Len(Trimmed(m)) = K + 1 /\ Trimmed(m)[1] = [system |-> TRUE, no |-> 0]
  BY <1>8, <1>9 DEF Shape
<1>12. n - K \in 0..n
  BY <1>0, <1>5
<1>13. Shape(Trimmed(m), n, n - K, K)
  <2>1. K + 1 = n - (n - K) + 1 /\ K <= n - (n - K)
    BY <1>0
  <2>2. \A i \in 2..K + 1 : i - 1 <= K /\ (n - K) + K + 2 - i = n + 2 - i
    BY <1>0
  <2>3. \A i \in 2..K + 1 :
           Trimmed(m)[i] = [system |-> FALSE, no |-> IF i - 1 <= K THEN (n - K) + K + 2 - i ELSE (n - K) + i - 1]
    BY <1>10, <2>2
  <2>4. QED
    BY <1>11, <2>1, <2>3 DEF Shape
<1>14. QED
  BY <1>4, <1>11, <1>12, <1>13

\* agent_trim_history on an array that fits into its memory.
LEMMA TrimKeepsInv ==
    ASSUME NEW s \in Seq(Message), NEW c \in Nat, NEW a \in Nat, Len(s) <= c, c <= a,
           NEW n \in Nat, NEW k \in 0..n, NEW r \in {0, KeepRecent}, Shape(s, n, k, r),
           agent_trim_history(s, c, a)
    PROVE  /\ messages' \in Seq(Message) /\ capacity' \in Nat /\ allocated' \in Nat
           /\ Len(messages') <= capacity' /\ capacity' <= allocated'
           /\ \E k1 \in 0..n, r1 \in {0, KeepRecent} : Shape(messages', n, k1, r1)
<1>1. CASE /\ TooLong(s)
           /\ messages' = Trimmed(s)
           /\ capacity' = Len(Trimmed(s)) + Slack
           /\ allocated' = Cardinality(SystemAt(s)) + KeepRecent + Slack
  <2>1. /\ Trimmed(s) \in Seq(Message) /\ Len(Trimmed(s)) = KeepRecent + 1
        /\ Cardinality(SystemAt(s)) = 1
        /\ n - KeepRecent \in 0..n /\ Shape(Trimmed(s), n, n - KeepRecent, KeepRecent)
    BY <1>1, ShapeTrimmed
  <2>2. capacity' = KeepRecent + 1 + Slack /\ allocated' = 1 + KeepRecent + Slack
    BY <1>1, <2>1
  <2>3. QED
    BY <1>1, <2>1, <2>2, HistoryNats
<1>2. CASE messages' = s /\ capacity' = c /\ allocated' = a
  BY <1>2
<1>3. QED
  BY <1>1, <1>2 DEF agent_trim_history

LEMMA HistoryInvInit == HistoryInit => HistoryInv
<1> SUFFICES ASSUME HistoryInit PROVE HistoryInv
  OBVIOUS
<1> DEFINE e == [system |-> TRUE, no |-> 0]
<1>1. e \in Message
  BY HistoryNats DEF Message
<1>2. messages = <<e>> /\ messages \in Seq(Message) /\ Len(messages) = 1 /\ messages[1] = e
  BY <1>1 DEF HistoryInit
<1>3. HistoryTypeOK /\ FitsAllocation
  BY <1>2, HistoryNats DEF HistoryInit, HistoryTypeOK, FitsAllocation
<1>4. sent = 0 /\ 0 \in 0..sent
  BY DEF HistoryInit
<1>5. Shape(messages, sent, 0, 0)
  BY <1>2, <1>4 DEF Shape
<1>6. QED
  BY <1>3, <1>4, <1>5 DEF HistoryInv

\* A message is added: the array is doubled in time.
LEMMA AddKeepsInv ==
    ASSUME HistoryInv, AddNext
    PROVE  /\ messages' \in Seq(Message) /\ capacity' \in Nat /\ allocated' \in Nat
           /\ sent' \in 0..MaxSent
           /\ Len(messages') <= capacity' /\ capacity' <= allocated'
           /\ \E k \in 0..sent', r \in {0, KeepRecent} : Shape(messages', sent', k, r)
<1>1. PICK k \in 0..sent, r \in {0, KeepRecent} : Shape(messages, sent, k, r)
  BY DEF HistoryInv
<1>2. /\ messages \in Seq(Message) /\ sent \in Nat /\ sent < MaxSent /\ sent' = sent + 1
      /\ capacity \in Nat /\ allocated \in Nat /\ Len(messages) <= capacity
      /\ capacity <= allocated /\ Len(messages) >= 1 /\ Len(messages) \in Nat
  BY <1>1, HistoryNats DEF HistoryInv, HistoryTypeOK, FitsAllocation, AddNext, Shape
<1>3. /\ messages' = Append(messages, [system |-> FALSE, no |-> sent + 1])
      /\ IF Len(messages) >= capacity
         THEN capacity' = capacity * 2 /\ allocated' = capacity * 2
         ELSE capacity' = capacity /\ allocated' = allocated
  BY DEF AddNext, chat_context_add_message
<1>4. /\ messages' \in Seq(Message) /\ Len(messages') = Len(messages) + 1
      /\ Shape(messages', sent + 1, k, r)
  BY <1>1, <1>2, <1>3, ShapeAppend
<1>5. /\ capacity' \in Nat /\ allocated' \in Nat
      /\ Len(messages) + 1 <= capacity' /\ capacity' <= allocated'
  BY <1>2, <1>3
<1>6. k \in 0..sent' /\ sent' \in 0..MaxSent
  BY <1>2, HistoryNats
<1>7. QED
  BY <1>2, <1>4, <1>5, <1>6

LEMMA HistoryInvStep == HistoryInv /\ [HistoryNext]_historyVars => HistoryInv'
<1> SUFFICES ASSUME HistoryInv, [HistoryNext]_historyVars PROVE HistoryInv'
  OBVIOUS
<1>0. HistoryTypeOK /\ FitsAllocation
  BY DEF HistoryInv
<1>1. CASE UserMessage
  BY <1>0, <1>1, AddKeepsInv DEF UserMessage, HistoryInv, HistoryTypeOK, FitsAllocation
<1>2. CASE TurnFails
  BY <1>0, <1>2 DEF TurnFails, HistoryInv, HistoryTypeOK, FitsAllocation
<1>3. CASE ToolCalls
  BY <1>0, <1>3, HistoryNats DEF ToolCalls, HistoryInv, HistoryTypeOK, FitsAllocation
<1>4. CASE ToolResult
  <2>1. todo' \in 0..MaxToolCalls
    BY <1>0, <1>4, HistoryNats DEF ToolResult, HistoryTypeOK
  <2>2. QED
    BY <1>0, <1>4, <2>1, AddKeepsInv DEF ToolResult, HistoryInv, HistoryTypeOK, FitsAllocation
<1>5. CASE Refused
  BY <1>0, <1>5, HistoryNats DEF Refused, HistoryInv, HistoryTypeOK, FitsAllocation
<1>6. CASE IterationEnds
  <2>1. PICK k \in 0..sent, r \in {0, KeepRecent} : Shape(messages, sent, k, r)
    BY DEF HistoryInv
  <2>2. /\ messages' \in Seq(Message) /\ capacity' \in Nat /\ allocated' \in Nat
        /\ Len(messages') <= capacity' /\ capacity' <= allocated'
        /\ \E k1 \in 0..sent, r1 \in {0, KeepRecent} : Shape(messages', sent, k1, r1)
    BY <1>0, <1>6, <2>1, TrimKeepsInv, HistoryNats DEF IterationEnds, HistoryTypeOK, FitsAllocation
  <2>3. QED
    BY <1>0, <1>6, <2>2 DEF IterationEnds, HistoryInv, HistoryTypeOK, FitsAllocation
<1>7. CASE FinalAnswer
  <2> DEFINE s == Append(messages, [system |-> FALSE, no |-> sent + 1])
             full == Len(messages) >= capacity
             c == IF full THEN capacity * 2 ELSE capacity
             a == IF full THEN capacity * 2 ELSE allocated
  <2>1. PICK k \in 0..sent, r \in {0, KeepRecent} : Shape(messages, sent, k, r)
    BY DEF HistoryInv
  <2>2. /\ messages \in Seq(Message) /\ sent \in Nat /\ sent < MaxSent
        /\ capacity \in Nat /\ allocated \in Nat /\ Len(messages) <= capacity
        /\ capacity <= allocated /\ Len(messages) >= 1 /\ Len(messages) \in Nat
    BY <1>0, <1>7, <2>1, HistoryNats DEF HistoryTypeOK, FitsAllocation, FinalAnswer, Shape
  <2>3. s \in Seq(Message) /\ Len(s) = Len(messages) + 1 /\ Shape(s, sent + 1, k, r)
    BY <2>1, <2>2, ShapeAppend
  <2>4. c \in Nat /\ a \in Nat /\ Len(messages) + 1 <= c /\ c <= a
    BY <2>2
  <2>5. agent_trim_history(s, c, a) /\ sent' = sent + 1 /\ hpc' = "user" /\ todo' = todo
    BY <1>7 DEF FinalAnswer
  <2>6. sent + 1 \in Nat /\ k \in 0..sent + 1 /\ sent + 1 \in 0..MaxSent
    BY <2>2, HistoryNats
  <2> HIDE DEF s, c, a, full
  <2>7. /\ messages' \in Seq(Message) /\ capacity' \in Nat /\ allocated' \in Nat
        /\ Len(messages') <= capacity' /\ capacity' <= allocated'
        /\ \E k1 \in 0..sent + 1, r1 \in {0, KeepRecent} : Shape(messages', sent + 1, k1, r1)
    BY <2>3, <2>4, <2>5, <2>6, TrimKeepsInv
  <2>8. QED
    BY <1>0, <2>5, <2>6, <2>7 DEF HistoryInv, HistoryTypeOK, FitsAllocation
<1>8. CASE UNCHANGED historyVars
  BY <1>0, <1>8 DEF HistoryInv, HistoryTypeOK, FitsAllocation
<1>9. QED
  BY <1>1, <1>2, <1>3, <1>4, <1>5, <1>6, <1>7, <1>8 DEF HistoryNext

LEMMA HistoryInvImplies == HistoryInv => HistoryTypeOK /\ HistoryIntact
<1> SUFFICES ASSUME HistoryInv PROVE HistoryTypeOK /\ HistoryIntact
  OBVIOUS
<1>1. PICK k \in 0..sent, r \in {0, KeepRecent} : Shape(messages, sent, k, r)
  BY DEF HistoryInv
<1>2. messages \in Seq(Message) /\ sent \in Nat /\ k \in 0..sent
  BY HistoryNats DEF HistoryInv, HistoryTypeOK
<1>3. Nos = k + 1..sent
  <2>1. {messages[i].no : i \in OtherAt(messages)} = k + 1..sent
    BY <1>1, <1>2, ShapeFacts
  <2>2. QED
    BY <2>1 DEF Nos, OtherAt
<1>4. /\ messages[1] = [system |-> TRUE, no |-> 0]
      /\ Len(messages) = sent - k + 1
      /\ k > 0 => sent - k >= KeepRecent
  BY <1>1, <1>2, HistoryNats DEF Shape
<1>5. QED
  BY <1>1, <1>3, <1>4 DEF HistoryInv, HistoryIntact, RecentSuffix

\* Through any number of turns, trims and doublings of the array, for every size
\* of it, the history stays within its memory and forgets nothing but its oldest
\* messages.
THEOREM HistoryCorrect == HistorySpec => [](HistoryTypeOK /\ HistoryIntact)
  BY HistoryInvInit, HistoryInvStep, HistoryInvImplies, PTL DEF HistorySpec
-----------------------------------------------------------------------------
(* The Telegram listener. *)

USE DEF pollVars

Job == [update : Update \cup {NoUpdate}, chat_id : Chats \cup {NoChat}]

\* The number that is read for an update_id never moves the offset up to an
\* update, so that Telegram keeps them all, and what is fetched has a text.
PollerInv ==
    /\ PollerTypeOK
    /\ offset <= MaxOffset /\ last_id <= MaxOffset
    /\ ppc = "push" => text \in texts
    /\ queue \in Seq(Job)
    /\ \A i \in 1..Len(updates) : updates[i].kind /= "none" => updates[i] \in texts

LEMMA PollerNats ==
    /\ NoChat \notin Chats /\ FirstId \in Nat /\ FirstId >= 1 /\ MaxUpdates \in Nat
    /\ MaxOffset \in Nat /\ MaxOffset < FirstId /\ Capacity \in Nat /\ Capacity >= 1
  BY PollerAssumption

LEMMA UpdateFacts ==
    ASSUME NEW u \in Update PROVE u.id \in Nat /\ u.id >= FirstId /\ u.id \in UpdateIds
  BY PollerNats DEF Update, UpdateIds

\* Everything is returned again and again.
LEMMA FetchedIs ==
    ASSUME PollerInv
    PROVE  /\ Unconfirmed = updates
           /\ Max({offset} \cup {ParsedId(u) : u \in ToSet(Unconfirmed)}) = offset
           /\ Texts /= <<>> => Head(Texts) \in texts
<1>0. updates \in Seq(Update) /\ offset \in Nat /\ offset <= MaxOffset /\ Len(updates) \in Nat
  BY PollerNats DEF PollerInv, PollerTypeOK
<1>1. \A i \in 1..Len(updates) : updates[i] \in Update
  BY <1>0
<1>2. \A i \in 1..Len(updates) : updates[i].id >= offset
  <2>1. TAKE i \in 1..Len(updates)
  <2>2. updates[i].id \in Nat /\ updates[i].id >= FirstId
    BY <1>1, UpdateFacts
  <2>3. QED
    BY <1>0, <2>2, PollerNats
<1>3. {i \in DOMAIN updates : updates[i].id >= offset} = 1..Len(updates)
  BY <1>0, <1>2
<1>4. Unconfirmed = updates
  BY <1>0, <1>3, PickedAll DEF Unconfirmed
<1>5. Max({offset} \cup {ParsedId(u) : u \in ToSet(Unconfirmed)}) = offset
  <2> DEFINE T == {offset} \cup {ParsedId(u) : u \in ToSet(Unconfirmed)}
  <2>1. offset \in T /\ \A x \in T : x \in Nat /\ offset >= x
    BY <1>0 DEF ParsedId
  <2>2. \A x \in T : (\A y \in T : x >= y) => x = offset
    BY <1>0, <2>1
  <2> HIDE DEF T
  <2>3. Max(T) \in T /\ \A y \in T : Max(T) >= y
    BY <2>1 DEF Max
  <2>4. QED
    BY <2>2, <2>3 DEF T
<1>6. ASSUME Texts /= <<>> PROVE Head(Texts) \in texts
  <2>0. PICK I : I = {i \in 1..Len(updates) : updates[i].kind /= "none"}
    OBVIOUS
  <2>1. Texts = Picked(updates, I)
    <3>1. DOMAIN updates = 1..Len(updates)
      BY <1>0
    <3>2. QED
      BY <1>4, <2>0, <3>1 DEF Texts
  <2>2. I \in SUBSET (1..Len(updates))
    BY <2>0
  <2>3. /\ Cardinality(I) \in Nat /\ Texts \in Seq(Update) /\ Len(Texts) = Cardinality(I)
        /\ \A j \in 1..Cardinality(I) : \E i \in I : Texts[j] = updates[i]
    <3>1. /\ Cardinality(I) \in Nat /\ Picked(updates, I) \in Seq(Update)
          /\ Len(Picked(updates, I)) = Cardinality(I)
          /\ \A j \in 1..Cardinality(I) : \E i \in I : Picked(updates, I)[j] = updates[i]
      BY <1>0, <2>2, PickedProperties
    <3>2. QED
      BY <2>1, <3>1
  <2>4. 1 \in 1..Cardinality(I) /\ Head(Texts) = Texts[1]
    BY <1>6, <2>3
  <2>5. PICK i \in I : Head(Texts) = updates[i]
    BY <2>3, <2>4
  <2>6. i \in 1..Len(updates) /\ updates[i].kind /= "none"
    BY <2>0, <2>5
  <2>7. QED
    BY <2>5, <2>6 DEF PollerInv
<1>7. QED
  BY <1>4, <1>5, <1>6

LEMMA PollerInvInit == PollerInit => PollerInv
<1> SUFFICES ASSUME PollerInit PROVE PollerInv
  OBVIOUS
<1>1. updates = <<>> /\ updates \in Seq(Update) /\ Len(updates) = 0 /\ queue = <<>> /\ queue \in Seq(Job) /\ Len(queue) = 0
  BY DEF PollerInit
<1>2. PollerTypeOK
  BY <1>1, PollerNats DEF PollerInit, PollerTypeOK
<1>3. QED
  BY <1>1, <1>2, PollerNats DEF PollerInit, PollerInv

LEMMA AdvanceIs == ASSUME PollerInv, Advance PROVE offset' \in 0..FirstId + MaxUpdates /\ offset' <= MaxOffset
  BY PollerNats DEF PollerInv, PollerTypeOK, Advance

LEMMA PollerInvStep == PollerInv /\ [PollerNext]_pollVars => PollerInv'
<1> SUFFICES ASSUME PollerInv, [PollerNext]_pollVars PROVE PollerInv'
  OBVIOUS
<1>0. PollerTypeOK
  BY DEF PollerInv
<1>1. CASE Arrive
  <2>1. PICK c \in Chats, k \in {"plain", "escaped", "none"} :
           LET u == [id |-> FirstId + arrived, chat |-> c, kind |-> k]
           IN  /\ updates' = Append(updates, u)
               /\ texts' = IF k = "none" THEN texts ELSE texts \cup {u}
    BY <1>1 DEF Arrive
  <2>2. PICK u : u = [id |-> FirstId + arrived, chat |-> c, kind |-> k]
    OBVIOUS
  <2>3. /\ arrived \in Nat /\ arrived < MaxUpdates /\ arrived' = arrived + 1
        /\ FirstId + arrived \in UpdateIds
        /\ UNCHANGED <<offset, last_id, text, text0, chat_id, ppc, queue, pushed>>
    BY <1>0, <1>1, PollerNats DEF Arrive, PollerTypeOK, UpdateIds
  <2>4. u \in Update /\ u.kind = k
    BY <2>2, <2>3 DEF Update
  <2>5. updates' = Append(updates, u) /\ texts' = IF k = "none" THEN texts ELSE texts \cup {u}
    BY <2>1, <2>2
  <2>6. updates \in Seq(Update) /\ Len(updates) \in Nat
    BY <1>0 DEF PollerTypeOK
  <2>7. /\ updates' \in Seq(Update) /\ Len(updates') = Len(updates) + 1
        /\ updates'[Len(updates) + 1] = u /\ \A i \in 1..Len(updates) : updates'[i] = updates[i]
    BY <2>4, <2>5, <2>6, AppendProperties
  <2>8. PollerTypeOK'
    <3>1. texts \subseteq texts' /\ texts' \subseteq Update
      BY <1>0, <2>4, <2>5 DEF PollerTypeOK
    <3>2. pushed' \subseteq {v.id : v \in texts'}
      BY <1>0, <2>3, <3>1 DEF PollerTypeOK
    <3>3. arrived' \in 0..MaxUpdates
      BY <2>3, PollerNats
    <3>4. QED
      BY <1>0, <2>3, <2>7, <3>1, <3>2, <3>3 DEF PollerTypeOK
  <2>9. \A i \in 1..Len(updates') : updates'[i].kind /= "none" => updates'[i] \in texts'
    <3>1. TAKE i \in 1..Len(updates')
    <3>2. CASE i \in 1..Len(updates)
      BY <2>5, <2>7, <3>2 DEF PollerInv
    <3>3. CASE i = Len(updates) + 1
      BY <2>4, <2>5, <2>7, <3>3
    <3>4. QED
      BY <2>6, <2>7, <3>2, <3>3
  <2>10. ppc' = "push" => text' \in texts'
    BY <2>3, <2>5 DEF PollerInv
  <2>11. QED
    BY <2>3, <2>8, <2>9, <2>10 DEF PollerInv
<1>2. CASE FetchFails
  <2>1. updates' = updates /\ last_id' \in {last_id, offset}
    BY <1>2, FetchedIs DEF FetchFails
  <2>2. UNCHANGED <<arrived, offset, text, text0, chat_id, ppc, queue, texts, pushed>>
    BY <1>2 DEF FetchFails
  <2>3. QED
    BY <1>0, <2>1, <2>2 DEF PollerInv, PollerTypeOK
<1>3. CASE Fetch
  <2>1. /\ updates' = updates /\ last_id' = offset /\ text' = Head(Texts) /\ chat_id' = NoChat
        /\ ppc' = "push" /\ text' \in texts /\ text0' \in BOOLEAN
    BY <1>0, <1>3, FetchedIs DEF Fetch, ParsedChat, BeginsWith, PollerTypeOK
  <2>2. UNCHANGED <<arrived, offset, queue, texts, pushed>>
    BY <1>3 DEF Fetch
  <2>3. PollerTypeOK'
    BY <1>0, <2>1, <2>2 DEF PollerTypeOK
  <2>4. QED
    BY <2>1, <2>2, <2>3 DEF PollerInv
<1>4. CASE PassOver
  <2>1. offset' \in 0..FirstId + MaxUpdates /\ offset' <= MaxOffset /\ ppc' = "fetch"
    BY <1>4, AdvanceIs DEF PassOver
  <2>2. UNCHANGED <<updates, arrived, last_id, text, text0, chat_id, queue, texts, pushed>>
    BY <1>4 DEF PassOver
  <2>3. QED
    BY <1>0, <2>1, <2>2 DEF PollerInv, PollerTypeOK
<1>5. CASE Push
  <2>1. offset' \in 0..FirstId + MaxUpdates /\ offset' <= MaxOffset /\ ppc' = "fetch"
    BY <1>5, AdvanceIs DEF Push
  <2>2. UNCHANGED <<updates, arrived, last_id, text, text0, chat_id, texts>>
    BY <1>5 DEF Push
  <2>3. PICK j : j = [update |-> text, chat_id |-> chat_id]
    OBVIOUS
  <2>4. j \in Job
    BY <1>0, <2>3 DEF PollerInv, PollerTypeOK, Job
  <2>5. /\ ppc = "push" /\ queue' = Append(queue, j) /\ Len(queue) < Capacity
        /\ pushed' = pushed \cup {text.id}
    BY <1>5, <2>3 DEF Push
  <2>6. queue \in Seq(Job) /\ Len(queue) \in Nat
    BY DEF PollerInv
  <2>7. queue' \in Seq(Job) /\ Len(queue') = Len(queue) + 1
    BY <2>4, <2>5, <2>6, AppendProperties
  <2>8. Len(queue') <= Capacity
    BY <2>5, <2>6, <2>7, PollerNats
  <2>9. pushed' \subseteq {u.id : u \in texts'}
    BY <1>0, <2>2, <2>5 DEF PollerInv, PollerTypeOK
  <2>10. PollerTypeOK'
    BY <1>0, <2>1, <2>2, <2>8, <2>9 DEF PollerTypeOK
  <2>11. QED
    BY <2>1, <2>2, <2>7, <2>10 DEF PollerInv
<1>6. CASE Answer
  <2>1. UNCHANGED <<updates, arrived, offset, last_id, text, text0, chat_id, ppc, texts, pushed>>
    BY <1>6 DEF Answer
  <2>2. queue \in Seq(Job) /\ queue /= <<>> /\ queue' = Tail(queue)
    BY <1>6 DEF Answer, PollerInv
  <2>3. queue' \in Seq(Job) /\ Len(queue') = Len(queue) - 1 /\ Head(queue) \in Job /\ Len(queue) \in Nat
    BY <2>2, HeadTailProperties
  <2>6. Len(queue') <= Capacity
    BY <1>0, <2>3, PollerNats DEF PollerTypeOK
  <2>7. PollerTypeOK'
    BY <1>0, <2>1, <2>6 DEF PollerTypeOK
  <2>8. QED
    BY <2>1, <2>3, <2>7 DEF PollerInv
<1>7. CASE UNCHANGED pollVars
  BY <1>0, <1>7 DEF PollerInv, PollerTypeOK
<1>8. QED
  BY <1>1, <1>2, <1>3, <1>4, <1>5, <1>6, <1>7 DEF PollerNext

LEMMA PollerTypeCorrect == PollerSpec => []PollerTypeOK
<1>1. PollerInv => PollerTypeOK
  BY DEF PollerInv
<1>2. QED
  BY <1>1, PollerInvInit, PollerInvStep, PTL DEF PollerSpec
-----------------------------------------------------------------------------
(* The channel table. *)

USE DEF tableVars, channelVars

InFile == read_entries(ConfigToml)

LEMMA ChannelFacts ==
    /\ ConfigToml \in Seq(Config) /\ MaxChannels \in Nat /\ MaxChannels >= 1
    /\ AddTypes \subseteq Types /\ MaxAdds \in Nat /\ Blank \in Config /\ Blank.name = 0
<1>1. Blank \in Config /\ Blank.name = 0
  BY DEF Blank, Config, Types
<1>2. QED
  BY <1>1, ChannelsAssumption

\* An entry is determined by its fields.
LEMMA ConfigIs ==
    ASSUME NEW a \in Config, NEW b \in Config, a.type = b.type, a.token = b.token,
           a.url = b.url, a.enabled = b.enabled, a.name = b.name
    PROVE  a = b
  BY DEF Config

\* What is read: the blank entry, and those of the file behind it.
LEMMA ReadEntries ==
    ASSUME NEW f \in Seq(Config)
    PROVE  /\ read_entries(f) \in Seq(Config) /\ Len(read_entries(f)) = Len(f) + 1
           /\ read_entries(f)[1] = Blank
           /\ \A i \in 1..Len(f) : read_entries(f)[i + 1] = f[i]
<1>1. PICK h : h = <<Blank>>
  OBVIOUS
<1>2. h \in Seq(Config) /\ Len(h) = 1 /\ h[1] = Blank
  BY <1>1, ChannelFacts
<1>3. Len(f) \in Nat
  OBVIOUS
<1>4. PICK cat : cat = h \o f
  OBVIOUS
<1>5. /\ cat \in Seq(Config) /\ Len(cat) = 1 + Len(f)
      /\ \A i \in 1..1 + Len(f) : cat[i] = IF i <= 1 THEN h[i] ELSE f[i - 1]
  <2>1. /\ h \o f \in Seq(Config) /\ Len(h \o f) = Len(h) + Len(f)
        /\ \A i \in 1..Len(h) + Len(f) : (h \o f)[i] = IF i <= Len(h) THEN h[i] ELSE f[i - Len(h)]
    BY <1>2, ConcatProperties
  <2>2. QED
    BY <1>2, <1>4, <2>1, Zenon
<1>6. cat[1] = Blank
  <2>1. 1 \in 1..1 + Len(f) /\ 1 <= 1
    BY <1>3
  <2>2. QED
    BY <1>2, <1>5, <2>1
<1>7. \A i \in 1..Len(f) : cat[i + 1] = f[i]
  <2>1. \A i \in 1..Len(f) : i + 1 \in 1..1 + Len(f) /\ ~(i + 1 <= 1) /\ (i + 1) - 1 = i
    BY <1>3
  <2>2. QED
    BY <1>5, <2>1
<1>8. read_entries(f) = cat
  BY <1>1, <1>4 DEF read_entries
<1>9. QED
  BY <1>3, <1>5, <1>6, <1>7, <1>8

LEMMA InFileIs == /\ InFile \in Seq(Config) /\ Len(InFile) = Len(ConfigToml) + 1
                  /\ Len(ConfigToml) \in Nat /\ Len(InFile) \in Nat
                  /\ \A i \in 1..Len(ConfigToml) : InFile[i + 1] = ConfigToml[i]
                  /\ \A i \in 1..Len(InFile) : InFile[i] \in Config
<1>1. ConfigToml \in Seq(Config)
  BY ChannelFacts
<1>2. /\ InFile \in Seq(Config) /\ Len(InFile) = Len(ConfigToml) + 1
      /\ \A i \in 1..Len(ConfigToml) : InFile[i + 1] = ConfigToml[i]
  BY <1>1, ReadEntries DEF InFile
<1>3. QED
  BY <1>1, <1>2

\* The loaders' variables, whatever they do to each other.
TableTypes ==
    /\ g_channels \in [0..MaxChannels - 1 -> Config] /\ g_channel_count \in Nat
    /\ entry \in [Loaders -> 1..Len(InFile) + 1]
    /\ copying \in [Loaders -> {"no", "tail", "count"}]
    /\ index \in [Loaders -> 0..MaxChannels - 1] /\ overlapped \in BOOLEAN
    /\ \A l \in Loaders : copying[l] /= "no" => entry[l] <= Len(InFile)

\* A loader that copies: it writes to the slot behind the others, and while the
\* table is shorter than the file what it copies is the entry for that slot.
InPlace(l) ==
    /\ index[l] = g_channel_count /\ g_channel_count < MaxChannels
    /\ g_channel_count < Len(InFile) => entry[l] = g_channel_count + 1
    /\ g_channels[g_channel_count].name = InFile[entry[l]].name
    /\ g_channels[g_channel_count].type = InFile[entry[l]].type
    /\ g_channels[g_channel_count].token = InFile[entry[l]].token
    /\ copying[l] = "count" => g_channels[g_channel_count] = InFile[entry[l]]

\* As long as no two loads overlap: the table begins with the entries of the file,
\* nobody is further in the file than the table is long, and somebody is as far,
\* or through.
Ordered ==
    /\ g_channel_count <= MaxChannels
    /\ \A i \in 1..g_channel_count : i <= Len(InFile) => g_channels[i - 1] = InFile[i]
    /\ \A l \in Loaders : entry[l] <= g_channel_count + 1 \/ g_channel_count = MaxChannels
    /\ \/ g_channel_count = 0
       \/ \E l \in Loaders : entry[l] > g_channel_count \/ entry[l] > Len(InFile)
    /\ \A l \in Loaders : copying[l] /= "no" => InPlace(l)
    /\ \A l, m \in Loaders : copying[l] /= "no" /\ copying[m] /= "no" => l = m

LoaderInv == TableTypes /\ (~overlapped => Ordered)

\* A loader's record updates.
LEMMA HeadCopied ==
    ASSUME NEW old \in Config, NEW new \in Config
    PROVE  LET r == [[[old EXCEPT !.name = new.name] EXCEPT !.type = new.type] EXCEPT !.token = new.token]
           IN  /\ r \in Config /\ r.name = new.name /\ r.type = new.type /\ r.token = new.token
  BY DEF Config

LEMMA TailCopied ==
    ASSUME NEW old \in Config, NEW new \in Config, old.name = new.name, old.type = new.type,
           old.token = new.token
    PROVE  [[old EXCEPT !.url = new.url] EXCEPT !.enabled = new.enabled] = new
  BY DEF Config

LEMMA LoaderInvInit == ChannelsInit => LoaderInv
<1> SUFFICES ASSUME ChannelsInit PROVE LoaderInv
  OBVIOUS
<1>1. g_channels = [i \in 0..MaxChannels - 1 |-> Blank] /\ g_channel_count = 0
      /\ entry = [k \in Loaders |-> 1] /\ copying = [k \in Loaders |-> "no"]
      /\ index = [k \in Loaders |-> 0] /\ overlapped = FALSE
  BY DEF ChannelsInit
<1>2. TableTypes
  <2>1. g_channels \in [0..MaxChannels - 1 -> Config]
    BY <1>1, ChannelFacts
  <2>2. entry \in [Loaders -> 1..Len(InFile) + 1] /\ index \in [Loaders -> 0..MaxChannels - 1]
    BY <1>1, InFileIs, ChannelFacts
  <2>3. QED
    BY <1>1, <2>1, <2>2 DEF TableTypes
<1>3. Ordered
  BY <1>1, ChannelFacts DEF Ordered
<1>4. QED
  BY <1>2, <1>3 DEF LoaderInv

LEMMA TypesAre ==
    ASSUME TableTypes, NEW l \in Loaders
    PROVE  /\ Len(InFile) \in Nat /\ Len(InFile) >= 1 /\ MaxChannels \in Nat /\ MaxChannels >= 1
           /\ entry[l] \in 1..Len(InFile) + 1 /\ entry[l] \in Nat /\ entry[l] >= 1
           /\ index[l] \in 0..MaxChannels - 1 /\ copying[l] \in {"no", "tail", "count"}
           /\ g_channel_count \in Nat
           /\ entry[l] <= Len(InFile) => InFile[entry[l]] \in Config
<1>1. /\ Len(InFile) \in Nat /\ Len(InFile) >= 1 /\ MaxChannels \in Nat /\ MaxChannels >= 1
  BY InFileIs, ChannelFacts
<1>2. entry[l] \in 1..Len(InFile) + 1 /\ index[l] \in 0..MaxChannels - 1 /\ g_channel_count \in Nat
      /\ copying[l] \in {"no", "tail", "count"}
  BY DEF TableTypes
<1>3. entry[l] <= Len(InFile) => InFile[entry[l]] \in Config
  BY <1>1, <1>2, InFileIs
<1>4. QED
  BY <1>1, <1>2, <1>3

LEMMA CopyHeadStep == ASSUME LoaderInv, NEW l \in Loaders, CopyHead(l) PROVE LoaderInv'
<1>0. TableTypes /\ (~overlapped => Ordered)
  BY DEF LoaderInv
<1>1. /\ copying[l] = "no" /\ entry[l] <= Len(InFile) /\ g_channel_count < MaxChannels
      /\ index' = [index EXCEPT ![l] = g_channel_count]
      /\ copying' = [copying EXCEPT ![l] = "tail"]
      /\ overlapped' = (overlapped \/ \E m \in Loaders \ {l} : Loading(m))
      /\ UNCHANGED <<g_channel_count, entry>>
  BY DEF CopyHead, InFile
<1>2. PICK c \in 0..MaxChannels - 1 : c = g_channel_count
  BY <1>0, <1>1, TypesAre
<1>3. PICK new \in Config : new = InFile[entry[l]]
  BY <1>0, <1>1, TypesAre
<1>4. PICK old \in Config : old = g_channels[c]
  BY <1>0 DEF TableTypes
<1>5. PICK r : r = [[[old EXCEPT !.name = new.name] EXCEPT !.type = new.type]
                                     EXCEPT !.token = new.token]
  OBVIOUS
<1>6. r \in Config /\ r.name = new.name /\ r.type = new.type /\ r.token = new.token
  BY <1>5, HeadCopied
<1>7. g_channels' = [g_channels EXCEPT ![c] = r]
  <2>1. g_channels' = [g_channels EXCEPT ![c].name = new.name, ![c].type = new.type,
                                         ![c].token = new.token]
    BY <1>2, <1>3 DEF CopyHead, Read, InFile
  <2>2. QED
    BY <1>0, <1>4, <1>5, <2>1 DEF TableTypes
<1>8. g_channels' \in [0..MaxChannels - 1 -> Config] /\ g_channels'[c] = r
      /\ \A i \in 0..MaxChannels - 1 : i /= c => g_channels'[i] = g_channels[i]
  BY <1>0, <1>6, <1>7 DEF TableTypes
<1>9. /\ index' \in [Loaders -> 0..MaxChannels - 1] /\ index'[l] = c
      /\ copying' \in [Loaders -> {"no", "tail", "count"}] /\ copying'[l] = "tail"
      /\ \A m \in Loaders : m /= l => copying'[m] = copying[m]
  BY <1>0, <1>1, <1>2 DEF TableTypes
<1>10. TableTypes'
  <2>1. overlapped' \in BOOLEAN
    BY <1>1
  <2>2. \A m \in Loaders : copying'[m] /= "no" => entry'[m] <= Len(InFile)
    BY <1>0, <1>1, <1>9 DEF TableTypes
  <2>3. QED
    BY <1>0, <1>1, <1>8, <1>9, <2>1, <2>2 DEF TableTypes, InFile
<1>11. ASSUME ~overlapped' PROVE Ordered'
  <2>0. Ordered /\ \A m \in Loaders : m /= l => ~Loading(m)
    BY <1>0, <1>1, <1>11
  <2>1. \A m \in Loaders : m /= l => copying[m] = "no" /\ (entry[m] = 1 \/ entry[m] > Len(InFile))
    <3>1. TAKE m \in Loaders
    <3>2. SUFFICES ASSUME m /= l PROVE copying[m] = "no" /\ (entry[m] = 1 \/ entry[m] > Len(InFile))
      OBVIOUS
    <3>3. (entry[m] > 1 \/ copying[m] /= "no") => entry[m] > Len(InFile)
      BY <2>0, <3>2 DEF Loading, Loaded, InFile
    <3>4. copying[m] = "no"
      <4>1. copying[m] /= "no" => entry[m] <= Len(InFile)
        BY <1>0 DEF TableTypes
      <4>2. QED
        BY <1>0, <3>3, <4>1, TypesAre
    <3>5. QED
      BY <1>0, <3>3, <3>4, TypesAre
  <2>2. c < Len(InFile) => entry[l] = c + 1
    <3> SUFFICES ASSUME c < Len(InFile) PROVE entry[l] = c + 1
      OBVIOUS
    <3>1. entry[l] <= c + 1
      BY <1>1, <1>2, <2>0, <1>0, TypesAre DEF Ordered
    <3>2. CASE c = 0
      BY <1>0, <3>1, <3>2, TypesAre
    <3>3. CASE c /= 0
      <4>1. PICK m \in Loaders : entry[m] > c \/ entry[m] > Len(InFile)
        BY <1>2, <2>0, <3>3 DEF Ordered
      <4>2. entry[m] <= c + 1
        BY <1>0, <1>1, <1>2, <2>0, TypesAre DEF Ordered
      <4>3. m = l
        <5>1. SUFFICES ASSUME m /= l PROVE FALSE
          OBVIOUS
        <5>2. entry[m] = 1 \/ entry[m] > Len(InFile)
          BY <2>1, <5>1
        <5>3. QED
          BY <1>0, <1>2, <3>3, <4>1, <4>2, <5>2, TypesAre
      <4>4. QED
        BY <1>0, <1>2, <3>1, <4>1, <4>2, <4>3, TypesAre
    <3>4. QED
      BY <3>2, <3>3
  <2>3. \A i \in 1..g_channel_count : i <= Len(InFile) => g_channels'[i - 1] = InFile[i]
    <3>1. \A i \in 1..g_channel_count : i - 1 \in 0..MaxChannels - 1 /\ i - 1 /= c
      BY <1>0, <1>1, <1>2, TypesAre
    <3>2. QED
      BY <1>8, <2>0, <3>1 DEF Ordered
  <2>4. InPlace(l)'
    BY <1>1, <1>2, <1>3, <1>6, <1>8, <1>9, <2>2 DEF InPlace, InFile
  <2>5. \A m \in Loaders : copying'[m] /= "no" => m = l
    BY <1>9, <2>1
  <2>6. QED
    BY <1>1, <2>0, <2>3, <2>4, <2>5 DEF Ordered, InFile
<1>12. QED
  BY <1>10, <1>11 DEF LoaderInv

LEMMA CopyTailStep == ASSUME LoaderInv, NEW l \in Loaders, CopyTail(l) PROVE LoaderInv'
<1>0. TableTypes /\ (~overlapped => Ordered)
  BY DEF LoaderInv
<1>1. /\ copying[l] = "tail" /\ copying' = [copying EXCEPT ![l] = "count"]
      /\ UNCHANGED <<g_channel_count, entry, index, overlapped>>
  BY DEF CopyTail
<1>2. PICK c \in 0..MaxChannels - 1 : c = index[l]
  BY <1>0, TypesAre
<1>3. entry[l] <= Len(InFile)
  BY <1>0, <1>1 DEF TableTypes
<1>4. PICK new \in Config : new = InFile[entry[l]]
  BY <1>0, <1>3, TypesAre
<1>5. PICK old \in Config : old = g_channels[c]
  BY <1>0 DEF TableTypes
<1>6. PICK r : r = [[old EXCEPT !.url = new.url] EXCEPT !.enabled = new.enabled]
  OBVIOUS
<1>7. r \in Config
  BY <1>6 DEF Config
<1>8. g_channels' = [g_channels EXCEPT ![c] = r]
  <2>1. g_channels' = [g_channels EXCEPT ![c].url = new.url, ![c].enabled = new.enabled]
    BY <1>2, <1>4 DEF CopyTail, Read, InFile
  <2>2. QED
    BY <1>0, <1>5, <1>6, <2>1 DEF TableTypes
<1>9. g_channels' \in [0..MaxChannels - 1 -> Config] /\ g_channels'[c] = r
      /\ \A i \in 0..MaxChannels - 1 : i /= c => g_channels'[i] = g_channels[i]
  BY <1>0, <1>7, <1>8 DEF TableTypes
<1>10. /\ copying' \in [Loaders -> {"no", "tail", "count"}] /\ copying'[l] = "count"
       /\ \A m \in Loaders : m /= l => copying'[m] = copying[m]
  BY <1>0, <1>1 DEF TableTypes
<1>11. TableTypes'
  <2>1. \A m \in Loaders : copying'[m] /= "no" => entry'[m] <= Len(InFile)
    BY <1>0, <1>1, <1>3, <1>10 DEF TableTypes
  <2>2. QED
    BY <1>0, <1>1, <1>9, <1>10, <2>1 DEF TableTypes, InFile
<1>12. ASSUME ~overlapped' PROVE Ordered'
  <2>0. Ordered /\ InPlace(l)
    BY <1>0, <1>1, <1>12 DEF Ordered
  <2>1. c = g_channel_count
    BY <1>2, <2>0 DEF InPlace
  <2>2. r = new
    <3>1. old.name = new.name /\ old.type = new.type /\ old.token = new.token
      BY <1>4, <1>5, <2>0, <2>1 DEF InPlace
    <3>2. QED
      BY <1>6, <3>1, TailCopied
  <2>3. \A i \in 1..g_channel_count : i <= Len(InFile) => g_channels'[i - 1] = InFile[i]
    <3>1. \A i \in 1..g_channel_count : i - 1 \in 0..MaxChannels - 1 /\ i - 1 /= c
      BY <1>0, <2>0, <2>1, TypesAre DEF Ordered
    <3>2. QED
      BY <1>9, <2>0, <3>1 DEF Ordered
  <2>4. InPlace(l)'
    BY <1>1, <1>4, <1>9, <2>0, <2>1, <2>2 DEF InPlace, InFile
  <2>5. \A m \in Loaders : copying'[m] /= "no" => m = l
    BY <1>1, <1>10, <2>0 DEF Ordered
  <2>6. QED
    BY <1>1, <2>0, <2>3, <2>4, <2>5 DEF Ordered, InFile
<1>13. QED
  BY <1>11, <1>12 DEF LoaderInv

LEMMA CountUpStep == ASSUME LoaderInv, NEW l \in Loaders, CountUp(l) PROVE LoaderInv'
<1>0. TableTypes /\ (~overlapped => Ordered)
  BY DEF LoaderInv
<1>1. /\ copying[l] = "count" /\ copying' = [copying EXCEPT ![l] = "no"]
      /\ entry' = [entry EXCEPT ![l] = entry[l] + 1] /\ UNCHANGED <<g_channels, index, overlapped>>
      /\ g_channel_count' \in {index[l] + 1, g_channel_count + 1}
  BY DEF CountUp
<1>2. entry[l] <= Len(InFile)
  BY <1>0, <1>1 DEF TableTypes
<1>3. /\ entry[l] + 1 \in 1..Len(InFile) + 1 /\ g_channel_count' \in Nat
  <2>1. index[l] \in Nat /\ g_channel_count \in Nat
    BY <1>0, TypesAre
  <2>2. QED
    BY <1>0, <1>1, <1>2, <2>1, TypesAre
<1>4. /\ entry' \in [Loaders -> 1..Len(InFile) + 1] /\ entry'[l] = entry[l] + 1
      /\ copying' \in [Loaders -> {"no", "tail", "count"}] /\ copying'[l] = "no"
      /\ \A m \in Loaders : m /= l => copying'[m] = copying[m] /\ entry'[m] = entry[m]
  BY <1>0, <1>1, <1>3 DEF TableTypes
<1>5. TableTypes'
  <2>1. \A m \in Loaders : copying'[m] /= "no" => entry'[m] <= Len(InFile)
    BY <1>0, <1>4 DEF TableTypes
  <2>2. QED
    BY <1>0, <1>1, <1>3, <1>4, <2>1 DEF TableTypes, InFile
<1>6. ASSUME ~overlapped' PROVE Ordered'
  <2>0. Ordered /\ InPlace(l) /\ \A m \in Loaders : copying[m] /= "no" => m = l
    BY <1>0, <1>1, <1>6 DEF Ordered
  <2>1. PICK n \in Nat : n = g_channel_count
    BY <1>0, TypesAre
  <2>2. g_channel_count' = n + 1 /\ n < MaxChannels /\ g_channels[n] = InFile[entry[l]]
        /\ (n < Len(InFile) => entry[l] = n + 1)
    BY <1>1, <2>0, <2>1 DEF InPlace
  <2>3. n + 1 <= MaxChannels
    BY <1>0, <2>2, TypesAre
  <2>4. \A i \in 1..n + 1 : i <= Len(InFile) => g_channels[i - 1] = InFile[i]
    <3>1. SUFFICES ASSUME NEW i \in 1..n + 1, i <= Len(InFile) PROVE g_channels[i - 1] = InFile[i]
      OBVIOUS
    <3>2. CASE i \in 1..n
      BY <2>0, <2>1, <3>1, <3>2 DEF Ordered
    <3>3. CASE i = n + 1
      <4>1. n < Len(InFile) /\ i - 1 = n
        BY <1>0, <3>1, <3>3, TypesAre
      <4>2. QED
        BY <2>2, <3>3, <4>1
    <3>4. QED
      BY <3>2, <3>3
  <2>5. ASSUME NEW m \in Loaders PROVE entry'[m] <= n + 2 \/ n + 1 = MaxChannels
    <3>1. entry[m] \in Nat /\ entry[l] \in Nat /\ MaxChannels \in Nat
      BY <1>0, TypesAre
    <3>2. (entry[m] <= n + 1 \/ n = MaxChannels) /\ (entry[l] <= n + 1 \/ n = MaxChannels)
      BY <2>0, <2>1 DEF Ordered
    <3>3. entry'[m] = entry[m] \/ (m = l /\ entry'[m] = entry[l] + 1)
      BY <1>4
    <3>4. QED
      BY <2>2, <3>1, <3>2, <3>3
  <2>6. \E m \in Loaders : entry'[m] > n + 1 \/ entry'[m] > Len(InFile)
    <3>1. CASE n < Len(InFile)
      BY <1>0, <1>4, <2>2, <3>1, TypesAre
    <3>2. CASE ~(n < Len(InFile))
      <4>1. n >= Len(InFile) /\ n /= 0
        BY <1>0, <3>2, TypesAre
      <4>2. PICK m \in Loaders : entry[m] > n \/ entry[m] > Len(InFile)
        BY <2>0, <2>1, <4>1 DEF Ordered
      <4>3. entry'[m] >= entry[m] /\ entry[m] \in Nat /\ entry'[m] \in Nat
        BY <1>0, <1>4, TypesAre
      <4>4. entry'[m] > Len(InFile)
        BY <1>0, <4>1, <4>2, <4>3, TypesAre
      <4>5. QED
        BY <4>4
    <3>3. QED
      BY <3>1, <3>2
  <2>7. \A m \in Loaders : copying'[m] = "no"
    BY <1>4, <2>0
  <2>8. n + 1 + 1 = n + 2
    OBVIOUS
  <2>9. QED
    BY <1>1, <2>2, <2>3, <2>4, <2>5, <2>6, <2>7, <2>8 DEF Ordered, InFile
<1>7. QED
  BY <1>5, <1>6 DEF LoaderInv

LEMMA NoRoomStep == ASSUME LoaderInv, NEW l \in Loaders, NoRoom(l) PROVE LoaderInv'
<1>0. TableTypes /\ (~overlapped => Ordered)
  BY DEF LoaderInv
<1>1. /\ copying[l] = "no" /\ entry[l] <= Len(InFile) /\ g_channel_count >= MaxChannels
      /\ entry' = [entry EXCEPT ![l] = entry[l] + 1]
      /\ UNCHANGED <<g_channels, g_channel_count, copying, index, overlapped>>
  BY DEF NoRoom, InFile
<1>2. entry[l] + 1 \in 1..Len(InFile) + 1
  BY <1>0, <1>1, TypesAre
<1>3. /\ entry' \in [Loaders -> 1..Len(InFile) + 1] /\ entry'[l] = entry[l] + 1
      /\ \A m \in Loaders : m /= l => entry'[m] = entry[m]
  BY <1>0, <1>1, <1>2 DEF TableTypes
<1>4. TableTypes'
  <2>1. \A m \in Loaders : copying'[m] /= "no" => entry'[m] <= Len(InFile)
    BY <1>0, <1>1, <1>3 DEF TableTypes
  <2>2. QED
    BY <1>0, <1>1, <1>3, <2>1 DEF TableTypes, InFile
<1>5. ASSUME ~overlapped' PROVE Ordered'
  <2>0. Ordered
    BY <1>0, <1>1, <1>5
  <2>1. g_channel_count = MaxChannels
    BY <1>0, <1>1, <2>0, TypesAre DEF Ordered
  <2>2. \A m \in Loaders : copying[m] = "no"
    <3>1. SUFFICES ASSUME NEW m \in Loaders, copying[m] /= "no" PROVE FALSE
      OBVIOUS
    <3>2. InPlace(m)
      BY <2>0, <3>1 DEF Ordered
    <3>3. QED
      BY <1>0, <2>1, <3>2, TypesAre DEF InPlace
  <2>3. \A m \in Loaders : entry'[m] >= entry[m] /\ entry[m] \in Nat /\ entry'[m] \in Nat
    BY <1>0, <1>3, TypesAre
  <2>4. \/ g_channel_count = 0
        \/ \E m \in Loaders : entry'[m] > g_channel_count \/ entry'[m] > Len(InFile)
    <3>1. SUFFICES ASSUME g_channel_count /= 0
                   PROVE  \E m \in Loaders : entry'[m] > g_channel_count \/ entry'[m] > Len(InFile)
      OBVIOUS
    <3>2. PICK m \in Loaders : entry[m] > g_channel_count \/ entry[m] > Len(InFile)
      BY <2>0, <3>1 DEF Ordered
    <3>3. QED
      BY <1>0, <2>3, <3>2, TypesAre
  <2>5. QED
    BY <1>1, <2>0, <2>1, <2>2, <2>4 DEF Ordered, InFile
<1>6. QED
  BY <1>4, <1>5 DEF LoaderInv

LEMMA LoaderInvStep == LoaderInv /\ [ChannelsNext]_channelVars => LoaderInv'
<1> SUFFICES ASSUME LoaderInv, [ChannelsNext]_channelVars PROVE LoaderInv'
  OBVIOUS
<1>1. CASE UNCHANGED tableVars
  BY <1>1 DEF LoaderInv, TableTypes, Ordered, InPlace
<1>2. CommandNext \/ UNCHANGED channelVars => UNCHANGED tableVars
  BY DEF CommandNext, Add, Edit, Start, StartNext
<1>3. CASE LoadNext
  BY <1>3, CopyHeadStep, CopyTailStep, CountUpStep, NoRoomStep DEF LoadNext
<1>4. QED
  BY <1>1, <1>2, <1>3 DEF ChannelsNext

\* When all is loaded, what can be sent to is found.
LEMMA LoadedIsServed == LoaderInv => ServedUnlessRaced
<1> SUFFICES ASSUME LoaderInv, ~overlapped, AllLoaded, NEW i \in 1..Len(ConfigToml), i < MaxChannels
             PROVE  /\ Sends(ConfigToml[i], FALSE) => ConfigToml[i] \in ToSet(AlertTargets)
                    /\ \A named \in BOOLEAN :
                          Sends(ConfigToml[i], RecipientIn(ConfigToml[i].type, named)) =>
                              ReplyTarget(ConfigToml[i].type, named) > 0
  <2>1. DOMAIN ConfigToml = 1..Len(ConfigToml)
    BY ChannelFacts
  <2>2. QED
    BY <2>1 DEF ServedUnlessRaced, ConfiguredIsServed
<1>0. /\ g_channels \in [0..MaxChannels - 1 -> Config] /\ g_channel_count \in Nat
      /\ g_channel_count <= MaxChannels /\ Ordered /\ TableTypes
      /\ Len(InFile) = Len(ConfigToml) + 1 /\ Len(ConfigToml) \in Nat
      /\ MaxChannels \in Nat /\ MaxChannels >= 1
  BY InFileIs, ChannelFacts DEF LoaderInv, TableTypes, Ordered
<1>1. PICK l \in Loaders : TRUE
  BY ChannelsAssumption
<1>2. entry[l] = Len(InFile) + 1
  <2>1. entry[l] > Len(InFile)
    BY DEF AllLoaded, Loaded, InFile
  <2>2. QED
    BY <1>0, <2>1, TypesAre
<1>3. i + 1 \in 1..g_channel_count /\ i + 1 <= Len(InFile)
  <2>1. entry[l] <= g_channel_count + 1 \/ g_channel_count = MaxChannels
    BY <1>0 DEF Ordered
  <2>2. QED
    BY <1>0, <1>2, <2>1
<1>4. g_channels[i] = ConfigToml[i]
  <2>1. g_channels[(i + 1) - 1] = InFile[i + 1] /\ (i + 1) - 1 = i
    BY <1>0, <1>3 DEF Ordered
  <2>2. QED
    BY <2>1, InFileIs
<1>5. Entries \in Seq(Config) /\ Len(Entries) = g_channel_count /\ Entries[i + 1] = ConfigToml[i]
  <2>1. \A k \in 1..g_channel_count : k - 1 \in 0..MaxChannels - 1
    BY <1>0
  <2>2. \A k \in 1..g_channel_count : g_channels[k - 1] \in Config
    BY <1>0, <2>1
  <2>3. Entries \in Seq(Config) /\ Len(Entries) = g_channel_count
    BY <1>0, <2>2 DEF Entries
  <2>4. Entries[i + 1] = g_channels[(i + 1) - 1] /\ (i + 1) - 1 = i
    BY <1>3 DEF Entries
  <2>5. QED
    BY <1>4, <2>3, <2>4
<1>6. ASSUME Sends(ConfigToml[i], FALSE) PROVE ConfigToml[i] \in ToSet(AlertTargets)
  <2>1. PICK I : I = {k \in 1..Len(Entries) : Sends(Entries[k], FALSE)}
    OBVIOUS
  <2>2. I \in SUBSET (1..Len(Entries)) /\ i + 1 \in I
    BY <1>3, <1>5, <1>6, <2>1
  <2>3. AlertTargets = Picked(Entries, I)
    <3>1. DOMAIN Entries = 1..Len(Entries)
      BY <1>5
    <3>2. QED
      BY <2>1, <3>1 DEF AlertTargets
  <2>4. /\ Picked(Entries, I) \in Seq(Config) /\ Len(Picked(Entries, I)) = Cardinality(I)
        /\ Cardinality(I) \in Nat
    BY <1>5, <2>2, PickedProperties
  <2>5. \A k \in I : \E j \in 1..Cardinality(I) : j = Rank(I, k) /\ Picked(Entries, I)[j] = Entries[k]
    BY <1>5, <2>2, PickedProperties, Zenon
  <2>6. PICK j \in 1..Cardinality(I) : AlertTargets[j] = Entries[i + 1]
    BY <2>2, <2>3, <2>5
  <2>7. j \in DOMAIN AlertTargets
    BY <2>3, <2>4, <2>6
  <2>8. QED
    BY <1>5, <2>6, <2>7 DEF ToSet
<1>7. ASSUME NEW named \in BOOLEAN, Sends(ConfigToml[i], RecipientIn(ConfigToml[i].type, named))
      PROVE  ReplyTarget(ConfigToml[i].type, named) > 0
  <2>1. PICK J : J = {k \in 1..Len(Entries) : Configured(Entries[k]) /\ Entries[k].type = ConfigToml[i].type}
    OBVIOUS
  <2>2. J \subseteq Nat /\ i + 1 \in J /\ \A k \in J : k > 0
    BY <1>3, <1>5, <1>7, <2>1 DEF Sends
  <2>3. Min(J) \in J
    BY <2>2, MinOfNats
  <2>4. PICK first \in J : first = Min(J)
    BY <2>3
  <2>5. SelectInSeq(Entries, LAMBDA c : Configured(c) /\ c.type = ConfigToml[i].type) = first
    BY <2>1, <2>2, <2>4 DEF SelectInSeq
  <2>6. Sends(Entries[first], RecipientIn(ConfigToml[i].type, named)) /\ first > 0
    BY <1>7, <2>1, <2>2, <2>4 DEF Sends
  <2>7. ReplyTarget(ConfigToml[i].type, named) = first
    BY <2>5, <2>6 DEF ReplyTarget
  <2>8. QED
    BY <2>6, <2>7
<1>8. QED
  BY <1>6, <1>7
-----------------------------------------------------------------------------
(* The command's file and its start. *)

\* After a calls of `channel add` the file has a - 1 blank entries before those that
\* were added, as long as there was room.
FileInv ==
    /\ conf \in Seq(Config) /\ Len(conf) <= MaxChannels /\ adds \in Nat
    /\ 2 * adds <= MaxChannels + 1 =>
          /\ Len(conf) = IF adds = 0 THEN 0 ELSE 2 * adds - 1
          /\ \A i \in 1..Len(conf) : conf[i].name = IF i >= adds THEN i - adds + 1 ELSE 0

LEMMA FitIs ==
    ASSUME NEW s \in Seq(Config)
    PROVE  /\ Fit(s) \in Seq(Config) /\ Len(Fit(s)) <= MaxChannels /\ Len(Fit(s)) <= Len(s)
           /\ Len(s) <= MaxChannels => Len(Fit(s)) = Len(s)
           /\ \A i \in 1..Len(Fit(s)) : Fit(s)[i] = s[i]
<1>0. Len(s) \in Nat /\ MaxChannels \in Nat
  BY ChannelFacts
<1>1. PICK n \in Nat : n = IF Len(s) < MaxChannels THEN Len(s) ELSE MaxChannels
  BY <1>0
<1>2. n <= Len(s) /\ n <= MaxChannels /\ (Len(s) <= MaxChannels => n = Len(s)) /\ 1 <= n + 1 /\ n - 1 + 1 = n
  BY <1>0, <1>1
<1>3. /\ SubSeq(s, 1, n) \in Seq(Config) /\ Len(SubSeq(s, 1, n)) = n
      /\ \A i \in 1..n : SubSeq(s, 1, n)[i] = s[i]
  BY <1>0, <1>2, SubSeqProperties
<1>4. Fit(s) = SubSeq(s, 1, n)
  BY <1>1 DEF Fit
<1>5. QED
  BY <1>2, <1>3, <1>4

LEMMA CommandTableIs == ASSUME FileInv PROVE CommandTable \in Seq(Config) /\ Len(CommandTable) <= MaxChannels
<1>1. CASE adds = 0
  BY <1>1, ChannelFacts DEF CommandTable
<1>2. CASE adds /= 0
  <2>1. read_entries(conf) \in Seq(Config)
    BY ReadEntries DEF FileInv
  <2>2. QED
    BY <1>2, <2>1, FitIs DEF CommandTable
<1>3. QED
  BY <1>1, <1>2

LEMMA FileInvInit == ChannelsInit => FileInv
<1> SUFFICES ASSUME ChannelsInit PROVE FileInv
  OBVIOUS
<1>1. conf = <<>> /\ adds = 0 /\ conf \in Seq(Config) /\ Len(conf) = 0
  BY DEF ChannelsInit
<1>2. QED
  BY <1>1, ChannelFacts DEF FileInv

LEMMA AddKeepsFile == ASSUME FileInv, NEW type \in AddTypes, Add(type) PROVE FileInv'
<1>0. conf \in Seq(Config) /\ adds \in Nat /\ Len(conf) \in Nat /\ MaxChannels \in Nat
  BY ChannelFacts DEF FileInv
<1>1. PICK e : e = [Blank EXCEPT !.type = type, !.name = adds + 1]
  OBVIOUS
<1>2. e \in Config /\ e.name = adds + 1
  <2>1. type \in Types /\ adds + 1 \in Nat
    BY <1>0, ChannelFacts
  <2>2. e = [type |-> type, token |-> FALSE, url |-> FALSE, enabled |-> FALSE, name |-> adds + 1]
    BY <1>1 DEF Blank
  <2>3. QED
    BY <2>1, <2>2 DEF Config
<1>3. PICK T \in Seq(Config) : T = CommandTable
  BY CommandTableIs
<1>4. Len(T) \in Nat /\ Len(T) <= MaxChannels
  BY <1>3, CommandTableIs
<1>5. PICK s : s = Append(T, e)
  OBVIOUS
<1>6. s \in Seq(Config) /\ Len(s) = Len(T) + 1 /\ s[Len(T) + 1] = e /\ \A i \in 1..Len(T) : s[i] = T[i]
  BY <1>2, <1>5, AppendProperties
<1>7. conf' = Fit(s) /\ adds' = adds + 1
  BY <1>1, <1>3, <1>5 DEF Add
<1>8. /\ conf' \in Seq(Config) /\ Len(conf') <= MaxChannels
      /\ Len(s) <= MaxChannels => Len(conf') = Len(s)
      /\ \A i \in 1..Len(conf') : conf'[i] = s[i]
  BY <1>6, <1>7, FitIs
<1>9. ASSUME 2 * (adds + 1) <= MaxChannels + 1
      PROVE  /\ Len(conf') = 2 * (adds + 1) - 1
             /\ \A i \in 1..Len(conf') : conf'[i].name = IF i >= adds + 1 THEN i - (adds + 1) + 1 ELSE 0
  <2>1. /\ Len(conf) = IF adds = 0 THEN 0 ELSE 2 * adds - 1
        /\ \A i \in 1..Len(conf) : conf[i].name = IF i >= adds THEN i - adds + 1 ELSE 0
    BY <1>0, <1>9 DEF FileInv
  <2>2. Len(T) = 2 * adds /\ \A i \in 1..2 * adds : T[i].name = IF i >= adds + 1 THEN i - (adds + 1) + 1 ELSE 0
    <3>1. CASE adds = 0
      BY <1>3, <3>1 DEF CommandTable
    <3>2. CASE adds /= 0
      <4>1. /\ read_entries(conf) \in Seq(Config) /\ Len(read_entries(conf)) = Len(conf) + 1
            /\ read_entries(conf)[1] = Blank
            /\ \A i \in 1..Len(conf) : read_entries(conf)[i + 1] = conf[i]
        BY <1>0, ReadEntries
      <4>2. Len(read_entries(conf)) = 2 * adds /\ 2 * adds <= MaxChannels
        BY <1>0, <1>9, <2>1, <3>2, <4>1
      <4>3. Len(T) = 2 * adds /\ \A i \in 1..2 * adds : T[i] = read_entries(conf)[i]
        BY <1>3, <3>2, <4>1, <4>2, FitIs DEF CommandTable
      <4>4. ASSUME NEW i \in 1..2 * adds
            PROVE  T[i].name = IF i >= adds + 1 THEN i - (adds + 1) + 1 ELSE 0
        <5>1. CASE i = 1
          <6>1. T[i].name = 0
            BY <4>1, <4>3, <5>1, ChannelFacts
          <6>2. QED
            BY <1>0, <3>2, <5>1, <6>1
        <5>2. CASE i > 1
          <6>1. PICK k \in 1..Len(conf) : i = k + 1
            <7>1. i - 1 \in 1..Len(conf) /\ i = (i - 1) + 1
              BY <1>0, <2>1, <3>2, <5>2
            <7>2. QED
              BY <7>1
          <6>2. T[i] = conf[k]
            BY <4>1, <4>3, <6>1
          <6>3. conf[k].name = IF k >= adds THEN k - adds + 1 ELSE 0
            BY <2>1
          <6>4. QED
            BY <1>0, <6>1, <6>2, <6>3
        <5>3. QED
          BY <5>1, <5>2
      <4>5. QED
        BY <4>3, <4>4
    <3>3. QED
      BY <3>1, <3>2
  <2>3. Len(s) = 2 * adds + 1 /\ Len(conf') = 2 * adds + 1
    BY <1>0, <1>6, <1>8, <1>9, <2>2
  <2>4. ASSUME NEW i \in 1..Len(conf')
        PROVE  conf'[i].name = IF i >= adds + 1 THEN i - (adds + 1) + 1 ELSE 0
    <3>1. CASE i \in 1..2 * adds
      <4>1. conf'[i] = T[i]
        BY <1>6, <1>8, <2>2, <3>1
      <4>2. QED
        BY <2>2, <3>1, <4>1
    <3>2. CASE i = 2 * adds + 1
      <4>1. conf'[i] = e
        BY <1>6, <1>8, <2>2, <3>2
      <4>2. QED
        BY <1>0, <1>2, <3>2, <4>1
    <3>3. QED
      BY <1>0, <2>3, <3>1, <3>2
  <2>5. QED
    BY <1>0, <2>3, <2>4
<1>10. adds + 1 \in Nat /\ adds + 1 /= 0
  BY <1>0
<1>11. QED
  BY <1>7, <1>8, <1>9, <1>10 DEF FileInv

LEMMA FileInvStep == FileInv /\ [ChannelsNext]_channelVars => FileInv'
<1> SUFFICES ASSUME FileInv, [ChannelsNext]_channelVars PROVE FileInv'
  OBVIOUS
<1>1. CASE \E type \in AddTypes : Add(type)
  BY <1>1, AddKeepsFile
<1>2. ASSUME NEW i \in DOMAIN conf, Edit(i) PROVE FileInv'
  <2>0. conf \in Seq(Config) /\ adds \in Nat /\ Len(conf) \in Nat /\ DOMAIN conf = 1..Len(conf)
    BY DEF FileInv
  <2>1. PICK old \in Config : old = conf[i]
    BY <2>0, <1>2
  <2>2. PICK r : r = [[old EXCEPT !.token = TRUE] EXCEPT !.enabled = TRUE]
    OBVIOUS
  <2>3. r \in Config /\ r.name = old.name
    BY <2>2 DEF Config
  <2>4. conf' = [conf EXCEPT ![i] = r] /\ adds' = adds
    BY <1>2, <2>0, <2>1, <2>2 DEF Edit
  <2>5. conf' \in Seq(Config) /\ Len(conf') = Len(conf)
        /\ \A k \in 1..Len(conf) : conf'[k].name = conf[k].name
    BY <2>0, <2>1, <2>3, <2>4
  <2>6. QED
    BY <2>4, <2>5 DEF FileInv
<1>3. CASE UNCHANGED <<conf, adds>>
  BY <1>3 DEF FileInv
<1>4. (\E l \in Loaders : CopyHead(l) \/ CopyTail(l) \/ CountUp(l) \/ NoRoom(l)) \/ Start \/ StartNext
      \/ UNCHANGED channelVars => UNCHANGED <<conf, adds>>
  BY DEF CopyHead, CopyTail, CountUp, NoRoom, Start, StartNext
<1>5. QED
  BY <1>1, <1>2, <1>3, <1>4 DEF ChannelsNext, LoadNext, CommandNext

LEMMA FileInvAdded == FileInv => AddedStays
<1> SUFFICES ASSUME FileInv, 2 * adds <= MaxChannels + 1
             PROVE  [i \in 1..adds |-> i] = Picked([i \in DOMAIN conf |-> conf[i].name],
                                                  {i \in DOMAIN conf : conf[i].name > 0})
  BY DEF AddedStays
<1>0. conf \in Seq(Config) /\ adds \in Nat /\ Len(conf) \in Nat /\ DOMAIN conf = 1..Len(conf)
      /\ Len(conf) = (IF adds = 0 THEN 0 ELSE 2 * adds - 1)
      /\ \A i \in 1..Len(conf) : conf[i].name = IF i >= adds THEN i - adds + 1 ELSE 0
  BY DEF FileInv
<1>1. PICK a \in Nat, b \in Nat : a = (IF adds = 0 THEN 1 ELSE adds) /\ b = Len(conf)
  BY <1>0
<1>2. 1 <= a /\ a <= b + 1 /\ b <= Len(conf) /\ b - a + 1 = adds
  BY <1>0, <1>1
<1>3. PICK names : names = [i \in 1..b |-> conf[i].name]
  OBVIOUS
<1>4. names \in Seq(Nat) /\ Len(names) = b
  <2>1. \A i \in 1..b : conf[i].name \in Nat
    BY <1>0, <1>1
  <2>2. QED
    BY <1>3, <2>1
<1>5. {i \in DOMAIN conf : conf[i].name > 0} = a..b
  <2>1. ASSUME NEW i \in 1..b PROVE conf[i].name > 0 <=> i >= a
    BY <1>0, <1>1
  <2>2. QED
    BY <1>0, <1>1, <2>1
<1>6. PICK p : p = Picked(names, a..b)
  OBVIOUS
<1>7. p \in Seq(Nat) /\ Len(p) = adds /\ \A j \in 1..adds : p[j] = names[a + j - 1]
  <2>1. /\ Picked(names, a..b) \in Seq(Nat) /\ Len(Picked(names, a..b)) = b - a + 1
        /\ \A j \in 1..b - a + 1 : Picked(names, a..b)[j] = names[a + j - 1]
    <3>1. PICK N : N = Nat
      OBVIOUS
    <3>2. names \in Seq(N) /\ b <= Len(names)
      BY <1>4, <3>1
    <3>3. /\ Picked(names, a..b) \in Seq(N) /\ Len(Picked(names, a..b)) = b - a + 1
          /\ \A j \in 1..b - a + 1 : Picked(names, a..b)[j] = names[a + j - 1]
      BY <1>2, <3>2, PickedInterval
    <3>4. QED
      BY <3>1, <3>3
  <2>2. QED
    BY <1>2, <1>6, <2>1
<1>8. ASSUME NEW j \in 1..adds PROVE p[j] = j
  <2>1. a + j - 1 \in 1..b /\ a + j - 1 >= adds /\ (a + j - 1) - adds + 1 = j
    BY <1>0, <1>1, <1>2
  <2>2. names[a + j - 1] = conf[a + j - 1].name
    BY <1>3, <2>1
  <2>3. conf[a + j - 1].name = j
    BY <1>0, <1>1, <2>1
  <2>4. QED
    BY <1>7, <2>2, <2>3
<1>9. p = [i \in 1..adds |-> i]
  BY <1>0, <1>7, <1>8
<1>10. Picked([i \in DOMAIN conf |-> conf[i].name], {i \in DOMAIN conf : conf[i].name > 0}) = p
  BY <1>0, <1>1, <1>3, <1>5, <1>6
<1>11. QED
  BY <1>9, <1>10

Entered == [config : Config, active : BOOLEAN]

\* The entries the walk has left behind have an active entry of their type.
Served(s, i) == \E j \in 1..Len(s) : s[j].active /\ s[j].config.type = s[i].config.type

StartInv ==
    /\ started \in Seq(Entered) /\ Len(started) <= MaxChannels /\ scan \in Nat
    /\ \A i \in 1..Len(started) : i < scan /\ started[i].config.enabled => Served(started, i)

LEMMA StartInvInit == ChannelsInit => StartInv
<1> SUFFICES ASSUME ChannelsInit PROVE StartInv
  OBVIOUS
<1>1. started = <<>> /\ scan = 0 /\ started \in Seq(Entered) /\ Len(started) = 0
  BY DEF ChannelsInit
<1>2. QED
  BY <1>1, ChannelFacts DEF StartInv

\* channel_connect marks an entry of the type, if there is one, and changes nothing else.
LEMMA Connected ==
    ASSUME NEW s \in Seq(Entered), NEW k \in 1..Len(s), NEW t \in Seq(Entered),
           t = channel_connect(s, s[k].config.type)
    PROVE  /\ Len(t) = Len(s)
           /\ \A i \in 1..Len(s) : t[i].config = s[i].config /\ (s[i].active => t[i].active)
           /\ \E j \in 1..Len(s) : t[j].active /\ s[j].config.type = s[k].config.type
<1>0. Len(s) \in Nat /\ \A i \in 1..Len(s) : s[i] \in Entered
  OBVIOUS
<1>1. PICK J : J = {i \in 1..Len(s) : s[i].config.type = s[k].config.type}
  OBVIOUS
<1>2. J \subseteq Nat /\ k \in J
  BY <1>1
<1>3. PICK j \in J : j = Min(J)
  BY <1>2, MinOfNats
<1>4. SelectInSeq(s, LAMBDA e : e.config.type = s[k].config.type) = j
  BY <1>1, <1>2, <1>3 DEF SelectInSeq
<1>5. PICK r : r = [s[j] EXCEPT !.active = TRUE]
  OBVIOUS
<1>6. j \in 1..Len(s) /\ s[j] \in Entered
  BY <1>0, <1>1
<1>7. r.active = TRUE /\ r.config = s[j].config
  BY <1>5, <1>6 DEF Entered
<1>8. t = [s EXCEPT ![j] = r]
  BY <1>4, <1>5 DEF channel_connect
<1>9. Len(t) = Len(s) /\ t[j] = r /\ \A i \in 1..Len(s) : i /= j => t[i] = s[i]
  BY <1>0, <1>6, <1>8
<1>10. \A i \in 1..Len(s) : t[i].config = s[i].config /\ (s[i].active => t[i].active)
  <2>1. TAKE i \in 1..Len(s)
  <2>2. CASE i = j
    BY <1>7, <1>9, <2>2
  <2>3. CASE i /= j
    BY <1>9, <2>3
  <2>4. QED
    BY <2>2, <2>3
<1>11. t[j].active /\ s[j].config.type = s[k].config.type
  BY <1>1, <1>7, <1>9
<1>12. QED
  BY <1>6, <1>9, <1>10, <1>11

LEMMA ConnectType ==
    ASSUME NEW s \in Seq(Entered), NEW type PROVE channel_connect(s, type) \in Seq(Entered)
<1>1. PICK i : i = SelectInSeq(s, LAMBDA e : e.config.type = type)
  OBVIOUS
<1>2. channel_connect(s, type) = [s EXCEPT ![i].active = TRUE]
  BY <1>1 DEF channel_connect
<1>3. CASE i \in 1..Len(s)
  <2>1. s[i] \in Entered
    BY <1>3
  <2>2. PICK r : r = [s[i] EXCEPT !.active = TRUE]
    OBVIOUS
  <2>3. r \in Entered
    BY <2>1, <2>2 DEF Entered
  <2>4. channel_connect(s, type) = [s EXCEPT ![i] = r]
    BY <1>2, <2>2
  <2>5. QED
    BY <1>3, <2>3, <2>4
<1>4. CASE i \notin 1..Len(s)
  <2>1. channel_connect(s, type) = s
    BY <1>2, <1>4
  <2>2. QED
    BY <2>1
<1>5. QED
  BY <1>3, <1>4

LEMMA StartInvStep == FileInv /\ StartInv /\ [ChannelsNext]_channelVars => StartInv'
<1> SUFFICES ASSUME FileInv, StartInv, [ChannelsNext]_channelVars PROVE StartInv'
  OBVIOUS
<1>0. started \in Seq(Entered) /\ Len(started) \in Nat /\ Len(started) <= MaxChannels /\ scan \in Nat
      /\ MaxChannels \in Nat
  BY ChannelFacts DEF StartInv
<1>1. CASE Start
  <2>1. PICK T \in Seq(Config) : T = CommandTable
    BY CommandTableIs
  <2>2. Len(T) <= MaxChannels /\ DOMAIN T = 1..Len(T) /\ Len(T) \in Nat
    BY <2>1, CommandTableIs
  <2>3. started' = [i \in 1..Len(T) |-> Inactive(T[i])] /\ scan' = 1
    BY <1>1, <2>1, <2>2 DEF Start
  <2>4. \A i \in 1..Len(T) : Inactive(T[i]) \in Entered
    <3>1. \A c \in Config : Inactive(c) \in Entered
      BY DEF Inactive, Entered
    <3>2. QED
      BY <3>1
  <2>5. started' \in Seq(Entered) /\ Len(started') = Len(T)
    BY <2>2, <2>3, <2>4
  <2>6. \A i \in 1..Len(started') : ~(i < scan')
    BY <2>3, <2>5
  <2>7. QED
    BY <2>2, <2>3, <2>5, <2>6 DEF StartInv
<1>2. CASE StartNext
  <2>1. scan \in 1..Len(started) /\ scan' = scan + 1
    BY <1>0, <1>2 DEF StartNext
  <2>2. PICK c \in Config : c = started[scan].config
    <3>1. started[scan] \in Entered
      BY <1>0, <2>1
    <3>2. QED
      BY <3>1 DEF Entered
  <2>3. CASE ~c.enabled
    <3>1. started' = started
      BY <1>2, <2>2, <2>3 DEF StartNext
    <3>2. \A i \in 1..Len(started) : i < scan + 1 /\ started[i].config.enabled => Served(started, i)
      <4>1. TAKE i \in 1..Len(started)
      <4>2. i < scan + 1 => i < scan \/ i = scan
        BY <1>0
      <4>3. QED
        BY <2>2, <2>3, <4>2 DEF StartInv
    <3>3. QED
      BY <1>0, <2>1, <3>1, <3>2 DEF StartInv
  <2>4. CASE c.enabled
    <3>1. PICK s : s = IF Len(started) < MaxChannels THEN Append(started, Inactive(c)) ELSE started
      OBVIOUS
    <3>2. Inactive(c) \in Entered
      BY DEF Inactive, Entered
    <3>3. /\ s \in Seq(Entered) /\ Len(s) \in Nat /\ Len(s) >= Len(started) /\ Len(s) <= MaxChannels
          /\ Len(s) <= Len(started) + 1
          /\ \A i \in 1..Len(started) : s[i] = started[i]
      <4>1. CASE Len(started) < MaxChannels
        <5>1. s = Append(started, Inactive(c))
          BY <3>1, <4>1
        <5>2. s \in Seq(Entered) /\ Len(s) = Len(started) + 1 /\ \A i \in 1..Len(started) : s[i] = started[i]
          BY <1>0, <3>2, <5>1, AppendProperties
        <5>3. QED
          BY <1>0, <4>1, <5>2
      <4>2. CASE ~(Len(started) < MaxChannels)
        <5>1. s = started
          BY <3>1, <4>2
        <5>2. QED
          BY <1>0, <5>1
      <4>3. QED
        BY <4>1, <4>2
    <3>4. scan \in 1..Len(s) /\ s[scan].config = c
      BY <1>0, <2>1, <2>2, <3>3
    <3>5. started' = channel_connect(s, s[scan].config.type)
      BY <1>2, <2>2, <2>4, <3>1, <3>4 DEF StartNext
    <3>6. started' \in Seq(Entered)
      BY <3>3, <3>5, ConnectType
    <3>7. /\ Len(started') = Len(s)
          /\ \A i \in 1..Len(s) : started'[i].config = s[i].config /\ (s[i].active => started'[i].active)
          /\ \E j \in 1..Len(s) : started'[j].active /\ s[j].config.type = s[scan].config.type
      <4>1. PICK t \in Seq(Entered) : t = started'
        BY <3>6
      <4>2. t = channel_connect(s, s[scan].config.type)
        BY <3>5, <4>1
      <4>a. PICK k \in 1..Len(s) : k = scan
        BY <3>4
      <4>3. /\ Len(t) = Len(s)
            /\ \A i \in 1..Len(s) : t[i].config = s[i].config /\ (s[i].active => t[i].active)
            /\ \E j \in 1..Len(s) : t[j].active /\ s[j].config.type = s[k].config.type
        <5>1. s \in Seq(Entered) /\ t = channel_connect(s, s[k].config.type)
          BY <3>3, <4>2, <4>a
        <5>2. QED
          BY <5>1, Connected
      <4>4. QED
        BY <4>1, <4>3, <4>a
    <3>8. ASSUME NEW i \in 1..Len(started'), i < scan + 1, started'[i].config.enabled
          PROVE  Served(started', i)
      <4>1. CASE i = scan
        BY <3>4, <3>7, <4>1 DEF Served
      <4>2. CASE i < scan
        <5>1. i \in 1..Len(started) /\ started'[i].config = started[i].config
          <6>1. i \in 1..Len(started) /\ i \in 1..Len(s)
            BY <1>0, <2>1, <3>3, <3>7, <4>2
          <6>2. QED
            BY <3>3, <3>7, <6>1
        <5>2. PICK j \in 1..Len(started) : started[j].active /\ started[j].config.type = started[i].config.type
          BY <3>8, <4>2, <5>1 DEF StartInv, Served
        <5>3. j \in 1..Len(s) /\ s[j] = started[j]
          BY <1>0, <3>3
        <5>4. started'[j].active /\ started'[j].config = started[j].config
          BY <3>7, <5>2, <5>3
        <5>5. QED
          BY <3>7, <5>1, <5>2, <5>3, <5>4 DEF Served
      <4>3. QED
        BY <1>0, <3>3, <3>7, <3>8, <4>1, <4>2
    <3>9. QED
      BY <1>0, <2>1, <3>3, <3>6, <3>7, <3>8 DEF StartInv
  <2>5. QED
    BY <2>3, <2>4
<1>3. CASE UNCHANGED <<started, scan>>
  BY <1>3 DEF StartInv, Served
<1>4. (\E l \in Loaders : CopyHead(l) \/ CopyTail(l) \/ CountUp(l) \/ NoRoom(l))
      \/ (\E type \in AddTypes : Add(type)) \/ (\E i \in DOMAIN conf : Edit(i))
      \/ UNCHANGED channelVars => UNCHANGED <<started, scan>>
  BY DEF CopyHead, CopyTail, CountUp, NoRoom, Add, Edit
<1>5. QED
  BY <1>1, <1>2, <1>3, <1>4 DEF ChannelsNext, LoadNext, CommandNext

LEMMA StartInvActivates == StartInv => StartActivates
<1> SUFFICES ASSUME StartInv, StartOver, NEW i \in DOMAIN started, started[i].config.enabled
             PROVE  \E j \in DOMAIN started : /\ started[j].active
                                              /\ started[j].config.type = started[i].config.type
  BY DEF StartActivates
<1>1. DOMAIN started = 1..Len(started) /\ Len(started) \in Nat /\ scan \in Nat
  BY DEF StartInv
<1>2. i \in 1..Len(started) /\ i < scan
  BY <1>1 DEF StartOver
<1>3. Served(started, i)
  BY <1>2 DEF StartInv
<1>4. QED
  BY <1>1, <1>3 DEF Served

\* What ChannelsTypeOK says, and the three parts of the table's promise.
LEMMA ChannelInvsImply == LoaderInv /\ FileInv /\ StartInv => ChannelsTypeOK /\ ChannelsFaithful
<1> SUFFICES ASSUME LoaderInv, FileInv, StartInv PROVE ChannelsTypeOK /\ ChannelsFaithful
  OBVIOUS
<1>1. \A i \in 0..MaxChannels - 1 : g_channels[i].type \in Types
  BY DEF LoaderInv, TableTypes, Config
<1>2. ChannelsTypeOK
  BY <1>1 DEF ChannelsTypeOK, LoaderInv, TableTypes, Ordered, FileInv, StartInv
<1>3. QED
  BY <1>2, LoadedIsServed, FileInvAdded, StartInvActivates DEF ChannelsFaithful

\* For any threads that load the table, any file and any size of the table: what can
\* be sent to gets its alerts and replies unless two loads overlapped, what
\* `channel add` added stays in the file while there is room, and `channel start`
\* activates every type that is enabled.
THEOREM ChannelsCorrect == ChannelsSpec => [](ChannelsTypeOK /\ ChannelsFaithful)
  BY LoaderInvInit, FileInvInit, StartInvInit, LoaderInvStep, FileInvStep, StartInvStep,
     ChannelInvsImply, PTL DEF ChannelsSpec
-----------------------------------------------------------------------------
(* The composed specification. *)

\* The conversation keeps what its providers and its senders promise: a step of
\* it is one of theirs or leaves them alone.
THEOREM ConversationKeeps == ConvSpec => [](CallsFaithful /\ DeliveredWhole)
<1>1. ConvInit => ProvidersInit /\ DeliveryInit
  BY DEF ConvInit
<1>2. [ConvNext]_convVars => [ProvidersNext]_providerVars
  BY DEF ConvNext, convVars, OnlyTurns, OnlyHistory, OnlyPoller, OnlyChannels, OnlyCommand, OnlyDelivery,
         OnlyProviders, OnlyRouter, OnlyServices, OnlyShell, ProvidersNext
<1>3. [ConvNext]_convVars => [DeliveryNext]_deliveryVars
  BY DEF ConvNext, convVars, OnlyTurns, OnlyHistory, OnlyPoller, OnlyChannels, OnlyCommand, OnlyDelivery,
         OnlyProviders, OnlyRouter, OnlyServices, OnlyShell
<1>4. QED
  BY <1>1, <1>2, <1>3, CallsAreFaithful, DeliveredIsWhole, PTL DEF ConvSpec, ProvidersSpec,
     DeliverySpec

\* What a call returns is zero or one.
ErrorInv == last_error \in {0, 1}

LEMMA LastErrorIs ==
    /\ ProvidersInit => ErrorInv
    /\ ErrorInv /\ [ProvidersNext]_providerVars => ErrorInv'
<1> USE DEF ErrorInv
<1>1. ProvidersInit => ErrorInv
  BY DEF ProvidersInit
<1>2. ErrorInv /\ [ProvidersNext]_providerVars => ErrorInv'
  <2>1. ASSUME NEW o, Attempt(o) PROVE last_error' \in {0, 1}
    BY <2>1 DEF Attempt, Called
  <2>2. QED
    BY <2>1 DEF ProvidersNext, ProviderCallNext, RouterNext, ReliableCall, LocalCall,
                provider_router_next, provider_router_select
<1>3. QED
  BY <1>1, <1>2

LEMMA ProvidersTypeCorrect == ProvidersSpec => []ProvidersTypeOK
<1>1. ProvidersInit => CallInv /\ RouterInv /\ ModelInv
  BY CallInvInit, RouterInvInit, ModelInvInit
<1>2. CallInv /\ RouterInv /\ ModelInv /\ ErrorInv => ProvidersTypeOK
  BY DEF ErrorInv, CallInv, RouterInv, ModelInv, ProvidersTypeOK
<1>3. QED
  BY <1>1, <1>2, LastErrorIs, CallInvStep, RouterInvStep, ModelInvStep, PTL DEF ProvidersSpec

LEMMA ServicesTypeCorrect == ConvSpec => []ServicesTypeOK
<1>1. ConvInit => ServicesInv
  BY ServicesInvInit DEF ConvInit
<1>2. [ConvNext]_convVars => [ServicesNext]_serviceVars
  BY DEF ConvNext, convVars, OnlyTurns, OnlyHistory, OnlyPoller, OnlyChannels, OnlyCommand, OnlyDelivery,
         OnlyProviders, OnlyRouter, OnlyServices, OnlyShell
<1>3. ServicesInv => ServicesTypeOK
  BY DEF ServicesInv
<1>4. QED
  BY <1>1, <1>2, <1>3, ServicesInvStep, PTL DEF ConvSpec

\* The conversation's other parts, with any number of agents at work and of threads
\* that load the channels: every variable has its type, no risky tool runs without
\* approval unless another job has replaced the approval context, the guard trips in
\* time unless another job has disturbed it, the history loses nothing but its
\* oldest messages, and a channel that can be sent to is served unless two loads
\* overlapped.
THEOREM ConversationCorrect ==
    ConvSpec => [](/\ ConvTypeOK /\ ApprovalHolds /\ GuardTrips /\ HistoryIntact
                   /\ ChannelsFaithful)
<1> USE DEF ConvNext, convVars, OnlyTurns, OnlyHistory, OnlyPoller, OnlyChannels, OnlyCommand, OnlyDelivery,
            OnlyProviders, OnlyRouter, OnlyServices, OnlyShell
<1>1. ConvInit => /\ TurnsInit /\ HistoryInit /\ PollerInit /\ ChannelsInit /\ ProvidersInit
  BY DEF ConvInit
<1>2. [ConvNext]_convVars => [TurnsNext]_turnVars
  OBVIOUS
<1>3. [ConvNext]_convVars => [HistoryNext]_historyVars
  OBVIOUS
<1>4. [ConvNext]_convVars => [PollerNext]_pollVars
  OBVIOUS
<1>5. [ConvNext]_convVars => [ChannelsNext]_channelVars
  BY DEF ChannelsNext
<1>6. [ConvNext]_convVars => [ProvidersNext]_providerVars
  BY DEF ProvidersNext
<1>7. TurnsTypeOK /\ HistoryTypeOK /\ PollerTypeOK /\ ChannelsTypeOK /\ ProvidersTypeOK
          /\ ServicesTypeOK => ConvTypeOK
  BY DEF ConvTypeOK
<1>8. TurnsSpec => [](TurnsTypeOK /\ ApprovalHolds /\ GuardTrips)
  BY TurnsTypeCorrect, RiskyIsApproved, GuardTripsInTime, PTL
<1>9. ChannelsSpec => [](ChannelsTypeOK /\ ChannelsFaithful)
  BY ChannelsCorrect
<1> HIDE DEF ConvNext, convVars, OnlyTurns, OnlyHistory, OnlyPoller, OnlyChannels, OnlyCommand, OnlyDelivery,
            OnlyProviders, OnlyRouter, OnlyServices, OnlyShell
<1>10. QED
  BY <1>1, <1>2, <1>3, <1>4, <1>5, <1>6, <1>7, <1>8, <1>9, HistoryCorrect, PollerTypeCorrect,
     ProvidersTypeCorrect, ServicesTypeCorrect, PTL
     DEF ConvSpec, TurnsSpec, HistorySpec, PollerSpec, ChannelsSpec, ProvidersSpec
=============================================================================
