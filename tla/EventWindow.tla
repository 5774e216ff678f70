----------------------------- MODULE EventWindow -----------------------------
(***************************************************************************)
(* What include/runtime_monitor.h promises of the events: "appended to     *)
(* recent ring".  The abstract state is the sequence of the last EventMax  *)
(* events, oldest first; an event is appended, and pushes out the oldest   *)
(* when there are EventMax already.                                        *)
(***************************************************************************)
EXTENDS Naturals, SequencesExt

CONSTANTS Events, EventMax

VARIABLE recent

WindowInit == recent = <<>>

Note(e) == recent' = IF Len(recent) < EventMax THEN Append(recent, e)
                     ELSE Append(Tail(recent), e)

\* Some event is noted, namely the one that is the newest afterwards.
WindowNext == /\ recent' /= <<>>
              /\ Last(recent') \in Events /\ Note(Last(recent'))

WindowSpec == WindowInit /\ [][WindowNext]_recent
=============================================================================
