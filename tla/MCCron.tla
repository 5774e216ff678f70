------------------------------- MODULE MCCron -------------------------------
(* Cron on a small instance. *)
EXTENDS Cron, TLC

CONSTANTS daemon, cli1, id1, id2, echo, pipe, minutely, hourly, short
OneCli == {cli1}
TwoIds == {id1, id2}
PlainCmds == {echo}
AllCmds == {echo, pipe}
PipeCmds == {pipe}
NoCmds == {}
IdSymmetry == Permutations(TwoIds)
TwoExprs == {hourly, short}
MinuteExprs == {minutely}
HourlyExprs == {hourly}
ShortExprs == {short}
NoExprs == {}
=============================================================================
