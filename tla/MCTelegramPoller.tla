-------------------------- MODULE MCTelegramPoller --------------------------
(* TelegramPoller on a small instance. *)
EXTENDS TelegramPoller, TLC

CONSTANTS alice, bob
TwoChats == {alice, bob}
=============================================================================
