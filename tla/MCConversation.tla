---------------------------- MODULE MCConversation ----------------------------
(***************************************************************************)
(* The parts of a conversation, one at a time: the agent's turns, the      *)
(* history it sends, the poller and the table of channels in front of it,  *)
(* the providers and the senders behind it.  Their code shares no data, so *)
(* each part is explored by itself: part says which one this behaviour is  *)
(* about, and the others stay in their initial states.  The service        *)
(* manager and the run of a command with a timeout are parts too, since    *)
(* they have to end what they have begun.                                  *)
(***************************************************************************)
EXTENDS AgentTurns, ChatHistory, TelegramPoller, Channels, Delivery, Providers, Services, ShellRun

CONSTANTS w1, shell, read_file, alice, bob
OneWorker == {w1}
TwoTools == {shell, read_file}
ShellOnly == {shell}
TwoChats == {alice, bob}
ThreeRouted == <<"openai", "anthropic", "gemini">>

Entry(n, t, token, url) ==
    [type |-> t, token |-> token, url |-> url, enabled |-> TRUE, name |-> n]
ThreeEntries == <<Entry(1, "discord", FALSE, FALSE), Entry(2, "slack", TRUE, FALSE),
                  Entry(3, "discord", FALSE, TRUE)>>

VARIABLE part

convVars == <<turnVars, historyVars, pollVars, channelVars, deliveryVars, providerVars, serviceVars, shellVars, part>>

ConvInit == /\ part \in {"turns", "history", "poller", "channels", "command", "delivery",
                        "providers", "router", "services", "shell"}
            /\ TurnsInit /\ HistoryInit /\ PollerInit /\ ChannelsInit /\ DeliveryInit
            /\ ProvidersInit /\ ServicesInit /\ ShellInit
            /\ part /= "providers" => primary = "openai" /\ fallback = "ollama"
            /\ part /= "router" => strategy = "round_robin"
            /\ part /= "poller" => ~text0

OnlyTurns == part = "turns"
             /\ UNCHANGED <<historyVars, pollVars, channelVars, deliveryVars, providerVars, serviceVars, shellVars, part>>
OnlyHistory == part = "history"
               /\ UNCHANGED <<turnVars, pollVars, channelVars, deliveryVars, providerVars, serviceVars, shellVars, part>>
OnlyPoller == part = "poller"
              /\ UNCHANGED <<turnVars, historyVars, channelVars, deliveryVars, providerVars, serviceVars, shellVars, part>>
OnlyChannels == part = "channels"
                /\ UNCHANGED <<turnVars, historyVars, pollVars, deliveryVars, providerVars, serviceVars, shellVars, part>>
OnlyCommand == part = "command"
               /\ UNCHANGED <<turnVars, historyVars, pollVars, deliveryVars, providerVars, serviceVars, shellVars, part>>
OnlyDelivery == part = "delivery"
                /\ UNCHANGED <<turnVars, historyVars, pollVars, channelVars, providerVars, serviceVars, shellVars, part>>
OnlyProviders == part = "providers"
                 /\ UNCHANGED <<turnVars, historyVars, pollVars, channelVars, deliveryVars, serviceVars, shellVars, part>>
OnlyRouter == part = "router"
              /\ UNCHANGED <<turnVars, historyVars, pollVars, channelVars, deliveryVars, serviceVars, shellVars, part>>
OnlyServices == part = "services"
                /\ UNCHANGED <<turnVars, historyVars, pollVars, channelVars, deliveryVars,
                               providerVars, shellVars, part>>
OnlyShell == part = "shell"
             /\ UNCHANGED <<turnVars, historyVars, pollVars, channelVars, deliveryVars,
                            providerVars, serviceVars, part>>

ConvNext == \/ OnlyTurns /\ TurnsNext
            \/ OnlyHistory /\ HistoryNext
            \/ OnlyPoller /\ PollerNext
            \/ OnlyChannels /\ LoadNext
            \/ OnlyCommand /\ CommandNext
            \/ OnlyDelivery /\ DeliveryNext
            \/ OnlyProviders /\ ProviderCallNext
            \/ OnlyRouter /\ RouterNext
            \/ OnlyServices /\ ServicesNext
            \/ OnlyShell /\ ShellRunNext

\* The fairness of FairTurnsSpec and of FairPollerSpec; waitpid returns when the
\* child has ended (which it need not); select returns at least every second, so
\* that the time is seen to pass.
ConvSpec == /\ ConvInit /\ [][ConvNext]_convVars
            /\ \A w \in Workers : WF_convVars(OnlyTurns /\ TurnStep(w))
            /\ SF_convVars(OnlyPoller /\ Fetch) /\ SF_convVars(OnlyPoller /\ Push)
            /\ WF_convVars(OnlyPoller /\ Answer)
            /\ WF_convVars(OnlyServices /\ StopEnd)
            /\ WF_convVars(OnlyShell /\ Second) /\ WF_convVars(OnlyShell /\ Timeout)
-----------------------------------------------------------------------------
\* The variables of every part have their types.
ConvTypeOK == /\ TurnsTypeOK /\ HistoryTypeOK /\ PollerTypeOK
              /\ ChannelsTypeOK /\ ProvidersTypeOK /\ ServicesTypeOK

\* Child processes, of services and of tools: no signal goes astray, nobody is
\* left behind, and a result is that of the command.
ChildrenOwned == ServicesOwned /\ RunIsClean

\* What is begun ends, as long as no child process that is waited for without a
\* limit keeps it: an agent's job whatever the provider answers, the stop of a
\* service, and, in any case, the loop around a command when its time is up.
ConvEnds == JobEnds /\ StopReturns /\ LoopEnds
=============================================================================
