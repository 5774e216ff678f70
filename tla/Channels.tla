------------------------------- MODULE Channels -------------------------------
(***************************************************************************)
(* The channel table of src/src/channels/channels.c: how it is loaded from *)
(* a file by the threads of the daemon, how `doctorclaw channel` adds to   *)
(* its own file and starts what is in it, and which entries alerts and     *)
(* webhook replies use.  The table has no lock: an entry is copied in      *)
(* pieces, and the count is read before and written after the copy.        *)
(***************************************************************************)
EXTENDS Naturals, Sequences, FiniteSets, SequencesExt, Selection

CONSTANTS ConfigToml,    \* the entries of workspace/channels/config.toml
          MaxChannels,   \* MAX_CHANNELS
          Loaders,       \* the threads that load it: the gateway, the poller
          AddTypes,      \* the types `channel add` is called with
          MaxAdds        \* bound: calls of `channel add`

Types == {"telegram", "discord", "slack"}

\* channel_config_t; of token and url only whether there is one.
Config == [type : Types, token : BOOLEAN, url : BOOLEAN, enabled : BOOLEAN, name : Nat]

ASSUME ChannelsAssumption ==
    /\ ConfigToml \in Seq(Config) /\ MaxChannels \in Nat \ {0}
    /\ AddTypes \subseteq Types /\ MaxAdds \in Nat /\ Loaders /= {}

VARIABLES g_channels, g_channel_count,   \* the daemon's table
          entry, copying, index,         \* a loader: its place in the file, how far
                                         \* the copy is, and the slot it goes to
          overlapped,                    \* history: a thread has copied while another
                                         \* was in the middle of its load
          conf,                          \* ~/.doctorclaw/channels.conf
          adds,                          \* calls of `channel add` so far
          started, scan                  \* `channel start`: its table, and the index
                                         \* of channel_start_all

tableVars == <<g_channels, g_channel_count, entry, copying, index, overlapped>>
channelVars == <<tableVars, conf, adds, started, scan>>

\* Zeroed memory is a Telegram channel: CHANNEL_TELEGRAM is 0.
Blank == [type |-> "telegram", token |-> FALSE, url |-> FALSE, enabled |-> FALSE, name |-> 0]

\* What channels_load_config appends: a "type" line ends the entry before it,
\* also the one that has not begun when the first line comes.
read_entries(f) == <<Blank>> \o f

ChannelsInit ==
    /\ g_channels = [i \in 0..MaxChannels - 1 |-> Blank] /\ g_channel_count = 0
    /\ entry = [l \in Loaders |-> 1] /\ copying = [l \in Loaders |-> "no"]
    /\ index = [l \in Loaders |-> 0] /\ overlapped = FALSE
    /\ conf = <<>> /\ adds = 0 /\ started = <<>> /\ scan = 0
-----------------------------------------------------------------------------
(* channel_init, called by channels_load_config for every entry. *)

Read(l) == read_entries(ConfigToml)[entry[l]]
Loaded(l) == entry[l] > Len(read_entries(ConfigToml))
Loading(l) == (entry[l] > 1 \/ copying[l] /= "no") /\ ~Loaded(l)

CopyHead(l) ==
    /\ copying[l] = "no" /\ entry[l] <= Len(read_entries(ConfigToml))
    /\ g_channel_count < MaxChannels
    /\ index' = [index EXCEPT ![l] = g_channel_count]
    /\ g_channels' = [g_channels EXCEPT ![g_channel_count].name = Read(l).name,
                                        ![g_channel_count].type = Read(l).type,
                                        ![g_channel_count].token = Read(l).token]
    /\ copying' = [copying EXCEPT ![l] = "tail"]
    /\ overlapped' = (overlapped \/ \E m \in Loaders \ {l} : Loading(m))
    /\ UNCHANGED <<g_channel_count, entry, conf, adds, started, scan>>

CopyTail(l) ==
    /\ copying[l] = "tail"
    /\ g_channels' = [g_channels EXCEPT ![index[l]].url = Read(l).url,
                                        ![index[l]].enabled = Read(l).enabled]
    /\ copying' = [copying EXCEPT ![l] = "count"]
    /\ UNCHANGED <<g_channel_count, entry, index, overlapped, conf, adds, started, scan>>

\* The build decides whether the count is read again for the increment.
CountUp(l) ==
    /\ copying[l] = "count"
    /\ g_channel_count' \in {index[l] + 1, g_channel_count + 1}
    /\ entry' = [entry EXCEPT ![l] = @ + 1]
    /\ copying' = [copying EXCEPT ![l] = "no"]
    /\ UNCHANGED <<g_channels, index, overlapped, conf, adds, started, scan>>

\* An entry for which there is no room is dropped.
NoRoom(l) ==
    /\ copying[l] = "no" /\ entry[l] <= Len(read_entries(ConfigToml))
    /\ g_channel_count >= MaxChannels
    /\ entry' = [entry EXCEPT ![l] = @ + 1]
    /\ UNCHANGED <<g_channels, g_channel_count, copying, index, overlapped, conf, adds,
                   started, scan>>
-----------------------------------------------------------------------------
(* The command works on a table of its own, loaded from its own file. *)

Fit(s) == SubSeq(s, 1, IF Len(s) < MaxChannels THEN Len(s) ELSE MaxChannels)

\* Without a file nothing is loaded.
CommandTable == IF adds = 0 THEN <<>> ELSE Fit(read_entries(conf))

\* cmd_channel add: load, channel_init, which says nothing if the table is
\* full, and save.
Add(type) ==
    /\ adds < MaxAdds
    /\ adds' = adds + 1
    /\ conf' = Fit(Append(CommandTable, [Blank EXCEPT !.type = type, !.name = adds + 1]))
    /\ UNCHANGED <<tableVars, started, scan>>

\* The user edits the file: an entry gets its credentials and is enabled.
Edit(i) ==
    /\ i \in DOMAIN conf /\ conf[i].name > 0 /\ ~conf[i].enabled /\ scan = 0
    /\ conf' = [conf EXCEPT ![i].token = TRUE, ![i].enabled = TRUE]
    /\ UNCHANGED <<tableVars, adds, started, scan>>

Inactive(c) == [config |-> c, active |-> FALSE]

\* cmd_channel start loads the file, and channel_start_all goes over the table.
Start ==
    /\ adds > 0 /\ scan = 0
    /\ started' = [i \in DOMAIN CommandTable |-> Inactive(CommandTable[i])]
    /\ scan' = 1
    /\ UNCHANGED <<tableVars, conf, adds>>

\* Mistake: it is the new entry that is marked.
channel_connect_last(s, type) == [s EXCEPT ![Len(s)].active = s[Len(s)].config.type = type]

\* The first entry of the type becomes active, whatever entry was meant.
channel_connect(s, type) ==
    LET i == SelectInSeq(s, LAMBDA e : e.config.type = type)
    IN  [s EXCEPT ![i].active = TRUE]

\* For an enabled entry channel_init appends a copy of it, which the loop will
\* come to as well, and channel_connect is called with its type.
StartNext ==
    /\ scan \in DOMAIN started
    /\ LET c == started[scan].config
           s == IF Len(started) < MaxChannels THEN Append(started, Inactive(c)) ELSE started
       IN  started' = IF c.enabled THEN channel_connect(s, c.type) ELSE started
    /\ scan' = scan + 1
    /\ UNCHANGED <<tableVars, conf, adds>>

StartOver == scan > Len(started) /\ scan > 0

LoadNext == \E l \in Loaders : CopyHead(l) \/ CopyTail(l) \/ CountUp(l) \/ NoRoom(l)
CommandNext == \/ \E type \in AddTypes : Add(type)
               \/ \E i \in DOMAIN conf : Edit(i)
               \/ Start \/ StartNext

\* The daemon and the command are different processes.
ChannelsNext == LoadNext \/ CommandNext

ChannelsSpec == ChannelsInit /\ [][ChannelsNext]_channelVars
-----------------------------------------------------------------------------
(* Who is reached. *)

Configured(c) == c.enabled /\ IF c.type = "discord" THEN c.url ELSE c.token

\* telegram_send_message_to, slack_send_message_to, discord_send_message: the first
\* two return -1 without a recipient, and the default, allowed_users, is never
\* filled.
Sends(c, recipient) == Configured(c) /\ (c.type = "discord" \/ recipient)

Entries == [i \in 1..g_channel_count |-> g_channels[i - 1]]

\* channels_send_alert goes to every enabled entry with its credentials, and
\* names no recipient.
AlertTargets == Picked(Entries, {i \in DOMAIN Entries : Sends(Entries[i], FALSE)})

\* The recipient in a webhook's body: parse_telegram_chat_id gives an empty string
\* (see TelegramPoller), parse_slack_channel what the body names as "channel".
RecipientIn(type, named) == type = "slack" /\ named

\* channels_reply_to_webhook: the first entry of the type of the path with its
\* credentials, and no other if that one cannot be sent to.
ReplyTarget(type, named) ==
    LET i == SelectInSeq(Entries, LAMBDA c : Configured(c) /\ c.type = type)
    IN  IF i > 0 /\ Sends(Entries[i], RecipientIn(type, named)) THEN i ELSE 0
-----------------------------------------------------------------------------
\* The daemon's table and the files.
ChannelsTypeOK ==
    /\ g_channel_count \in Nat /\ (~overlapped => g_channel_count <= MaxChannels)
    /\ \A i \in 0..MaxChannels - 1 : g_channels[i].type \in Types
    /\ index \in [Loaders -> 0..MaxChannels - 1]
    /\ Len(conf) <= MaxChannels /\ Len(started) <= MaxChannels

AllLoaded == \A l \in Loaders : Loaded(l)

\* "agent replies are sent back to the channel when configured" (README.md): when
\* the loading is over, each entry of the file, as far as the table has room
\* behind the blank entry, gets the alerts that can be sent to it, and a reply to
\* a webhook of its type is sent if a recipient is known.
ConfiguredIsServed ==
    AllLoaded =>
        \A i \in DOMAIN ConfigToml : i < MaxChannels =>
            LET c == ConfigToml[i]
            IN  /\ Sends(c, FALSE) => c \in ToSet(AlertTargets)
                /\ \A named \in BOOLEAN : Sends(c, RecipientIn(c.type, named)) =>
                       ReplyTarget(c.type, named) > 0

\* It does unless two threads have loaded the table at the same time: a load that
\* comes after another appends the entries once more and harms nothing.
ServedUnlessRaced == ~overlapped => ConfiguredIsServed

\* As long as twice the number of calls of `channel add` fits into the table,
\* what they added stays in the file, in this order: every call leaves one
\* more blank entry behind.
AddedStays ==
    2 * adds <= MaxChannels + 1 =>
        [i \in 1..adds |-> i] = Picked([i \in DOMAIN conf |-> conf[i].name],
                                      {i \in DOMAIN conf : conf[i].name > 0})

\* channel_start_all, which walks a table that grows under it, comes to an end
\* and has activated an entry of the type of every enabled entry.
StartActivates ==
    StartOver => \A i \in DOMAIN started :
        started[i].config.enabled =>
            \E j \in DOMAIN started : /\ started[j].active
                                      /\ started[j].config.type = started[i].config.type

\* What was configured is what is loaded, kept in the file and started.
ChannelsFaithful == ServedUnlessRaced /\ AddedStays /\ StartActivates
=============================================================================
