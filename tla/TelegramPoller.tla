--------------------------- MODULE TelegramPoller ---------------------------
(***************************************************************************)
(* The Telegram listener of src/src/channels/channels.c: the poll thread   *)
(* (telegram_poll_thread_fn) asks Telegram for updates, puts the text of   *)
(* one of them into the job cache and goes on; a worker runs the agent and *)
(* calls channel_agent_response_cb, which sends the answer to the chat.    *)
(* Telegram is modelled by the protocol of getUpdates: a request with an   *)
(* offset drops the updates below it and returns the others, oldest first. *)
(* One bot is configured, as channels_load_config reads it: without        *)
(* allowed_users, hence without a default chat.                            *)
(***************************************************************************)
EXTENDS Naturals, Sequences, FiniteSets, SequencesExt, FiniteSetsExt, Selection

CONSTANTS Chats, NoChat,   \* chats; the empty chat_id
          FirstId,         \* the update_id Telegram begins with
          MaxUpdates,      \* bound: the updates that arrive
          MaxOffset,       \* bound: offset is not counted beyond; below every
                           \* update_id all offsets are alike to Telegram
          Capacity         \* of the job cache

ASSUME PollerAssumption ==
    /\ NoChat \notin Chats /\ FirstId \in Nat \ {0} /\ MaxUpdates \in Nat
    /\ MaxOffset \in Nat /\ MaxOffset < FirstId /\ Capacity \in Nat \ {0}

VARIABLES updates,   \* at Telegram: what is not confirmed yet, oldest first
          arrived,   \* the updates that have arrived
          offset, last_id, text, chat_id,   \* locals of the poll thread; text
                                            \* is the update it was read from
          text0,     \* text[0] is not the end of the string
          ppc,        \* where the poll thread is
          queue,     \* the jobs in the cache, each with its reply context
          texts,     \* the updates that came with a text
          pushed     \* the ids of those whose text was pushed

pollVars == <<updates, arrived, offset, last_id, text, text0, chat_id, ppc, queue,
              texts, pushed>>

\* An update is a message whose text begins with a plain or with an escaped
\* character, or something without a text (a photo, a sticker).
UpdateIds == FirstId..FirstId + MaxUpdates - 1
Update == [id : UpdateIds, chat : Chats, kind : {"plain", "escaped", "none"}]
NoUpdate == [id |-> 0, chat |-> NoChat, kind |-> "none"]

\* text is not initialised.
PollerInit == /\ updates = <<>> /\ arrived = 0
              /\ offset = 0 /\ last_id = 0 /\ text = NoUpdate /\ chat_id = NoChat
              /\ text0 \in BOOLEAN
              /\ ppc = "fetch" /\ queue = <<>>
              /\ texts = {} /\ pushed = {}

\* Somebody writes to the bot.
Arrive ==
    /\ arrived < MaxUpdates
    /\ \E c \in Chats, k \in {"plain", "escaped", "none"} :
          LET u == [id |-> FirstId + arrived, chat |-> c, kind |-> k]
          IN  /\ updates' = Append(updates, u)
              /\ texts' = IF k = "none" THEN texts ELSE texts \cup {u}
    /\ arrived' = arrived + 1
    /\ UNCHANGED <<offset, last_id, text, text0, chat_id, ppc, queue, pushed>>
-----------------------------------------------------------------------------
\* The number at p, which telegram_fetch_updates sets 11 characters behind the
\* start of "update_id": (12 characters): at its colon, where atol finds none.
ParsedId(u) == 0

\* parse_telegram_chat_id looks for "chat":{"id": and then for the first colon
\* from there on, the one before the brace: no number, the id is empty.
ParsedChat(u) == NoChat

\* telegram_fetch_updates: the request fails (before or after Telegram has seen
\* it), or it confirms what is below the offset and returns the rest.  Its
\* first text, if any, is taken with the chat id of the first update.  The copy
\* leaves out_text as it was at the place of a backslash.
Unconfirmed == Picked(updates, {i \in DOMAIN updates : updates[i].id >= offset})
Texts == Picked(Unconfirmed, {i \in DOMAIN Unconfirmed : Unconfirmed[i].kind /= "none"})
BeginsWith(u) == text0' = IF u.kind = "escaped" THEN text0 ELSE TRUE

FetchFails ==
    /\ ppc = "fetch"
    /\ \/ updates' \in {updates, Unconfirmed} /\ UNCHANGED last_id
       \/ /\ Texts = <<>>
          /\ updates' = Unconfirmed
          /\ last_id' = Max({offset} \cup {ParsedId(u) : u \in ToSet(Unconfirmed)})
    /\ UNCHANGED <<arrived, offset, text, text0, chat_id, ppc, queue, texts, pushed>>

\* Mistake: the newest text of the batch is taken.
FetchNewest ==
    /\ ppc = "fetch"
    /\ Texts /= <<>>
    /\ updates' = Unconfirmed
    /\ last_id' = Max({offset} \cup {ParsedId(u) : u \in ToSet(Unconfirmed)})
    /\ text' = Last(Texts) /\ BeginsWith(Last(Texts))
    /\ chat_id' = ParsedChat(Head(Unconfirmed))
    /\ ppc' = "push"
    /\ UNCHANGED <<arrived, offset, queue, texts, pushed>>

Fetch ==
    /\ ppc = "fetch"
    /\ Texts /= <<>>
    /\ updates' = Unconfirmed
    /\ last_id' = Max({offset} \cup {ParsedId(u) : u \in ToSet(Unconfirmed)})
    /\ text' = Head(Texts) /\ BeginsWith(Head(Texts))
    /\ chat_id' = ParsedChat(Head(Unconfirmed))
    /\ ppc' = "push"
    /\ UNCHANGED <<arrived, offset, queue, texts, pushed>>

Advance == offset' = IF last_id + 1 > MaxOffset /\ last_id < FirstId
                     THEN MaxOffset ELSE last_id + 1

\* The text looks empty, or there is no memory for the reply context, which may
\* happen at any time: the update is passed over.
PassOver ==
    /\ ppc = "push"
    /\ Advance
    /\ ppc' = "fetch"
    /\ UNCHANGED <<updates, arrived, last_id, text, text0, chat_id, queue, texts,
                   pushed>>

\* jobcache_push waits for a free slot.
Push ==
    /\ ppc = "push" /\ text0
    /\ Len(queue) < Capacity
    /\ queue' = Append(queue, [update |-> text, chat_id |-> chat_id])
    /\ pushed' = pushed \cup {text.id}
    /\ Advance
    /\ ppc' = "fetch"
    /\ UNCHANGED <<updates, arrived, last_id, text, text0, chat_id, texts>>

\* A worker takes the oldest job and runs the agent; the callback hands the answer
\* to telegram_send_message_to, which without a chat_id sends nothing.
Answer ==
    /\ queue /= <<>>
    /\ queue' = Tail(queue)
    /\ UNCHANGED <<updates, arrived, offset, last_id, text, text0, chat_id, ppc, texts,
                   pushed>>

PollerNext == Arrive \/ FetchFails \/ Fetch \/ PassOver \/ Push \/ Answer

PollerSpec == PollerInit /\ [][PollerNext]_pollVars

\* Requests do not fail for ever, memory is there again and again for a text that
\* does not look empty, and the workers take jobs.
FairPollerSpec == /\ PollerSpec
                  /\ SF_pollVars(Fetch) /\ SF_pollVars(Push) /\ WF_pollVars(Answer)
-----------------------------------------------------------------------------
\* Telegram's queue, the poll thread's locals and the jobs.
PollerTypeOK ==
    /\ updates \in Seq(Update) /\ arrived \in 0..MaxUpdates
    /\ offset \in 0..FirstId + MaxUpdates /\ last_id \in 0..FirstId + MaxUpdates
    /\ text \in Update \cup {NoUpdate} /\ chat_id \in Chats \cup {NoChat}
    /\ ppc \in {"fetch", "push"} /\ Len(queue) <= Capacity
    /\ texts \subseteq Update /\ pushed \subseteq {u.id : u \in texts}
    /\ text0 \in BOOLEAN

Oldest == CHOOSE u \in texts : \A v \in texts : u.id <= v.id

\* The oldest message gets to the agent although requests fail, memory runs out,
\* the cache fills up and other messages come behind it; if its text begins with
\* an escaped character (a quote, a line break, anything beyond ASCII) that hangs
\* on what the buffer held before.
OldestReceived ==
    (texts /= {} /\ Oldest.kind = "plain") ~> (texts /= {} /\ Oldest.id \in pushed)

\* "so Telegram/Discord/Slack actually receive messages and can trigger the
\* agent" (COMPLETION_PLAN.md): every message does in the end.
EveryTextReceived ==
    \A id \in UpdateIds : (\E u \in texts : u.id = id) ~> (id \in pushed)
=============================================================================
