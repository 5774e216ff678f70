------------------------------- MODULE Delivery -------------------------------
(***************************************************************************)
(* The senders of src/src/channels/channels.c.  Telegram, Discord and      *)
(* Slack cut a long text into pieces; the others send it in one request or *)
(* only print it.  A text is a sequence of characters of which separators  *)
(* are told apart (what strip_tool_calls removes is not counted); a piece  *)
(* is the stretch of it that one request carries, behind the mark that     *)
(* tells a continuation.                                                   *)
(***************************************************************************)
EXTENDS Naturals, Sequences, FiniteSets, FiniteSetsExt

CONSTANTS Limit,      \* the longest message of the service
          Mark,       \* the length of "[cont.]\n"
          Buffer,     \* the characters that fit into cleaned, body or cmd
          MaxLength   \* bound: the length of a text

ASSUME DeliveryAssumption ==
    Limit \in Nat \ {0} /\ Mark \in Nat /\ Buffer \in Nat /\ MaxLength \in Nat

VARIABLES service,       \* who sends
          content_len,   \* the length of the text the sender is given
          letters,       \* what it has of it; letters[i]: no separator
          posted,        \* the requests made, with what became of them
          sending,       \* where the sender is
          result         \* what it returns

textVars == <<service, content_len, letters>>
deliveryVars == <<textVars, posted, sending, result>>

DeliveryInit ==
    /\ service = "telegram" /\ content_len = 0 /\ letters = <<>>
    /\ posted = <<>> /\ sending = "idle" /\ result = 0

Cutting == {"telegram", "discord", "slack"}
Once == {"whatsapp", "signal", "matrix", "email", "dingtalk", "lark", "qq", "imessage"}
Printing == {"irc", "mattermost", "webhook"}

\* Telegram goes over a copy of the text in a buffer, and those that make one
\* request print the text into one: what does not fit is lost.
KeptLen(s, n) == IF s \in {"telegram"} \cup Once /\ n > Buffer THEN Buffer ELSE n

\* A sender is called: the agent has answered, or there is an alert.  Without
\* its token, key or recipient it returns at once.
Send ==
    /\ sending = "idle"
    /\ service' \in Cutting \cup Once \cup Printing
    /\ content_len' \in 0..MaxLength
    /\ letters' \in [1..KeptLen(service', content_len') -> BOOLEAN]
    /\ \/ sending' = "text" /\ UNCHANGED result
       \/ service' \notin Printing \cup {"imessage"} /\ sending' = "done" /\ result' = 1
    /\ UNCHANGED posted

\* The text goes through the loop that cuts it.
Cuts == service \in Cutting /\ (service = "telegram" => Len(letters) > Limit)

Remaining == IF posted = <<>> THEN 1 ELSE posted[Len(posted)].to + 1
Rest == Len(letters) + 1 - Remaining

\* The length of the piece of at most n characters that ends in a separator,
\* or n if there is none.
Break(n) ==
    LET ends == {k \in 1..n : ~letters[Remaining + k - 1]}
    IN  IF ends = {} THEN n ELSE Max(ends)

Shorter == IF Rest < Limit THEN Rest ELSE Limit

\* Telegram cuts what does not fit; Discord and Slack cut behind the last
\* separator in any case.
chunk_len == IF service = "telegram" /\ Rest <= Limit THEN Rest ELSE Break(Shorter)

\* What may become of a request: accepted, refused in an answer with status
\* 200, failed, or carried out with the answer lost.  http_post says 0 in the
\* first two cases.
Outcomes == {"accepted", "refused", "failed", "lost"}
Status(o) == IF o \in {"accepted", "refused"} THEN 0 ELSE 1

\* All requests but the first carry the mark in front of the piece.
Post(n, o) == posted' = Append(posted, [from |-> Remaining, to |-> Remaining + n - 1,
                                        mark |-> IF posted = <<>> THEN 0 ELSE Mark,
                                        outcome |-> o])

\* A short text for Telegram goes as Markdown, and plain if that is refused.
Whole(o) ==
    /\ sending = "text" /\ service = "telegram" /\ Len(letters) <= Limit
    /\ Post(Len(letters), o)
    /\ sending' = IF o = "refused" THEN "plain" ELSE "done"
    /\ result' = Status(o)
    /\ UNCHANGED textVars

Plain(o) ==
    /\ sending = "plain"
    /\ posted' = Append(posted, [posted[1] EXCEPT !.outcome = o])
    /\ sending' = "done" /\ result' = Status(o)
    /\ UNCHANGED textVars

\* Mistake: the loop goes on behind a request that failed.
ChunkGoesOn(o) ==
    /\ sending = "text" /\ Cuts
    /\ Rest > 0
    /\ Post(chunk_len, o)
    /\ result' = Status(o)
    /\ UNCHANGED <<textVars, sending>>

\* One round of the loop that cuts and sends.
Chunk(o) ==
    /\ sending = "text" /\ Cuts
    /\ Rest > 0 /\ result = 0
    /\ Post(chunk_len, o)
    /\ result' = Status(o)
    /\ UNCHANGED <<textVars, sending>>

\* One request with all that fits of the text.  If that is not all of it, the
\* quotes and brackets behind the text are missing, and nobody can accept the
\* request; for iMessage it is a command, which fails where others are refused.
Single(o) ==
    /\ sending = "text" /\ service \in Once
    /\ Len(letters) < content_len => o \in {"refused", "failed"}
    /\ service = "imessage" => o /= "refused"
    /\ Post(Len(letters), o)
    /\ sending' = "done" /\ result' = Status(o)
    /\ UNCHANGED textVars

\* These only print, and say that they have sent.
Printed ==
    /\ sending = "text" /\ service \in Printing
    /\ sending' = "done"
    /\ UNCHANGED <<textVars, posted, result>>

DeliveryNext == \/ Send \/ Printed
                \/ \E o \in Outcomes : Whole(o) \/ Plain(o) \/ Chunk(o) \/ Single(o)

DeliverySpec == DeliveryInit /\ [][DeliveryNext]_deliveryVars

Returned == \/ sending = "done"
            \/ sending = "text" /\ Cuts /\ (Rest = 0 \/ result /= 0)
-----------------------------------------------------------------------------
Got(p) == p.outcome \in {"accepted", "lost"}

\* The pieces of a long text follow each other without a gap or an overlap,
\* none is empty and none longer than the service allows; the mark of all but the
\* first comes on top of that length.
InOrder ==
    Cuts => \A i \in DOMAIN posted :
        /\ posted[i].from = IF i = 1 THEN 1 ELSE posted[i - 1].to + 1
        /\ posted[i].to - posted[i].from + 1 \in 1..Limit
        /\ posted[i].mark = IF i = 1 THEN 0 ELSE Mark
        /\ posted[i].to <= Len(letters)
        /\ i > 1 /\ letters[posted[i].from - 1] =>
              \* a word is broken only where a whole message is one word
              \A k \in posted[i - 1].from..posted[i - 1].to : letters[k]

\* No part of a text is received twice, although one text may be sent twice
\* and answers get lost.
ReceivedOnce ==
    \A i, j \in DOMAIN posted :
        i < j /\ Got(posted[i]) /\ Got(posted[j]) => posted[i].to < posted[j].from

\* A sender other than those that only print reports success when the text was
\* sent, all of it or, except by Discord and Slack, what the buffer takes of it,
\* and no request failed; behind one that failed nothing is sent.
SuccessIsWhole ==
    /\ Returned /\ result = 0 /\ service \notin Printing =>
           Remaining - 1 = IF service \in {"discord", "slack"} \/ content_len <= Buffer
                           THEN content_len ELSE Buffer
    /\ \A i \in DOMAIN posted : Status(posted[i].outcome) /= 0 => i = Len(posted) /\ result /= 0

\* A text that is reported as sent was sent in order, as far as the buffer goes,
\* and nobody receives a part of it twice.
DeliveredWhole == InOrder /\ ReceivedOnce /\ SuccessIsWhole
=============================================================================
