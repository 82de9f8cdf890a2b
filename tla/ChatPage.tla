------------------------------- MODULE ChatPage ------------------------------
(***************************************************************************)
(* The messages page: one player's view of the selected chat.  The newest  *)
(* messages are read when the chat is selected, older ones on request, the *)
(* player's own are shown before the server has them, and the others' come *)
(* over the socket.                                                        *)
(*                                                                         *)
(* A message is [chat, id, mine].  The server numbers a chat's messages    *)
(* from 0; a message it has not numbered yet has a negative id.            *)
(***************************************************************************)
EXTENDS Integers, SequencesExt, Places

CONSTANTS
    Chats,         \* the player's chats
    PageSize,      \* messages answered at a time (50)
    MaxPosted,     \* bound: messages of others
    MaxSent,       \* bound: messages the player sends
    MaxSelected    \* bound: chats selected

NoChat == "no chat"

ASSUME ChatAssumption ==
    /\ NoChat \notin Chats
    /\ PageSize \in Nat \ {0}
    /\ MaxPosted \in Nat /\ MaxSent \in Nat /\ MaxSelected \in Nat

NoLoad == [stage |-> "none", chat |-> NoChat, before |-> 0, got |-> <<>>, more |-> FALSE]

VARIABLES
    posted,       \* [chat -> its messages], on the server
    inbox,        \* display_new_message events on their way
    chatId,       \* the chat selected
    messages,     \* the messages shown
    hasMore,
    load,         \* the read of the chat's newest messages.  isLoading while there is one
    older,        \* the read of older ones.  isLoadingMore while there is one
    sends,        \* the player's messages on their way: [temp, chat, stage, real]
    counts,       \* [sent, selected] so far
    overtaken     \* history: something shown was not in an answer that landed over it, or
                  \* an answer to one chat landed in another, or in doubt

chatVars == <<posted, inbox, chatId, messages, hasMore, load, older, sends, counts, overtaken>>

ChatInit ==
    /\ posted = [c \in Chats |-> <<>>]
    /\ inbox = <<>>
    /\ chatId = NoChat
    /\ messages = <<>>
    /\ hasMore = FALSE
    /\ load = NoLoad /\ older = NoLoad
    /\ sends = {}
    /\ counts = [sent |-> 0, selected |-> 0]
    /\ overtaken = FALSE

Message(c, mine)  == [chat |-> c, id |-> Len(posted[c]), mine |-> mine]
LastOf(seq, n)    == SubSeq(seq, Len(seq) - n + 1, Len(seq))
Newest(seq)       == [messages |-> IF Len(seq) > PageSize THEN LastOf(seq, PageSize) ELSE seq,
                      more |-> Len(seq) > PageSize]

\* get_chat_messages, without and with before.  A message that is not the chat's has
\* nothing before it.
NewestOf(c)     == Newest(posted[c])
OlderThan(c, id) ==
    IF id \in 0 .. Len(posted[c]) - 1 THEN Newest(SubSeq(posted[c], 1, id))
    ELSE [messages |-> <<>>, more |-> FALSE]

-----------------------------------------------------------------------------
\* A read under way for the chat left is not heard of again.
Select(c) ==
    /\ counts.selected < MaxSelected
    /\ c # chatId
    /\ chatId' = c
    /\ load' = [NoLoad EXCEPT !.stage = "asked", !.chat = c]
    /\ counts' = [counts EXCEPT !.selected = @ + 1]
    /\ overtaken' = (overtaken \/ older # NoLoad)
    /\ UNCHANGED <<posted, inbox, messages, hasMore, older, sends>>

\* No chat is selected: nothing is shown.
Deselect ==
    /\ chatId # NoChat
    /\ chatId' = NoChat
    /\ load' = NoLoad
    /\ messages' = <<>> /\ hasMore' = FALSE
    /\ overtaken' = (overtaken \/ older # NoLoad)
    /\ UNCHANGED <<posted, inbox, older, sends, counts>>

LoadAnswered ==
    /\ load.stage = "asked"
    /\ load' = [load EXCEPT !.stage = "answered", !.got = NewestOf(load.chat).messages,
                            !.more = NewestOf(load.chat).more]
    /\ UNCHANGED <<posted, inbox, chatId, messages, hasMore, older, sends, counts, overtaken>>

\* The answer replaces whatever is shown.
LoadLands ==
    /\ load.stage = "answered"
    /\ messages' = load.got
    /\ hasMore' = load.more
    /\ load' = NoLoad
    /\ overtaken' = (overtaken \/ sends # {} \/ load.got # NewestOf(chatId).messages
                        \/ \E i \in DOMAIN inbox : inbox[i].chat = chatId)
    /\ UNCHANGED <<posted, inbox, chatId, older, sends, counts>>

\* What was shown, maybe of another chat, stays.
LoadFails ==
    /\ load # NoLoad
    /\ load' = NoLoad
    /\ overtaken' = TRUE
    /\ UNCHANGED <<posted, inbox, chatId, messages, hasMore, older, sends, counts>>

\* loadMore, from its button, which is not there while the chat is being read.
LoadMore ==
    /\ chatId # NoChat /\ load = NoLoad
    /\ hasMore /\ older = NoLoad /\ messages # <<>>
    /\ older' = [NoLoad EXCEPT !.stage = "asked", !.chat = chatId, !.before = messages[1].id]
    /\ UNCHANGED <<posted, inbox, chatId, messages, hasMore, load, sends, counts, overtaken>>

OlderAnswered ==
    /\ older.stage = "asked"
    /\ older' = [older EXCEPT !.stage = "answered",
                              !.got = OlderThan(older.chat, older.before).messages,
                              !.more = OlderThan(older.chat, older.before).more]
    /\ UNCHANGED <<posted, inbox, chatId, messages, hasMore, load, sends, counts, overtaken>>

\* Whatever chat is selected by now.
OlderLands ==
    /\ older.stage = "answered"
    /\ messages' = older.got \o messages
    /\ hasMore' = older.more
    /\ older' = NoLoad
    /\ UNCHANGED <<posted, inbox, chatId, load, sends, counts, overtaken>>

OlderFails ==
    /\ older # NoLoad
    /\ older' = NoLoad
    /\ UNCHANGED <<posted, inbox, chatId, messages, hasMore, load, sends, counts, overtaken>>

\* sendMessage: shown at once, under an id of its own.
Send ==
    /\ chatId # NoChat
    /\ counts.sent < MaxSent
    /\ LET temp == -(counts.sent + 1)
       IN  /\ messages' = Append(messages, [chat |-> chatId, id |-> temp, mine |-> TRUE])
           /\ sends' = sends \cup {[temp |-> temp, chat |-> chatId, stage |-> "sent", real |-> 0]}
    /\ counts' = [counts EXCEPT !.sent = @ + 1]
    /\ UNCHANGED <<posted, inbox, chatId, hasMore, load, older, overtaken>>

\* The event the server sends every participant is told to the sender too.
SendHandled(send) ==
    /\ send.stage = "sent"
    /\ posted' = [posted EXCEPT ![send.chat] = Append(@, Message(send.chat, TRUE))]
    /\ inbox' = Append(inbox, Message(send.chat, TRUE))
    /\ sends' = (sends \ {send}) \cup {[send EXCEPT !.stage = "saved", !.real = Len(posted[send.chat])]}
    /\ UNCHANGED <<chatId, messages, hasMore, load, older, counts, overtaken>>

\* The message the server answers with takes the place of the one shown.
SendLands(send) ==
    /\ send.stage = "saved"
    /\ messages' = [i \in DOMAIN messages |->
                        IF messages[i].id = send.temp THEN [messages[i] EXCEPT !.id = send.real]
                        ELSE messages[i]]
    /\ sends' = sends \ {send}
    /\ UNCHANGED <<posted, inbox, chatId, hasMore, load, older, counts, overtaken>>

Without(seq, id) == Picked(seq, { i \in DOMAIN seq : seq[i].id # id })

\* Refused or lost, before the server had it or after: the message is no longer shown.
SendFails(send) ==
    /\ messages' = Without(messages, send.temp)
    /\ sends' = sends \ {send}
    /\ overtaken' = (overtaken \/ send.stage = "saved")
    /\ UNCHANGED <<posted, inbox, chatId, hasMore, load, older, counts>>

OtherPosts(c) ==
    /\ Cardinality({ i \in DOMAIN posted[c] : ~posted[c][i].mine }) < MaxPosted
    /\ posted' = [posted EXCEPT ![c] = Append(@, Message(c, FALSE))]
    /\ inbox' = Append(inbox, Message(c, FALSE))
    /\ UNCHANGED <<chatId, messages, hasMore, load, older, sends, counts, overtaken>>

\* A slip: the player's own message is added once more.
AddEveryMessage ==
    /\ inbox # <<>>
    /\ inbox' = Tail(inbox)
    /\ messages' = IF Head(inbox).chat = chatId THEN Append(messages, Head(inbox)) ELSE messages
    /\ UNCHANGED <<posted, chatId, hasMore, load, older, sends, counts, overtaken>>

\* handleNewMessage: another's message in the chat selected is added.
NewMessage ==
    /\ inbox # <<>>
    /\ inbox' = Tail(inbox)
    /\ messages' = IF Head(inbox).chat = chatId /\ ~Head(inbox).mine
                     THEN Append(messages, Head(inbox)) ELSE messages
    /\ UNCHANGED <<posted, chatId, hasMore, load, older, sends, counts, overtaken>>

ChatNext ==
    \/ \E c \in Chats : Select(c) \/ OtherPosts(c)
    \/ Deselect \/ LoadAnswered \/ LoadLands \/ LoadFails
    \/ LoadMore \/ OlderAnswered \/ OlderLands \/ OlderFails
    \/ Send \/ NewMessage
    \/ \E send \in sends : SendHandled(send) \/ SendLands(send) \/ SendFails(send)

-----------------------------------------------------------------------------
Quiet == load = NoLoad /\ older = NoLoad /\ sends = {} /\ inbox = <<>>
=============================================================================
