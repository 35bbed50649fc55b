----------------------------- MODULE ChatClient -----------------------------
(***************************************************************************)
(* The chat in the browser: store/useChatStore.ts over HttpChatService.ts, *)
(* the panel and its cards, and the sign-out of store/useAuthStore.ts that *)
(* empties the store.  The messages are kept in the storage of the tab:    *)
(* after a reload of the page they are on the screen again, and nothing    *)
(* else is.  Of the middleware it keeps what Conversation says of cards: a *)
(* typed message or the answer to one card closes the others, an answer to *)
(* a card that is not open is refused with 409, and the answer is saved    *)
(* before the reply starts.                                                *)
(***************************************************************************)
EXTENDS Naturals, FiniteSets, SequencesExt

CONSTANTS
    Cards,      \* cards the assistant may show
    NoCard,
    MaxStreams, \* bounds on messages and answers sent
    MaxResets   \* and on new chats, sign-outs and reloads

ASSUME CardsAssumption == NoCard \notin Cards
ASSUME BoundsAssumption == MaxStreams \in Nat /\ MaxResets \in Nat

VARIABLES
    token,      \* signed in
    shown,      \* the cards among the messages
    bubbles,    \* replies among the messages, "empty" until text arrives
    isLoading, error,
    streams,    \* requests whose stream has not ended, by number
    newChats,   \* POST /chat/new on their way: "sent" or "applied"
    card,       \* a card in the database of the middleware
    sent, resets,
    left, leftChats, \* requests and new chats on their way from a page that was reloaded
    \* history: the messages were emptied while a reply or a new chat was on its way, and the
    \* cards whose answer's fate was not known as the page was reloaded
    overlapped, interrupted

messages == <<shown, bubbles>>
store == <<messages, isLoading, error>>
tab == <<left, leftChats, interrupted>>
vars == <<token, store, streams, newChats, card, sent, resets, overlapped, tab>>

Init ==
    /\ token = TRUE
    /\ shown = [c \in Cards |-> "none"] /\ bubbles = <<>>
    /\ isLoading = FALSE /\ error = FALSE
    /\ streams = <<>> /\ newChats = <<>>
    /\ card = [c \in Cards |-> "none"]
    /\ sent = 0 /\ resets = 0 /\ overlapped = FALSE
    /\ left = {} /\ leftChats = 0 /\ interrupted = {}

(***************************************************************************)
(* streamReply: an empty message, and the request behind it.               *)
(***************************************************************************)
StreamReply(of) ==
    /\ sent < MaxStreams /\ sent' = sent + 1
    /\ bubbles' = Append(bubbles, [nr |-> sent, empty |-> TRUE])
    /\ streams' = Append(streams, [nr |-> sent, of |-> of, at |-> "sent", started |-> FALSE, coming |-> NoCard])
    /\ isLoading' = TRUE /\ error' = FALSE
    /\ UNCHANGED <<token, newChats, card, resets, overlapped, tab>>

SendMessage == token /\ ~isLoading /\ StreamReply(NoCard) /\ UNCHANGED shown
\* answerCard; a card takes an answer while it is neither answered nor closed.
AnswerCard(c) ==
    /\ token /\ ~isLoading /\ shown[c] = "open"
    /\ shown' = [shown EXCEPT ![c] = "answered"]
    /\ StreamReply(c)

Set(i, stream) == streams' = [streams EXCEPT ![i] = stream]
Server == <<token, store, newChats, sent, resets, overlapped, tab>>

(***************************************************************************)
(* The middleware.                                                         *)
(***************************************************************************)
Open == {c \in Cards : card[c] = "open"}
\* A message was typed, or the card "of" is answered: no other stays open.
Closed(of) == [c \in Cards |-> IF c = of THEN "saved" ELSE IF c \in Open THEN "skipped" ELSE card[c]]
Accept(i) ==
    LET s == streams[i]
    IN  /\ s.at = "sent" /\ (s.of # NoCard => s.of \in Open)
        /\ card' = Closed(s.of)
        /\ Set(i, [s EXCEPT !.at = "accepted"])
        /\ UNCHANGED Server
Conflict(i) ==
    /\ streams[i].at = "sent" /\ streams[i].of # NoCard /\ streams[i].of \notin Open
    /\ Set(i, [streams[i] EXCEPT !.at = "conflict"])
    /\ UNCHANGED <<Server, card>>
\* The reply shows a card; one at a time is on the wire.
ShowCardTool(i) ==
    /\ streams[i].at \in {"accepted", "running"} /\ streams[i].coming = NoCard
    /\ \E c \in Cards :
          /\ card[c] = "none" /\ card' = [card EXCEPT ![c] = "open"]
          /\ Set(i, [streams[i] EXCEPT !.coming = c])
    /\ UNCHANGED Server
NewChatApplied(i) ==
    /\ newChats[i] = "sent" /\ newChats' = [newChats EXCEPT ![i] = "applied"]
    /\ card' = Closed(NoCard)
    /\ UNCHANGED <<token, store, streams, sent, resets, overlapped, tab>>
\* The same for a page that was reloaded: nobody hears of it.
LeftAccepted ==
    \E s \in left :
        /\ s.at = "sent" /\ (s.of # NoCard => s.of \in Open)
        /\ card' = Closed(s.of) /\ left' = (left \ {s}) \cup {[s EXCEPT !.at = "accepted"]}
LeftShows ==
    /\ \E s \in left : s.at \in {"accepted", "running"}
    /\ \E c \in Cards : card[c] = "none" /\ card' = [card EXCEPT ![c] = "open"]
    /\ UNCHANGED left
LeftEnds == (\E s \in left : left' = left \ {s}) /\ UNCHANGED card
Left ==
    /\ \/ (LeftAccepted \/ LeftShows \/ LeftEnds) /\ UNCHANGED leftChats
       \/ /\ leftChats > 0 /\ leftChats' = leftChats - 1
          /\ card' \in {card, Closed(NoCard)} /\ UNCHANGED left
    /\ UNCHANGED <<token, store, streams, newChats, sent, resets, overlapped, interrupted>>

(***************************************************************************)
(* The events of a stream, in the order they were sent.                    *)
(***************************************************************************)
Client == <<token, newChats, card, sent, resets, overlapped, tab>>
\* onRunStarted; after a typed message the cards that are open are closed.
RunStarted(i) ==
    /\ streams[i].at = "accepted"
    /\ Set(i, [streams[i] EXCEPT !.at = "running", !.started = TRUE])
    /\ shown' = [c \in Cards |-> IF streams[i].of = NoCard /\ shown[c] = "open" THEN "closed" ELSE shown[c]]
    /\ UNCHANGED <<Client, bubbles, isLoading, error>>
OnResponse(i) ==
    /\ streams[i].at = "running"
    /\ bubbles' = [k \in DOMAIN bubbles |->
                     IF bubbles[k].nr = streams[i].nr THEN [bubbles[k] EXCEPT !.empty = FALSE] ELSE bubbles[k]]
    /\ bubbles' # bubbles
    /\ UNCHANGED <<Client, shown, isLoading, error, streams>>
OnToolCall(i) ==
    /\ streams[i].at = "running" /\ streams[i].coming # NoCard
    /\ shown' = [shown EXCEPT ![streams[i].coming] = "open"]
    /\ Set(i, [streams[i] EXCEPT !.coming = NoCard])
    /\ UNCHANGED <<Client, bubbles, isLoading, error>>
OnDone(i) ==
    /\ streams[i].at = "running" /\ streams[i].coming = NoCard
    /\ isLoading' = FALSE
    /\ bubbles' = SelectSeq(bubbles, LAMBDA b : b.nr # streams[i].nr \/ ~b.empty)
    /\ streams' = RemoveAt(streams, i)
    /\ UNCHANGED <<Client, shown, error>>

\* answerCard that keeps the answer unless it is told of a conflict.
ReopenedUnlessKept(s) == IF s.at = "conflict" THEN "closed" ELSE "answered"
\* What answerCard makes of a stream that failed.
Reopened(s) ==
    IF s.started THEN "answered" ELSE IF s.at = "conflict" THEN "closed" ELSE "open"
\* HttpChatService without the report of a stream that ended early.
FailUnreported(i) ==
    /\ streams' = RemoveAt(streams, i)
    /\ UNCHANGED <<Client, store>>
\* The stream is refused, fails or breaks off: RUN_ERROR, 401, 409, 500, a lost connection.
Fail(i) ==
    LET s == streams[i]
    IN  /\ bubbles' = SelectSeq(bubbles, LAMBDA b : b.nr # s.nr) /\ isLoading' = FALSE /\ error' = TRUE
        /\ shown' = IF s.of # NoCard /\ shown[s.of] = "answered"
                    THEN [shown EXCEPT ![s.of] = Reopened(s)] ELSE shown
        /\ streams' = RemoveAt(streams, i)
        /\ UNCHANGED Client

(***************************************************************************)
(* New chats, sign-outs and reloads.                                       *)
(***************************************************************************)
Empty == shown' = [c \in Cards |-> "none"] /\ bubbles' = <<>> /\ error' = FALSE
Reset ==
    /\ resets < MaxResets /\ resets' = resets + 1 /\ Empty
    /\ overlapped' = (overlapped \/ streams # <<>> \/ newChats # <<>>)
    /\ UNCHANGED <<streams, card, sent, tab>>
\* The button is there while a reply streams.
NewChat ==
    /\ token /\ Reset /\ isLoading' = TRUE
    /\ newChats' = Append(newChats, "sent") /\ UNCHANGED token
NewChatAnswered(i) ==
    /\ isLoading' = FALSE /\ newChats' = RemoveAt(newChats, i)
    /\ \/ newChats[i] = "applied" /\ error' = FALSE
       \/ error' = TRUE
    /\ UNCHANGED <<token, messages, streams, card, sent, resets, overlapped, tab>>
\* logout, by the user or because a request was answered with 401.
Logout ==
    /\ token /\ token' = FALSE /\ Reset /\ isLoading' = FALSE /\ UNCHANGED newChats
Login ==
    /\ ~token /\ token' = TRUE
    /\ UNCHANGED <<store, streams, newChats, card, sent, resets, overlapped, tab>>
ClearError ==
    /\ error /\ error' = FALSE
    /\ UNCHANGED <<token, messages, isLoading, streams, newChats, card, sent, resets, overlapped, tab>>
\* Only the messages are persisted, with the answers that were written before they were sent.
Reload ==
    /\ resets < MaxResets /\ resets' = resets + 1
    /\ isLoading' = FALSE /\ error' = FALSE /\ streams' = <<>> /\ newChats' = <<>>
    /\ left' = left \cup {[nr |-> s.nr, of |-> s.of, at |-> s.at] : s \in ToSet(streams)}
    /\ leftChats' = leftChats + Cardinality({i \in DOMAIN newChats : newChats[i] = "sent"})
    /\ interrupted' = interrupted \cup {s.of : s \in {t \in ToSet(streams) : t.at \in {"sent", "conflict"}}}
    /\ UNCHANGED <<token, messages, card, sent, overlapped>>

User ==
    \/ SendMessage \/ (\E c \in Cards : AnswerCard(c))
    \/ NewChat \/ Logout \/ Login \/ Reload \/ ClearError
Stream(i) == RunStarted(i) \/ OnResponse(i) \/ OnToolCall(i) \/ OnDone(i) \/ Fail(i)
Middleware ==
    \/ \E i \in DOMAIN streams : Accept(i) \/ Conflict(i) \/ ShowCardTool(i)
    \/ \E i \in DOMAIN newChats : NewChatApplied(i)
    \/ Left
Answers ==
    \/ \E i \in DOMAIN streams : Stream(i)
    \/ \E i \in DOMAIN newChats : NewChatAnswered(i)
Next == User \/ Middleware \/ Answers

\* A stream ends, at the latest when the connection is lost, and so does a request.
Spec == Init /\ [][Next]_vars /\ WF_vars(Answers)

(***************************************************************************)
(* Properties.                                                             *)
(***************************************************************************)
\* The cards on the screen tell the truth.  A card that says its answer is saved, and is not
\* waiting for the answer's fate, is saved in the middleware, whatever failed in between and
\* however often the page was reloaded.  One case is left out, because there the claim fails: the
\* page was reloaded while that very answer waited to be accepted.  The answer was written to the
\* messages before it was sent and they are persisted, so the card says it is answered though the
\* request may be lost, and cannot be answered again.  And unless a reply or a new chat was on its
\* way as the messages were emptied, a closed card takes no answer in the middleware.
Awaited == {s.of : s \in ToSet(streams)}
CardsTellTheTruth ==
    \A c \in Cards :
        /\ shown[c] = "answered" /\ c \notin Awaited \cup interrupted => card[c] = "saved"
        /\ shown[c] = "closed" /\ ~overlapped => card[c] # "open"

\* The input comes back: however a reply ends, the store does not stay loading (the last line
\* of run in HttpChatService.ts reports a stream that ended without an event).
LoadingEnds == isLoading ~> ~isLoading
=============================================================================
