-------------------------- MODULE ChatClientProofs --------------------------
(***************************************************************************)
(* Proofs about the chat client, for any number of cards, messages,        *)
(* answers, new chats, sign-outs and reloads of the page.                  *)
(***************************************************************************)
EXTENDS ChatClient, SequenceFacts

-----------------------------------------------------------------------------
(* Types.                                                                  *)

SomeCard == Cards \cup {NoCard}
StreamType ==
  [nr : Nat, of : SomeCard, at : {"sent", "accepted", "running", "conflict"},
   started : BOOLEAN, coming : SomeCard]

ClientTypeOK ==
  /\ token \in BOOLEAN /\ isLoading \in BOOLEAN /\ overlapped \in BOOLEAN
  /\ shown \in [Cards -> {"none", "open", "answered", "closed"}]
  /\ card \in [Cards -> {"none", "open", "saved", "skipped"}]
  /\ streams \in Seq(StreamType)
  /\ newChats \in Seq({"sent", "applied"})
  /\ sent \in Nat

\* One stream is written anew.
LEMMA SetElements ==
  ASSUME streams \in Seq(StreamType), NEW i \in DOMAIN streams, NEW s \in StreamType, Set(i, s)
  PROVE  /\ streams' \in Seq(StreamType)
         /\ Len(streams') = Len(streams) /\ DOMAIN streams' = DOMAIN streams
         /\ streams'[i] = s
         /\ \A j \in DOMAIN streams \ {i} : streams'[j] = streams[j]
  BY DEF Set

\* What the steps make of a stream.
LEMMA StreamUpdates ==
  ASSUME NEW s \in StreamType
  PROVE  /\ \A at \in {"accepted", "conflict"} :
              /\ [s EXCEPT !.at = at] \in StreamType
              /\ [s EXCEPT !.at = at].at = at /\ [s EXCEPT !.at = at].of = s.of
              /\ [s EXCEPT !.at = at].started = s.started
              /\ [s EXCEPT !.at = at].coming = s.coming
         /\ \A c \in SomeCard :
              /\ [s EXCEPT !.coming = c] \in StreamType
              /\ [s EXCEPT !.coming = c].coming = c /\ [s EXCEPT !.coming = c].of = s.of
              /\ [s EXCEPT !.coming = c].started = s.started
              /\ [s EXCEPT !.coming = c].at = s.at
         /\ [s EXCEPT !.at = "running", !.started = TRUE] \in StreamType
         /\ [s EXCEPT !.at = "running", !.started = TRUE].at = "running"
         /\ [s EXCEPT !.at = "running", !.started = TRUE].started = TRUE
         /\ [s EXCEPT !.at = "running", !.started = TRUE].of = s.of
         /\ [s EXCEPT !.at = "running", !.started = TRUE].coming = s.coming
<1>1. ASSUME NEW at \in {"accepted", "conflict"}
      PROVE  /\ [s EXCEPT !.at = at] \in StreamType
             /\ [s EXCEPT !.at = at].at = at /\ [s EXCEPT !.at = at].of = s.of
             /\ [s EXCEPT !.at = at].started = s.started
             /\ [s EXCEPT !.at = at].coming = s.coming
  BY DEF StreamType
<1>2. ASSUME NEW c \in SomeCard
      PROVE  /\ [s EXCEPT !.coming = c] \in StreamType
             /\ [s EXCEPT !.coming = c].coming = c /\ [s EXCEPT !.coming = c].of = s.of
             /\ [s EXCEPT !.coming = c].started = s.started
             /\ [s EXCEPT !.coming = c].at = s.at
  BY DEF StreamType
<1>3. /\ [s EXCEPT !.at = "running", !.started = TRUE] \in StreamType
      /\ [s EXCEPT !.at = "running", !.started = TRUE].at = "running"
      /\ [s EXCEPT !.at = "running", !.started = TRUE].started = TRUE
      /\ [s EXCEPT !.at = "running", !.started = TRUE].of = s.of
      /\ [s EXCEPT !.at = "running", !.started = TRUE].coming = s.coming
  BY DEF StreamType
<1>4. QED BY <1>1, <1>2, <1>3

-----------------------------------------------------------------------------
(* Type correctness.                                                       *)

LEMMA Positions ==
  ASSUME ClientTypeOK
  PROVE  /\ \A i \in DOMAIN streams : streams[i] \in StreamType
         /\ \A i \in DOMAIN newChats : newChats[i] \in {"sent", "applied"}
  BY DEF ClientTypeOK

LEMMA StreamReplyTyped ==
  ASSUME ClientTypeOK, NEW of \in SomeCard, StreamReply(of),
         shown' \in [Cards -> {"none", "open", "answered", "closed"}]
  PROVE  ClientTypeOK'
<1> DEFINE s == [nr |-> sent, of |-> of, at |-> "sent", started |-> FALSE, coming |-> NoCard]
<1>1. s \in StreamType
  BY DEF ClientTypeOK, StreamType, SomeCard
<1>2. streams' = Append(streams, s)
  BY DEF StreamReply
<1>3. streams' \in Seq(StreamType)
  BY <1>1, <1>2, AppendElements DEF ClientTypeOK
<1>4. QED BY <1>3 DEF StreamReply, ClientTypeOK

\* A card opens once, and what became of it is final.
CardMoves ==
  \A c \in Cards : \/ card'[c] = card[c]
                   \/ card[c] = "none" /\ card'[c] = "open"
                   \/ card[c] = "open" /\ card'[c] \in {"saved", "skipped"}

\* What the middleware still does for a page that was reloaded.
LEMMA LeftMoves ==
  ASSUME ClientTypeOK, Left
  PROVE  /\ CardMoves /\ card' \in [Cards -> {"none", "open", "saved", "skipped"}]
         /\ UNCHANGED <<token, shown, bubbles, isLoading, error, streams, newChats, sent, overlapped,
                       interrupted>>
<1> USE DEF ClientTypeOK, CardMoves, Open
<1>1. \A of \in SomeCard : of \in Open \cup {NoCard} =>
        /\ Closed(of) \in [Cards -> {"none", "open", "saved", "skipped"}]
        /\ \A c \in Cards : \/ Closed(of)[c] = card[c]
                            \/ card[c] = "open" /\ Closed(of)[c] \in {"saved", "skipped"}
  BY CardsAssumption DEF Closed, SomeCard
<1>2. NoCard \in SomeCard
  BY DEF SomeCard
<1>3. CASE LeftAccepted
  <2>1. PICK s \in left : (s.of # NoCard => s.of \in Open) /\ card' = Closed(s.of)
    BY <1>3 DEF LeftAccepted
  <2>2. s.of \in SomeCard /\ s.of \in Open \cup {NoCard}
    BY <2>1 DEF SomeCard
  <2>3. QED BY <1>1, <2>1, <2>2 DEF Left, store, messages
<1>4. CASE LeftShows
  BY <1>4 DEF LeftShows, Left, store, messages
<1>5. CASE LeftEnds
  BY <1>5 DEF LeftEnds, Left, store, messages
<1>6. CASE card' \in {card, Closed(NoCard)}
  BY <1>1, <1>2, <1>6 DEF Left, store, messages
<1>7. QED BY <1>3, <1>4, <1>5, <1>6 DEF Left

LEMMA MiddlewareTyped ==
  ASSUME ClientTypeOK, Middleware
  PROVE  ClientTypeOK'
<1> USE DEF ClientTypeOK, Server, store, messages
<1>1. ASSUME NEW i \in DOMAIN streams, Accept(i) PROVE ClientTypeOK'
  <2>1. card' \in [Cards -> {"none", "open", "saved", "skipped"}]
    BY <1>1 DEF Accept, Closed
  <2>2. streams' \in Seq(StreamType)
    BY <1>1, Positions, StreamUpdates, SetElements DEF Accept
  <2>3. QED BY <1>1, <2>1, <2>2 DEF Accept
<1>2. ASSUME NEW i \in DOMAIN streams, Conflict(i) PROVE ClientTypeOK'
  <2>1. streams' \in Seq(StreamType)
    BY <1>2, Positions, StreamUpdates, SetElements DEF Conflict
  <2>2. QED BY <1>2, <2>1 DEF Conflict
<1>3. ASSUME NEW i \in DOMAIN streams, ShowCardTool(i) PROVE ClientTypeOK'
  <2>1. PICK c \in Cards : card' = [card EXCEPT ![c] = "open"] /\ Set(i, [streams[i] EXCEPT !.coming = c])
    BY <1>3 DEF ShowCardTool
  <2>2. streams' \in Seq(StreamType)
    BY <2>1, Positions, StreamUpdates, SetElements DEF SomeCard
  <2>3. QED BY <1>3, <2>1, <2>2 DEF ShowCardTool
<1>4. ASSUME NEW i \in DOMAIN newChats, NewChatApplied(i) PROVE ClientTypeOK'
  <2>1. card' \in [Cards -> {"none", "open", "saved", "skipped"}]
    BY <1>4 DEF NewChatApplied, Closed
  <2>2. newChats' \in Seq({"sent", "applied"})
    BY <1>4 DEF NewChatApplied
  <2>3. QED BY <1>4, <2>1, <2>2 DEF NewChatApplied
<1>5. CASE Left
  BY <1>5, LeftMoves DEF Left
<1>6. QED BY <1>1, <1>2, <1>3, <1>4, <1>5 DEF Middleware

LEMMA AnswersTyped ==
  ASSUME ClientTypeOK, Answers
  PROVE  ClientTypeOK'
<1> USE DEF ClientTypeOK, Client, messages
<1>1. ASSUME NEW i \in DOMAIN streams, RunStarted(i) PROVE ClientTypeOK'
  <2>1. streams' \in Seq(StreamType)
    BY <1>1, Positions, StreamUpdates, SetElements DEF RunStarted
  <2>2. QED BY <1>1, <2>1 DEF RunStarted
<1>2. ASSUME NEW i \in DOMAIN streams, OnResponse(i) PROVE ClientTypeOK'
  BY <1>2 DEF OnResponse
<1>3. ASSUME NEW i \in DOMAIN streams, OnToolCall(i) PROVE ClientTypeOK'
  <2>1. streams' \in Seq(StreamType)
    BY <1>3, Positions, StreamUpdates, SetElements DEF OnToolCall, SomeCard
  <2>2. QED BY <1>3, <2>1 DEF OnToolCall
<1>4. ASSUME NEW i \in DOMAIN streams, OnDone(i) PROVE ClientTypeOK'
  BY <1>4, RemoveAtElements DEF OnDone
<1>5. ASSUME NEW i \in DOMAIN streams, Fail(i) PROVE ClientTypeOK'
  <2>1. shown' \in [Cards -> {"none", "open", "answered", "closed"}]
    BY <1>5 DEF Fail, Reopened
  <2>2. QED BY <1>5, <2>1, RemoveAtElements DEF Fail
<1>6. ASSUME NEW i \in DOMAIN newChats, NewChatAnswered(i) PROVE ClientTypeOK'
  BY <1>6, RemoveAtElements DEF NewChatAnswered
<1>7. QED BY <1>1, <1>2, <1>3, <1>4, <1>5, <1>6 DEF Answers, Stream

LEMMA ClientTypedStep ==
  ASSUME ClientTypeOK, [Next]_vars
  PROVE  ClientTypeOK'
<1>1. CASE SendMessage
  BY <1>1, StreamReplyTyped DEF SendMessage, SomeCard, ClientTypeOK
<1>2. ASSUME NEW c \in Cards, AnswerCard(c) PROVE ClientTypeOK'
  <2>1. shown' \in [Cards -> {"none", "open", "answered", "closed"}]
    BY <1>2 DEF AnswerCard, ClientTypeOK
  <2>2. QED BY <1>2, <2>1, StreamReplyTyped DEF AnswerCard, SomeCard
<1>3. CASE NewChat
  <2>1. newChats' \in Seq({"sent", "applied"})
    BY <1>3 DEF NewChat, ClientTypeOK
  <2>2. QED BY <1>3, <2>1 DEF NewChat, Reset, Empty, ClientTypeOK
<1>4. CASE Logout
  BY <1>4 DEF Logout, Reset, Empty, ClientTypeOK
<1>5. CASE Login \/ ClearError
  BY <1>5 DEF Login, ClearError, ClientTypeOK, store, messages
<1>6. CASE Reload
  <2>1. <<>> \in Seq(StreamType) /\ <<>> \in Seq({"sent", "applied"})
    OBVIOUS
  <2>2. streams' = <<>> /\ newChats' = <<>> /\ isLoading' = FALSE /\ UNCHANGED <<token, shown, card, sent, overlapped>>
    BY <1>6 DEF Reload, messages
  <2>3. QED BY <2>1, <2>2, Zenon DEF ClientTypeOK
<1>7. CASE UNCHANGED vars
  BY <1>7 DEF vars, ClientTypeOK, store, messages
<1>8. QED
  BY <1>1, <1>2, <1>3, <1>4, <1>5, <1>6, <1>7, MiddlewareTyped, AnswersTyped DEF Next, User

-----------------------------------------------------------------------------
(* CardsTellTheTruth: the inductive invariant.                             *)

\* What the middleware has done about the card a stream answers, and about the one it brings.
Good(s) ==
  /\ s.of \in Cards => card[s.of] # "none"
  /\ s.coming \in Cards => card[s.coming] # "none"
  /\ s.of \in Cards /\ s.at \in {"accepted", "running"} => card[s.of] = "saved"
  /\ s.started => s.at = "running"
  /\ s.at = "conflict" => s.of \in Cards /\ card[s.of] # "open"

StreamsGood == \A i \in DOMAIN streams : Good(streams[i])

\* A card on the screen exists; the answer of one that says so is saved or on its way, or the
\* page was reloaded before it was accepted.
CardsGood ==
  \A c \in Cards :
    /\ shown[c] # "none" => card[c] # "none"
    /\ shown[c] = "answered" =>
         card[c] = "saved" \/ c \in interrupted \/ \E i \in DOMAIN streams : streams[i].of = c
    /\ shown[c] = "closed" /\ ~overlapped => card[c] # "open"

\* Unless the messages were emptied under it, a request is alone and the input waits for it.
OneAtATime ==
  ~overlapped => /\ Len(streams) + Len(newChats) <= 1
                 /\ Len(streams) + Len(newChats) > 0 => isLoading

\* A typed message that was accepted has closed every card that is still shown open.
TypedCloses ==
  ~overlapped =>
    \A i \in DOMAIN streams : streams[i].at = "accepted" /\ streams[i].of = NoCard =>
      \A c \in Cards : shown[c] = "open" => card[c] # "open"

IInv == StreamsGood /\ CardsGood /\ OneAtATime /\ TypedCloses

LEMMA GoodStays ==
  ASSUME CardMoves, NEW s, Good(s)
  PROVE  Good(s)'
  BY DEF CardMoves, Good

LEMMA MiddlewareMoves ==
  ASSUME ClientTypeOK, Middleware
  PROVE  CardMoves
<1> USE DEF ClientTypeOK, CardMoves, Open
<1>1. ASSUME NEW i \in DOMAIN streams, Accept(i) PROVE CardMoves
  BY <1>1, CardsAssumption DEF Accept, Closed
<1>2. ASSUME NEW i \in DOMAIN streams, Conflict(i) PROVE CardMoves
  BY <1>2 DEF Conflict
<1>3. ASSUME NEW i \in DOMAIN streams, ShowCardTool(i) PROVE CardMoves
  BY <1>3 DEF ShowCardTool
<1>4. ASSUME NEW i \in DOMAIN newChats, NewChatApplied(i) PROVE CardMoves
  BY <1>4, CardsAssumption DEF NewChatApplied, Closed
<1>5. QED BY <1>1, <1>2, <1>3, <1>4, LeftMoves DEF Middleware

\* A step that rewrites one stream keeps the streams good if the new one is.
LEMMA SetGood ==
  ASSUME ClientTypeOK, StreamsGood, CardMoves, NEW i \in DOMAIN streams, NEW s \in StreamType,
         Set(i, s), Good(s)'
  PROVE  StreamsGood'
<1>1. ASSUME NEW j \in DOMAIN streams' PROVE Good(streams[j])'
  <2>1. CASE j = i
    <3>1. streams'[j] = s
      BY <2>1, SetElements DEF ClientTypeOK
    <3>2. QED BY <3>1 DEF Good
  <2>2. CASE j # i
    <3>1. j \in DOMAIN streams /\ streams'[j] = streams[j]
      BY <2>2, SetElements DEF ClientTypeOK
    <3>2. QED BY <3>1 DEF StreamsGood, Good, CardMoves
  <2>3. QED BY <2>1, <2>2
<1>2. QED BY <1>1 DEF StreamsGood

LEMMA RemoveGood ==
  ASSUME ClientTypeOK, StreamsGood, UNCHANGED card, NEW i \in DOMAIN streams,
         streams' = RemoveAt(streams, i)
  PROVE  StreamsGood'
<1>1. ASSUME NEW j \in DOMAIN streams' PROVE Good(streams[j])'
  <2>1. PICK k \in DOMAIN streams : streams'[j] = streams[k]
    BY RemoveAtElements DEF ClientTypeOK
  <2>2. QED BY <2>1 DEF StreamsGood, Good
<1>2. QED BY <1>1 DEF StreamsGood

\* Alone: with one request on its way, two positions of streams are the same.
LEMMA Alone ==
  ASSUME ClientTypeOK, OneAtATime, ~overlapped
  PROVE  /\ \A i, j \in DOMAIN streams : i = j
         /\ streams # <<>> => newChats = <<>>
         /\ ~isLoading => streams = <<>> /\ newChats = <<>>
<1>1. Len(streams) \in Nat /\ Len(newChats) \in Nat /\ DOMAIN streams = 1..Len(streams)
  BY DEF ClientTypeOK
<1>2. Len(streams) = 0 => streams = <<>>
  BY DEF ClientTypeOK
<1>3. Len(newChats) = 0 => newChats = <<>>
  BY DEF ClientTypeOK
<1>4. streams # <<>> => Len(streams) # 0
  BY <1>2
<1>5. QED BY <1>1, <1>2, <1>3, <1>4 DEF OneAtATime

LEMMA CardsKept ==
  ASSUME ClientTypeOK, CardsGood, CardMoves, UNCHANGED <<shown, overlapped, interrupted>>,
         \A i \in DOMAIN streams : \E j \in DOMAIN streams' : streams'[j].of = streams[i].of
  PROVE  CardsGood'
<1> SUFFICES ASSUME NEW c \in Cards
             PROVE  /\ shown[c] # "none" => card'[c] # "none"
                    /\ shown[c] = "answered" =>
                         card'[c] = "saved" \/ c \in interrupted' \/ \E i \in DOMAIN streams' : streams'[i].of = c
                    /\ shown[c] = "closed" /\ ~overlapped => card'[c] # "open"
  BY DEF CardsGood
<1>1. \/ card'[c] = card[c]
      \/ card[c] = "none" /\ card'[c] = "open"
      \/ card[c] = "open" /\ card'[c] \in {"saved", "skipped"}
  BY DEF CardMoves
<1>2. /\ shown[c] # "none" => card[c] # "none"
      /\ shown[c] = "answered" => card[c] = "saved" \/ c \in interrupted \/ \E i \in DOMAIN streams : streams[i].of = c
      /\ shown[c] = "closed" /\ ~overlapped => card[c] # "open"
  BY DEF CardsGood
<1>3. QED BY <1>1, <1>2

\* A request is rewritten, not started or ended.
LEMMA SetKeeps ==
  ASSUME ClientTypeOK, OneAtATime, NEW i \in DOMAIN streams, NEW s \in StreamType, Set(i, s),
         s.of = streams[i].of, UNCHANGED <<newChats, isLoading, overlapped>>
  PROVE  /\ OneAtATime'
         /\ \A k \in DOMAIN streams : \E j \in DOMAIN streams' : streams'[j].of = streams[k].of
         /\ ~overlapped => \A j \in DOMAIN streams' : streams'[j] = s
<1>1. /\ Len(streams') = Len(streams) /\ DOMAIN streams' = DOMAIN streams /\ streams'[i] = s
      /\ \A j \in DOMAIN streams \ {i} : streams'[j] = streams[j]
  BY SetElements DEF ClientTypeOK
<1>2. OneAtATime'
  BY <1>1 DEF OneAtATime
<1>3. \A k \in DOMAIN streams : streams'[k].of = streams[k].of
  BY <1>1
<1>4. ~overlapped => \A j \in DOMAIN streams' : streams'[j] = s
  BY <1>1, Alone
<1>5. QED BY <1>1, <1>2, <1>3, <1>4

LEMMA AcceptKeeps ==
  ASSUME ClientTypeOK, IInv, NEW i \in DOMAIN streams, Accept(i)
  PROVE  IInv'
<1>0. PICK s \in StreamType : s = streams[i]
  BY Positions
<1>1. PICK t \in StreamType :
        /\ Set(i, t)
        /\ t.at = "accepted" /\ t.of = s.of /\ t.started = s.started /\ t.coming = s.coming
  <2>1. Set(i, [s EXCEPT !.at = "accepted"])
    BY <1>0, Zenon DEF Accept
  <2>2. /\ [s EXCEPT !.at = "accepted"] \in StreamType
        /\ [s EXCEPT !.at = "accepted"].at = "accepted"
        /\ [s EXCEPT !.at = "accepted"].of = s.of
        /\ [s EXCEPT !.at = "accepted"].started = s.started
        /\ [s EXCEPT !.at = "accepted"].coming = s.coming
    BY DEF StreamType
  <2>3. QED BY <2>1, <2>2, Zenon
<1>2. CardMoves
  BY MiddlewareMoves DEF Middleware
<1>3. s.at = "sent" /\ Good(s)
  BY <1>0 DEF Accept, IInv, StreamsGood
<1>4. s.of \in Cards => card'[s.of] = "saved"
  BY <1>0 DEF Accept, Closed
<1>5. s.coming \in Cards => card'[s.coming] # "none"
  BY <1>2, <1>3 DEF Good, CardMoves
<1>6. Good(t)'
  BY <1>1, <1>3, <1>4, <1>5 DEF Good, StreamType
<1>7. StreamsGood'
  BY <1>1, <1>2, <1>6, SetGood DEF IInv
<1>8. UNCHANGED <<newChats, isLoading, overlapped, shown, interrupted>>
  BY DEF Accept, Server, store, messages, tab
<1>9. OneAtATime' /\ CardsGood'
  BY <1>0, <1>1, <1>2, <1>8, SetKeeps, CardsKept DEF IInv
<1>10. TypedCloses'
  <2>1. s.of = NoCard => \A c \in Cards : card'[c] # "open"
    BY <1>0, CardsAssumption DEF Accept, Open, Closed, ClientTypeOK
  <2>2. ~overlapped => \A j \in DOMAIN streams' : streams'[j] = t
    BY <1>0, <1>1, <1>8, SetKeeps DEF IInv
  <2>3. QED BY <1>1, <1>8, <2>1, <2>2 DEF TypedCloses
<1>11. QED BY <1>7, <1>9, <1>10 DEF IInv

LEMMA ConflictKeeps ==
  ASSUME ClientTypeOK, IInv, NEW i \in DOMAIN streams, Conflict(i)
  PROVE  IInv'
<1>0. PICK s \in StreamType : s = streams[i]
  BY Positions
<1>1. PICK t \in StreamType :
        /\ Set(i, t)
        /\ t.at = "conflict" /\ t.of = s.of /\ t.started = s.started /\ t.coming = s.coming
  <2>1. Set(i, [s EXCEPT !.at = "conflict"])
    BY <1>0, Zenon DEF Conflict
  <2>2. /\ [s EXCEPT !.at = "conflict"] \in StreamType
        /\ [s EXCEPT !.at = "conflict"].at = "conflict"
        /\ [s EXCEPT !.at = "conflict"].of = s.of
        /\ [s EXCEPT !.at = "conflict"].started = s.started
        /\ [s EXCEPT !.at = "conflict"].coming = s.coming
    BY DEF StreamType
  <2>3. QED BY <2>1, <2>2, Zenon
<1>2. CardMoves
  BY MiddlewareMoves DEF Middleware
<1>3. s.at = "sent" /\ Good(s) /\ s.of # NoCard /\ UNCHANGED card
  BY <1>0 DEF Conflict, IInv, StreamsGood
<1>4. s.of \in Cards /\ card[s.of] # "open"
  BY <1>0, <1>1, <1>3 DEF Conflict, Open, StreamType, SomeCard
<1>6. Good(t)'
  BY <1>1, <1>3, <1>4 DEF Good, StreamType
<1>7. StreamsGood'
  BY <1>1, <1>2, <1>6, SetGood DEF IInv
<1>8. UNCHANGED <<newChats, isLoading, overlapped, shown, interrupted>>
  BY DEF Conflict, Server, store, messages, tab
<1>9. OneAtATime' /\ CardsGood'
  BY <1>0, <1>1, <1>2, <1>8, SetKeeps, CardsKept DEF IInv
<1>10. TypedCloses'
  <2>1. ~overlapped => \A j \in DOMAIN streams' : streams'[j] = t
    BY <1>0, <1>1, <1>8, SetKeeps DEF IInv
  <2>2. QED BY <1>1, <1>8, <2>1 DEF TypedCloses
<1>11. QED BY <1>7, <1>9, <1>10 DEF IInv

LEMMA ShowCardKeeps ==
  ASSUME ClientTypeOK, IInv, NEW i \in DOMAIN streams, ShowCardTool(i)
  PROVE  IInv'
<1>s. PICK s \in StreamType : s = streams[i]
  BY Positions
<1>0. PICK c \in Cards : /\ card[c] = "none" /\ card' = [card EXCEPT ![c] = "open"]
                         /\ Set(i, [s EXCEPT !.coming = c])
  BY <1>s DEF ShowCardTool
<1>1. PICK t \in StreamType :
        /\ Set(i, t)
        /\ t.coming = c /\ t.of = s.of /\ t.started = s.started /\ t.at = s.at
  <2>1. /\ [s EXCEPT !.coming = c] \in StreamType
        /\ [s EXCEPT !.coming = c].coming = c /\ [s EXCEPT !.coming = c].of = s.of
        /\ [s EXCEPT !.coming = c].started = s.started
        /\ [s EXCEPT !.coming = c].at = s.at
    BY DEF StreamType, SomeCard
  <2>2. QED BY <1>0, <2>1, Zenon
<1>2. CardMoves
  BY MiddlewareMoves DEF Middleware
<1>3. Good(s)
  BY <1>s DEF IInv, StreamsGood
<1>4. card'[c] = "open" /\ \A x \in Cards \ {c} : card'[x] = card[x]
  BY <1>0 DEF ClientTypeOK
<1>6. Good(t)'
  <2>1. /\ s.of \in Cards => card'[s.of] # "none"
        /\ s.of \in Cards /\ s.at \in {"accepted", "running"} => card'[s.of] = "saved"
        /\ s.started => s.at = "running"
        /\ s.at = "conflict" => s.of \in Cards /\ card'[s.of] # "open"
    BY <1>2, <1>3 DEF Good, CardMoves
  <2>2. QED BY <1>1, <1>4, <2>1 DEF Good
<1>7. StreamsGood'
  BY <1>1, <1>2, <1>6, SetGood DEF IInv
<1>8. UNCHANGED <<newChats, isLoading, overlapped, shown, interrupted>>
  BY DEF ShowCardTool, Server, store, messages, tab
<1>9. OneAtATime' /\ CardsGood'
  BY <1>s, <1>1, <1>2, <1>8, SetKeeps, CardsKept DEF IInv
<1>10. TypedCloses'
  <2>1. ~overlapped => \A j \in DOMAIN streams' : streams'[j] = t
    BY <1>s, <1>1, <1>8, SetKeeps DEF IInv
  <2>2. ~overlapped /\ s.at = "accepted" /\ s.of = NoCard =>
          \A x \in Cards : shown[x] = "open" => card[x] # "open"
    BY <1>s DEF IInv, TypedCloses
  <2>3. shown[c] = "none"
    BY <1>0 DEF IInv, CardsGood
  <2>4. ~overlapped /\ s.at = "accepted" /\ s.of = NoCard =>
          \A x \in Cards : shown[x] = "open" => card'[x] # "open"
    BY <1>4, <2>2, <2>3
  <2>5. QED BY <1>1, <1>8, <2>1, <2>4 DEF TypedCloses
<1>11. QED BY <1>7, <1>9, <1>10 DEF IInv

LEMMA MiddlewareKeeps ==
  ASSUME ClientTypeOK, IInv, Middleware
  PROVE  IInv'
<1>1. ASSUME NEW i \in DOMAIN newChats, NewChatApplied(i) PROVE IInv'
  <2>1. CardMoves
    BY <1>1, MiddlewareMoves DEF Middleware
  <2>2. /\ UNCHANGED <<streams, shown, isLoading, overlapped, interrupted>>
        /\ Len(newChats') = Len(newChats)
        /\ \A c \in Cards : card'[c] = "open" => card[c] = "open"
    BY <1>1, CardsAssumption DEF NewChatApplied, Closed, store, messages, ClientTypeOK, Open, tab
  <2>3. StreamsGood'
    BY <2>1, <2>2 DEF IInv, StreamsGood, Good, CardMoves
  <2>4. CardsGood'
    BY <2>1, <2>2, CardsKept DEF IInv
  <2>5. OneAtATime' /\ TypedCloses'
    BY <2>2 DEF IInv, OneAtATime, TypedCloses
  <2>6. QED BY <2>3, <2>4, <2>5 DEF IInv
<1>2. CASE Left
  <2>1. CardMoves /\ UNCHANGED <<streams, newChats, shown, isLoading, overlapped, interrupted>>
    BY <1>2, LeftMoves
  <2>2. StreamsGood'
    BY <2>1 DEF IInv, StreamsGood, Good, CardMoves
  <2>3. CardsGood'
    BY <2>1, CardsKept DEF IInv
  <2>4. \A c \in Cards : shown[c] = "open" /\ card'[c] = "open" => card[c] = "open"
    BY <2>1 DEF IInv, CardsGood, CardMoves
  <2>5. OneAtATime' /\ TypedCloses'
    BY <2>1, <2>4 DEF IInv, OneAtATime, TypedCloses
  <2>6. QED BY <2>2, <2>3, <2>5 DEF IInv
<1>3. QED BY <1>1, <1>2, AcceptKeeps, ConflictKeeps, ShowCardKeeps DEF Middleware

\* A request sent while the input is free.
LEMMA StreamReplyKeeps ==
  ASSUME ClientTypeOK, IInv, ~isLoading, NEW of \in SomeCard, StreamReply(of),
         of \in Cards => card[of] # "none",
         \A c \in Cards : shown'[c] = shown[c] \/ (c = of /\ shown'[c] = "answered")
  PROVE  IInv'
<1>1. PICK s \in StreamType : /\ streams' = Append(streams, s)
                              /\ s.of = of /\ s.at = "sent" /\ ~s.started /\ s.coming = NoCard
  <2>1. [nr |-> sent, of |-> of, at |-> "sent", started |-> FALSE, coming |-> NoCard] \in StreamType
    BY DEF ClientTypeOK, StreamType, SomeCard
  <2>2. QED BY <2>1 DEF StreamReply
<1>2. UNCHANGED <<card, overlapped, newChats, interrupted>> /\ isLoading' = TRUE
  BY DEF StreamReply, tab
<1>3. /\ Len(streams') = Len(streams) + 1
      /\ \A j \in DOMAIN streams' : streams'[j] = s \/ (j \in DOMAIN streams /\ streams'[j] = streams[j])
      /\ \A j \in DOMAIN streams : j \in DOMAIN streams' /\ streams'[j] = streams[j]
      /\ Len(streams) + 1 \in DOMAIN streams' /\ streams'[Len(streams) + 1] = s
  <2>1. streams \in Seq(StreamType)
    BY DEF ClientTypeOK
  <2>2. /\ Len(Append(streams, s)) = Len(streams) + 1
        /\ \A j \in DOMAIN Append(streams, s) :
             Append(streams, s)[j] = s \/ (j \in DOMAIN streams /\ Append(streams, s)[j] = streams[j])
        /\ \A j \in DOMAIN streams :
             j \in DOMAIN Append(streams, s) /\ Append(streams, s)[j] = streams[j]
        /\ Len(streams) + 1 \in DOMAIN Append(streams, s) /\ Append(streams, s)[Len(streams) + 1] = s
    BY <2>1, AppendElements
  <2>3. QED BY <1>1, <2>2, Zenon
<1>4. ~overlapped => Len(streams) = 0 /\ Len(newChats) = 0 /\ DOMAIN streams = {}
  BY Alone DEF IInv
<1>5. StreamsGood'
  <2>1. ASSUME NEW j \in DOMAIN streams' PROVE Good(streams[j])'
    <3>1. CASE streams'[j] = s
      BY <1>1, <1>2, <3>1, CardsAssumption DEF Good
    <3>2. CASE j \in DOMAIN streams /\ streams'[j] = streams[j]
      BY <1>2, <3>2 DEF Good, IInv, StreamsGood
    <3>3. QED BY <1>3, <3>1, <3>2
  <2>2. QED BY <2>1 DEF StreamsGood
<1>6. CardsGood'
  <2> SUFFICES ASSUME NEW c \in Cards
               PROVE  /\ shown'[c] # "none" => card[c] # "none"
                      /\ shown'[c] = "answered" =>
                           card[c] = "saved" \/ c \in interrupted \/ \E k \in DOMAIN streams' : streams'[k].of = c
                      /\ shown'[c] = "closed" /\ ~overlapped => card[c] # "open"
    BY <1>2 DEF CardsGood
  <2>1. CASE shown'[c] = shown[c]
    BY <1>3, <2>1 DEF IInv, CardsGood
  <2>2. CASE c = of /\ shown'[c] = "answered"
    BY <1>1, <1>3, <2>2
  <2>3. QED BY <2>1, <2>2
<1>7. OneAtATime'
  BY <1>2, <1>3, <1>4 DEF OneAtATime
<1>8. TypedCloses'
  BY <1>1, <1>2, <1>3, <1>4 DEF TypedCloses
<1>9. QED BY <1>5, <1>6, <1>7, <1>8 DEF IInv

\* What is left when a request ends.
LEMMA RemoveKeeps ==
  ASSUME ClientTypeOK, IInv, NEW i \in DOMAIN streams, streams' = RemoveAt(streams, i),
         UNCHANGED <<card, overlapped, newChats>>
  PROVE  /\ StreamsGood' /\ OneAtATime' /\ TypedCloses'
         /\ \A k \in DOMAIN streams \ {i} : \E j \in DOMAIN streams' : streams'[j] = streams[k]
<1>1. /\ Len(streams') = Len(streams) - 1 /\ streams' \in Seq(StreamType)
      /\ \A k \in DOMAIN streams \ {i} : \E j \in DOMAIN streams' : streams'[j] = streams[k]
  BY RemoveAtElements DEF ClientTypeOK
<1>2. ~overlapped => Len(streams') = 0 /\ Len(newChats') = 0
  <2>1. Len(streams) \in Nat /\ Len(newChats) \in Nat /\ Len(streams) >= 1
    BY DEF ClientTypeOK
  <2>2. QED BY <1>1, <2>1 DEF IInv, OneAtATime
<1>3. ~overlapped => DOMAIN streams' = {}
  <2>1. DOMAIN streams' = 1..Len(streams')
    BY <1>1
  <2>2. 1..0 = {}
    OBVIOUS
  <2>3. QED BY <1>2, <2>1, <2>2, Zenon
<1>4. QED BY <1>1, <1>2, <1>3, RemoveGood DEF IInv, OneAtATime, TypedCloses

LEMMA RunStartedKeeps ==
  ASSUME ClientTypeOK, IInv, NEW i \in DOMAIN streams, RunStarted(i)
  PROVE  IInv'
<1>0. PICK s \in StreamType : s = streams[i]
  BY Positions
<1>1. PICK t \in StreamType :
        /\ Set(i, t)
        /\ t.at = "running" /\ t.started /\ t.of = s.of /\ t.coming = s.coming
  <2>1. Set(i, [s EXCEPT !.at = "running", !.started = TRUE])
    BY <1>0, Zenon DEF RunStarted
  <2>2. QED BY <2>1, StreamUpdates, Zenon
<1>2. /\ s.at = "accepted" /\ Good(s)
      /\ UNCHANGED <<card, newChats, overlapped, isLoading, interrupted>>
  BY <1>0 DEF RunStarted, Client, tab, IInv, StreamsGood
<1>3. \A c \in Cards : shown'[c] = IF s.of = NoCard /\ shown[c] = "open" THEN "closed" ELSE shown[c]
  BY <1>0 DEF RunStarted
<1>4. CardMoves
  BY <1>2 DEF CardMoves
<1>5. Good(t)'
  BY <1>1, <1>2 DEF Good
<1>6. StreamsGood'
  BY <1>1, <1>4, <1>5, SetGood DEF IInv
<1>7. /\ OneAtATime'
      /\ \A k \in DOMAIN streams : \E j \in DOMAIN streams' : streams'[j].of = streams[k].of
      /\ ~overlapped => \A j \in DOMAIN streams' : streams'[j] = t
  BY <1>0, <1>1, <1>2, SetKeeps DEF IInv
<1>8. TypedCloses'
  BY <1>1, <1>2, <1>7 DEF TypedCloses
<1>9. CardsGood'
  <2> SUFFICES ASSUME NEW c \in Cards
               PROVE  /\ shown'[c] # "none" => card[c] # "none"
                      /\ shown'[c] = "answered" =>
                           card[c] = "saved" \/ c \in interrupted \/ \E k \in DOMAIN streams' : streams'[k].of = c
                      /\ shown'[c] = "closed" /\ ~overlapped => card[c] # "open"
    BY <1>2 DEF CardsGood
  <2>1. CASE s.of = NoCard /\ shown[c] = "open"
    BY <1>0, <1>2, <1>3, <2>1 DEF IInv, CardsGood, TypedCloses
  <2>2. CASE shown'[c] = shown[c]
    BY <1>7, <2>2 DEF IInv, CardsGood
  <2>3. QED BY <1>3, <2>1, <2>2
<1>10. QED BY <1>6, <1>7, <1>8, <1>9 DEF IInv

LEMMA OnToolCallKeeps ==
  ASSUME ClientTypeOK, IInv, NEW i \in DOMAIN streams, OnToolCall(i)
  PROVE  IInv'
<1>0. PICK s \in StreamType : s = streams[i]
  BY Positions
<1>1. PICK t \in StreamType :
        /\ Set(i, t)
        /\ t.coming = NoCard /\ t.of = s.of /\ t.started = s.started /\ t.at = s.at
  <2>1. Set(i, [s EXCEPT !.coming = NoCard])
    BY <1>0, Zenon DEF OnToolCall
  <2>2. /\ [s EXCEPT !.coming = NoCard] \in StreamType
        /\ [s EXCEPT !.coming = NoCard].coming = NoCard /\ [s EXCEPT !.coming = NoCard].of = s.of
        /\ [s EXCEPT !.coming = NoCard].started = s.started
        /\ [s EXCEPT !.coming = NoCard].at = s.at
    BY DEF StreamType, SomeCard
  <2>3. QED BY <2>1, <2>2, Zenon
<1>2. /\ s.at = "running" /\ Good(s) /\ s.coming \in Cards
      /\ UNCHANGED <<card, newChats, overlapped, isLoading, interrupted>>
  BY <1>0 DEF OnToolCall, Client, tab, IInv, StreamsGood, StreamType, SomeCard
<1>3. shown'[s.coming] = "open" /\ \A c \in Cards \ {s.coming} : shown'[c] = shown[c]
  BY <1>0, <1>2 DEF OnToolCall, ClientTypeOK
<1>4. CardMoves
  BY <1>2 DEF CardMoves
<1>5. Good(t)'
  BY <1>1, <1>2, CardsAssumption DEF Good
<1>6. StreamsGood'
  BY <1>1, <1>4, <1>5, SetGood DEF IInv
<1>7. /\ OneAtATime'
      /\ \A k \in DOMAIN streams : \E j \in DOMAIN streams' : streams'[j].of = streams[k].of
      /\ ~overlapped => \A j \in DOMAIN streams' : streams'[j] = t
  BY <1>0, <1>1, <1>2, SetKeeps DEF IInv
<1>8. TypedCloses'
  BY <1>1, <1>2, <1>7 DEF TypedCloses
<1>9. CardsGood'
  <2> SUFFICES ASSUME NEW c \in Cards
               PROVE  /\ shown'[c] # "none" => card[c] # "none"
                      /\ shown'[c] = "answered" =>
                           card[c] = "saved" \/ c \in interrupted \/ \E k \in DOMAIN streams' : streams'[k].of = c
                      /\ shown'[c] = "closed" /\ ~overlapped => card[c] # "open"
    BY <1>2 DEF CardsGood
  <2>1. CASE c = s.coming
    BY <1>2, <1>3, <2>1 DEF Good
  <2>2. CASE c # s.coming
    BY <1>3, <1>7, <2>2 DEF IInv, CardsGood
  <2>3. QED BY <2>1, <2>2
<1>10. QED BY <1>6, <1>7, <1>8, <1>9 DEF IInv

\* A stream that ends leaves an answered card only if its answer was saved.
LEMMA EndKeeps ==
  ASSUME ClientTypeOK, IInv, NEW i \in DOMAIN streams, OnDone(i) \/ Fail(i)
  PROVE  IInv'
<1>0. PICK s \in StreamType : s = streams[i] /\ Good(s)
  BY Positions DEF IInv, StreamsGood
<1>1. streams' = RemoveAt(streams, i) /\ UNCHANGED <<card, newChats, overlapped, interrupted>>
  BY DEF OnDone, Fail, Client, tab
<1>2. /\ StreamsGood' /\ OneAtATime' /\ TypedCloses'
      /\ \A k \in DOMAIN streams \ {i} : \E j \in DOMAIN streams' : streams'[j] = streams[k]
  BY <1>1, RemoveKeeps
<1>3. ASSUME NEW c \in Cards
      PROVE  \/ shown'[c] = shown[c] /\ (c = s.of /\ shown[c] = "answered" => card[c] = "saved")
             \/ /\ c = s.of /\ shown[c] = "answered" /\ shown'[c] \in {"open", "closed"}
                /\ shown'[c] = "closed" => card[c] # "open"
  <2>1. CASE OnDone(i)
    BY <1>0, <2>1 DEF OnDone, Good
  <2>2. CASE Fail(i) /\ c = s.of /\ shown[c] = "answered"
    <3>1. shown'[c] = Reopened(s)
      BY <1>0, <2>2, CardsAssumption DEF Fail, ClientTypeOK
    <3>2. QED BY <1>0, <2>2, <3>1 DEF Reopened, Good
  <2>3. CASE Fail(i) /\ ~(c = s.of /\ shown[c] = "answered")
    BY <1>0, <2>3 DEF Fail, ClientTypeOK
  <2>4. QED BY <2>1, <2>2, <2>3
<1>4. CardsGood'
  <2> SUFFICES ASSUME NEW c \in Cards
               PROVE  /\ shown'[c] # "none" => card[c] # "none"
                      /\ shown'[c] = "answered" =>
                           card[c] = "saved" \/ c \in interrupted \/ \E k \in DOMAIN streams' : streams'[k].of = c
                      /\ shown'[c] = "closed" /\ ~overlapped => card[c] # "open"
    BY <1>1 DEF CardsGood
  <2>1. CASE shown'[c] = shown[c] /\ (c = s.of /\ shown[c] = "answered" => card[c] = "saved")
    <3>1. CASE shown[c] = "answered" /\ card[c] # "saved" /\ c \notin interrupted
      <4>1. PICK k \in DOMAIN streams : streams[k].of = c
        BY <3>1 DEF IInv, CardsGood
      <4>2. k # i
        BY <1>0, <2>1, <3>1, <4>1
      <4>3. QED BY <1>2, <2>1, <3>1, <4>1, <4>2 DEF IInv, CardsGood
    <3>2. CASE ~(shown[c] = "answered" /\ card[c] # "saved" /\ c \notin interrupted)
      BY <1>1, <2>1, <3>2 DEF IInv, CardsGood
    <3>3. QED BY <3>1, <3>2
  <2>2. CASE /\ c = s.of /\ shown[c] = "answered" /\ shown'[c] \in {"open", "closed"}
             /\ shown'[c] = "closed" => card[c] # "open"
    BY <2>2 DEF IInv, CardsGood
  <2>3. QED BY <1>3, <2>1, <2>2
<1>5. QED BY <1>2, <1>4 DEF IInv

LEMMA NewChatAnsweredKeeps ==
  ASSUME ClientTypeOK, IInv, NEW i \in DOMAIN newChats, NewChatAnswered(i)
  PROVE  IInv'
<1>1. /\ newChats' = RemoveAt(newChats, i) /\ UNCHANGED <<streams, card, shown, overlapped, interrupted>>
  BY DEF NewChatAnswered, messages, tab
<1>2. Len(newChats') = Len(newChats) - 1
  BY <1>1, RemoveAtElements DEF ClientTypeOK
<1>3. OneAtATime'
  <2>1. Len(streams) \in Nat /\ Len(newChats) \in Nat /\ Len(newChats) >= 1
    BY DEF ClientTypeOK
  <2>2. QED BY <1>1, <1>2, <2>1 DEF IInv, OneAtATime
<1>4. StreamsGood' /\ CardsGood' /\ TypedCloses'
  BY <1>1 DEF IInv, StreamsGood, Good, CardsGood, TypedCloses
<1>5. QED BY <1>3, <1>4 DEF IInv

\* The messages are emptied: no card is shown, and a request on its way is remembered.
LEMMA ResetKeeps ==
  ASSUME ClientTypeOK, IInv, NewChat \/ Logout
  PROVE  IInv'
<1>1. /\ UNCHANGED <<streams, card>> /\ \A c \in Cards : shown'[c] = "none"
      /\ overlapped' = (overlapped \/ streams # <<>> \/ newChats # <<>>)
  BY DEF NewChat, Logout, Reset, Empty
<1>2. ~overlapped' => Len(streams) = 0 /\ Len(newChats) = 0
  BY <1>1 DEF ClientTypeOK
<1>3. OneAtATime'
  <2>1. CASE NewChat
    <3>1. Len(newChats') = Len(newChats) + 1 /\ isLoading' = TRUE
      BY <2>1 DEF NewChat, ClientTypeOK
    <3>2. QED BY <1>1, <1>2, <3>1 DEF OneAtATime
  <2>2. CASE Logout
    BY <1>1, <1>2, <2>2 DEF Logout, OneAtATime
  <2>3. QED BY <2>1, <2>2
<1>4. StreamsGood' /\ CardsGood' /\ TypedCloses'
  BY <1>1 DEF IInv, StreamsGood, Good, CardsGood, TypedCloses
<1>5. QED BY <1>3, <1>4 DEF IInv

\* The page is reloaded: what is on its way is forgotten, and an answer that was not accepted yet
\* is remembered.
LEMMA ReloadKeeps ==
  ASSUME ClientTypeOK, IInv, Reload
  PROVE  IInv'
<1>1. /\ streams' = <<>> /\ newChats' = <<>> /\ UNCHANGED <<card, shown, overlapped>>
      /\ interrupted' = interrupted \cup {s.of : s \in {t \in ToSet(streams) : t.at \in {"sent", "conflict"}}}
  BY DEF Reload, messages
<1>2. Len(streams') = 0 /\ Len(newChats') = 0 /\ DOMAIN streams' = {}
  BY <1>1
<1>3. ASSUME NEW i \in DOMAIN streams PROVE streams[i].of \in Cards => card[streams[i].of] = "saved" \/ streams[i].of \in interrupted'
  <2>1. streams[i] \in ToSet(streams) /\ streams[i] \in StreamType /\ Good(streams[i])
    BY Positions DEF ToSet, IInv, StreamsGood
  <2>2. CASE streams[i].at \in {"sent", "conflict"}
    BY <1>1, <2>1, <2>2
  <2>3. CASE streams[i].at \in {"accepted", "running"}
    BY <2>1, <2>3 DEF Good
  <2>4. QED BY <2>1, <2>2, <2>3 DEF StreamType
<1>4. CardsGood'
  <2> SUFFICES ASSUME NEW c \in Cards
               PROVE  /\ shown[c] # "none" => card[c] # "none"
                      /\ shown[c] = "answered" => card[c] = "saved" \/ c \in interrupted'
                      /\ shown[c] = "closed" /\ ~overlapped => card[c] # "open"
    BY <1>1 DEF CardsGood
  <2>1. interrupted \subseteq interrupted'
    BY <1>1
  <2>2. QED BY <1>3, <2>1 DEF IInv, CardsGood
<1>5. StreamsGood' /\ OneAtATime' /\ TypedCloses'
  BY <1>2 DEF StreamsGood, OneAtATime, TypedCloses
<1>6. QED BY <1>4, <1>5 DEF IInv

\* Nothing the invariant speaks of moves.
LEMMA OthersKeep ==
  ASSUME IInv, UNCHANGED <<shown, card, streams, newChats, isLoading, overlapped, interrupted>>
  PROVE  IInv'
  BY DEF IInv, StreamsGood, Good, CardsGood, OneAtATime, TypedCloses

LEMMA IInvStep ==
  ASSUME ClientTypeOK, IInv, [Next]_vars
  PROVE  IInv'
<1>1. CASE SendMessage
  <2>1. ~isLoading /\ StreamReply(NoCard) /\ UNCHANGED shown
    BY <1>1 DEF SendMessage
  <2>2. NoCard \in SomeCard /\ NoCard \notin Cards
    BY CardsAssumption DEF SomeCard
  <2>3. \A x \in Cards : shown'[x] = shown[x]
    BY <2>1
  <2>4. QED BY <2>1, <2>2, <2>3, StreamReplyKeeps
<1>2. ASSUME NEW c \in Cards, AnswerCard(c) PROVE IInv'
  <2>1. card[c] # "none"
    BY <1>2 DEF AnswerCard, IInv, CardsGood
  <2>2. \A x \in Cards : shown'[x] = shown[x] \/ (x = c /\ shown'[x] = "answered")
    <3>1. shown' = [shown EXCEPT ![c] = "answered"]
      BY <1>2 DEF AnswerCard
    <3>2. QED BY <3>1 DEF ClientTypeOK
  <2>3. ~isLoading /\ StreamReply(c)
    BY <1>2 DEF AnswerCard
  <2>4. c \in SomeCard
    BY DEF SomeCard
  <2>5. QED BY <2>1, <2>2, <2>3, <2>4, StreamReplyKeeps
<1>3. CASE Login \/ ClearError
  BY <1>3, OthersKeep DEF Login, ClearError, store, messages, tab
<1>4. ASSUME NEW i \in DOMAIN streams, Stream(i) PROVE IInv'
  <2>1. CASE OnResponse(i)
    BY <2>1, OthersKeep DEF OnResponse, Client, tab
  <2>2. QED BY <1>4, <2>1, RunStartedKeeps, OnToolCallKeeps, EndKeeps DEF Stream
<1>5. CASE UNCHANGED vars
  BY <1>5, OthersKeep DEF vars, store, messages, tab
<1>6. QED
  BY <1>1, <1>2, <1>3, <1>4, <1>5, ResetKeeps, ReloadKeeps, MiddlewareKeeps, NewChatAnsweredKeeps
  DEF Next, User, Answers

\* However many messages, answers, new chats, sign-outs and reloads overlap and fail: a card that
\* says its answer is saved is saved, unless the page was reloaded before that answer was accepted,
\* and one that is closed takes no answer, unless the messages were emptied under a request.
THEOREM CardsTruthful == Spec => []CardsTellTheTruth
<1>1. Init => ClientTypeOK /\ IInv
  <2> SUFFICES ASSUME Init PROVE ClientTypeOK /\ IInv
    OBVIOUS
  <2>1. Len(streams) = 0 /\ Len(newChats) = 0 /\ DOMAIN streams = {}
    BY DEF Init
  <2>2. ClientTypeOK
    <3>1. streams \in Seq(StreamType) /\ newChats \in Seq({"sent", "applied"}) /\ sent \in Nat
      BY DEF Init
    <3>2. QED BY <3>1, Zenon DEF Init, ClientTypeOK
  <2>3. QED BY <2>1, <2>2 DEF Init, IInv, StreamsGood, CardsGood, OneAtATime, TypedCloses
<1>2. ClientTypeOK /\ IInv /\ [Next]_vars => ClientTypeOK' /\ IInv'
  BY ClientTypedStep, IInvStep
<1>3. IInv => CardsTellTheTruth
  <2> SUFFICES ASSUME IInv, NEW c \in Cards
               PROVE  /\ shown[c] = "answered" /\ c \notin Awaited \cup interrupted => card[c] = "saved"
                      /\ shown[c] = "closed" /\ ~overlapped => card[c] # "open"
    BY DEF CardsTellTheTruth
  <2>1. \A i \in DOMAIN streams : streams[i].of \in Awaited
    BY DEF Awaited, ToSet
  <2>2. QED BY <2>1 DEF IInv, CardsGood
<1>4. QED BY <1>1, <1>2, <1>3, PTL DEF Spec

=============================================================================
