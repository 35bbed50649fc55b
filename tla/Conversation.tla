---------------------------- MODULE Conversation ----------------------------
(***************************************************************************)
(* The chat of one user: POST /chat/stream, /chat/new and the close and    *)
(* delete endpoints of routes/llm.py over services/conversation_service.py.*)
(*                                                                         *)
(* handle_chat_stream is an async function that awaits nothing between the *)
(* lookup of the conversation and the read of the context the model gets,  *)
(* and neither does its generator between an insert and the commit, so     *)
(* within ONE instance of the service such a stretch is not interrupted;   *)
(* requests that Cloud Run routes to DIFFERENT instances interleave at     *)
(* every statement.  The database runs at READ COMMITTED.                  *)
(***************************************************************************)
EXTENDS Integers, Sequences, FiniteSets

CONSTANTS
    Requests,       \* POST /chat/stream calls, each made once
    Instances,      \* processes of the service
    InstanceOf,     \* the instance a request is routed to
    MaxRounds,      \* MAX_TOOL_CALL_ROUNDS
    Window,         \* CHAT_CONTEXT_WINDOW_SIZE
    Shapes,         \* the tool lists a model reply may ask for
    Endpoints,      \* which of "closed", "deleted" clients ask for
    MaxNewChats,    \* bound on POST /chat/new
    NoCall          \* no tool call

Tools == {"card", "server"}

ASSUME RequestsAssumption == InstanceOf \in [Requests -> Instances]
ASSUME BoundsAssumption ==
    /\ MaxRounds \in Nat \ {0} /\ Window \in Nat \ {0} /\ MaxNewChats \in Nat
    /\ Shapes \subseteq Seq(Tools) \ {<<>>}
    /\ Endpoints \subseteq {"closed", "deleted"}

(***************************************************************************)
(* A tool call is named by the request and round it was asked in, and its  *)
(* place among the calls of that round.                                    *)
(***************************************************************************)
Call == [by : Requests, round : 1..MaxRounds, place : Nat, tool : Tools]
ASSUME NoCallAssumption == NoCall \notin Call

(***************************************************************************)
(* A stored message: a user text, an assistant text, an assistant message  *)
(* with tool calls, or the result of the call "of", which is a submitted   *)
(* card ("saved"), {"answered_in_text": true} ("skipped") or what a tool   *)
(* returned ("result").                                                    *)
(***************************************************************************)
ResultKinds == {"saved", "skipped", "result"}
Message == [kind : {"user", "text", "calls"} \cup ResultKinds,
            calls : Seq(Call), of : Call \cup {NoCall}]
UserText == [kind |-> "user", calls |-> <<>>, of |-> NoCall]
AssistantText == [kind |-> "text", calls |-> <<>>, of |-> NoCall]
Asking(ks) == [kind |-> "calls", calls |-> ks, of |-> NoCall]
ResultOf(k, kind) == [kind |-> kind, calls |-> <<>>, of |-> k]

VARIABLES
    conv,        \* the conversation request r created: none, in_progress, closed
    log,         \* its committed messages in created_at order
    pc,          \* where each request is
    cv,          \* the conversation a request talks in
    asks,        \* the card a request answers, NoCall for a typed message
    writes,      \* messages a request inserts in its open transaction
    after,       \* where it goes once they are committed
    messages,    \* the messages a request sends to the model
    round,       \* round_num
    todo,        \* calls of this round still to be run
    shown,       \* the card this round shows
    delivered,   \* cards the client has received
    newChats,    \* POST /chat/new calls so far
    promised,    \* what the close and delete endpoints answered for a conversation
    \* history
    sender,      \* the request each message of a log came from
    late,        \* <<r, i>>: a new chat on instance i closed r's conversation before r's commit
    together,    \* pairs of requests that were between lookup and commit at the same time
    overlapped   \* conversations two requests were in at the same time

tables == <<conv, log, sender, late>>
streamVars == <<messages, round, todo, shown>>
requestVars == <<cv, asks, together, overlapped>>
clientVars == <<delivered, newChats, promised>>
vars == <<tables, pc, writes, after, streamVars, requestVars, clientVars>>

InHandler == {"flush", "commit", "open"}        \* no await in these
Live == InHandler \cup {"streaming", "tools"}
Ended == {"done", "refused"}

TypeOK ==
    /\ conv \in [Requests -> {"none", "in_progress", "closed"}]
    /\ log \in [Requests -> Seq(Message)]
    /\ pc \in [Requests -> {"new"} \cup Live \cup Ended]
    /\ cv \in [Requests -> Requests]
    /\ asks \in [Requests -> Call \cup {NoCall}]
    /\ writes \in [Requests -> Seq(Message)]
    /\ after \in [Requests -> {"open", "tools", "done"}]
    /\ messages \in [Requests -> Seq(Message)]
    /\ round \in [Requests -> 0..MaxRounds]
    /\ todo \in [Requests -> Seq(Call)]
    /\ shown \in [Requests -> Call \cup {NoCall}]
    /\ delivered \subseteq Call
    /\ newChats \in 0..MaxNewChats
    /\ promised \in [Requests -> {"none", "closed", "deleted"}]
    /\ sender \in [Requests -> Seq(Requests)]
    /\ late \subseteq Requests \X Instances
    /\ together \subseteq SUBSET Requests
    /\ overlapped \subseteq Requests

Init ==
    /\ conv = [r \in Requests |-> "none"]
    /\ log = [r \in Requests |-> <<>>]
    /\ pc = [r \in Requests |-> "new"]
    /\ cv = [r \in Requests |-> r]
    /\ asks = [r \in Requests |-> NoCall]
    /\ writes = [r \in Requests |-> <<>>]
    /\ after = [r \in Requests |-> "open"]
    /\ messages = [r \in Requests |-> <<>>]
    /\ round = [r \in Requests |-> 0]
    /\ todo = [r \in Requests |-> <<>>]
    /\ shown = [r \in Requests |-> NoCall]
    /\ delivered = {}
    /\ newChats = 0
    /\ promised = [r \in Requests |-> "none"]
    /\ sender = [r \in Requests |-> <<>>]
    /\ late = {}
    /\ together = {}
    /\ overlapped = {}

-----------------------------------------------------------------------------
(***************************************************************************)
(* Reading the context.                                                    *)
(***************************************************************************)
Elements(s) == {s[i] : i \in DOMAIN s}

\* The elements of s that are not in X, in their order.
Unless(s, X) ==
    LET f[i \in 0..Len(s)] ==
            IF i = 0 THEN <<>> ELSE IF s[i] \in X THEN f[i - 1] ELSE Append(f[i - 1], s[i])
    IN  f[Len(s)]

\* The last Window messages, oldest first.
Recent(s) == SubSeq(s, IF Len(s) > Window THEN Len(s) - Window + 1 ELSE 1, Len(s))

\* Mutant of Unanswered: every call of the latest message counts as open.
UnansweredForgetsResults(context) ==
    LET stops == {i \in DOMAIN context : context[i].kind \in {"user", "calls"}}
    IN  IF stops = {} THEN <<>>
        ELSE context[CHOOSE i \in stops : \A j \in stops : j <= i].calls

\* Calls without a result of the latest assistant message that has calls,
\* unless the user wrote something since.
Unanswered(context) ==
    LET stops == {i \in DOMAIN context : context[i].kind \in {"user", "calls"}}
        last == CHOOSE i \in stops : \A j \in stops : j <= i
        answered == {context[j].of : j \in {j \in DOMAIN context : j > last}}
    IN  IF stops = {} THEN <<>>
        ELSE Unless(context[last].calls, answered)

\* Mutant of Lookup: every request creates a conversation.
LookupCreates(r) == {r}

\* The conversations the lookup may return: any in-progress one, or a new
\* one when there is none.
Lookup(r) ==
    LET found == {c \in Requests : conv[c] = "in_progress"}
    IN  IF found = {} THEN {r} ELSE found

\* Mutant of Replies: the request's own message goes in first.
RepliesAfterwards(open, k) ==
    LET others == Unless(open, {k})
    IN  <<IF k = NoCall THEN UserText ELSE ResultOf(k, "saved")>>
        \o [i \in DOMAIN others |-> ResultOf(others[i], "skipped")]

\* What a request inserts: a result for every open call it does not answer,
\* then its own message.
Replies(open, k) ==
    LET others == Unless(open, {k})
    IN  [i \in DOMAIN others |-> ResultOf(others[i], "skipped")]
        \o <<IF k = NoCall THEN UserText ELSE ResultOf(k, "saved")>>

\* No request of the instance is in a stretch without an await.
LoopFree(i) == \A r \in Requests : InstanceOf[r] = i => pc[r] \notin InHandler

\* An ended request keeps nothing: "refused" is an HTTP error, "done" the end
\* of the stream, whether finished, failed or cut.
End(r, how) ==
    /\ pc' = [pc EXCEPT ![r] = how]
    /\ cv' = [cv EXCEPT ![r] = r]
    /\ asks' = [asks EXCEPT ![r] = NoCall]
    /\ writes' = [writes EXCEPT ![r] = <<>>]
    /\ after' = [after EXCEPT ![r] = "open"]
    /\ messages' = [messages EXCEPT ![r] = <<>>]
    /\ round' = [round EXCEPT ![r] = 0]
    /\ todo' = [todo EXCEPT ![r] = <<>>]
    /\ shown' = [shown EXCEPT ![r] = NoCall]

\* The request inserts ms and, once they are committed, goes to step next.
Insert(r, ms, next) ==
    /\ pc' = [pc EXCEPT ![r] = "flush"]
    /\ writes' = [writes EXCEPT ![r] = ms]
    /\ after' = [after EXCEPT ![r] = next]

\* Between its lookup and the commit of what it was sent.
Looking(r) == pc[r] \in {"flush", "commit"} /\ after[r] = "open"

-----------------------------------------------------------------------------
(***************************************************************************)
(* The handler.                                                            *)
(***************************************************************************)

\* Lookup, context, open calls, and for a card answer the test that the card
\* is still open.
Ask(r) ==
    /\ pc[r] = "new"
    /\ LoopFree(InstanceOf[r])
    /\ \E c \in Lookup(r), k \in {NoCall} \cup delivered :
        LET open == Unanswered(Recent(log[c]))
        IN  /\ k = NoCall \/ k \in Elements(open)
            /\ cv' = [cv EXCEPT ![r] = c]
            /\ asks' = [asks EXCEPT ![r] = k]
            /\ Insert(r, Replies(open, k), "open")
            /\ together' = together \cup {{r, s} : s \in {s \in Requests : Looking(s)}}
            /\ overlapped' = overlapped \cup
                  {d \in {c} : \E s \in Requests : cv[s] = d /\ pc[s] \in Live}
    /\ UNCHANGED <<tables, streamVars, clientVars>>

\* 422 on an answer that does not validate, 409 on a card that is not open:
\* the transaction, with the conversation it may have created, is rolled back.
Refuse(r) ==
    /\ pc[r] = "new"
    /\ LoopFree(InstanceOf[r])
    /\ End(r, "refused")
    /\ UNCHANGED <<tables, together, overlapped, clientVars>>

Closed(r) == conv[cv[r]] = "closed"

\* Mutant of Flush: neither the check nor the trigger.
FlushUnchecked(r) ==
    /\ pc[r] = "flush"
    /\ pc' = [pc EXCEPT ![r] = "commit"]
    /\ UNCHANGED <<tables, writes, after, streamVars, requestVars, clientVars>>

\* add_message and the trigger of the messages table accept the rows ...
Flush(r) ==
    /\ pc[r] = "flush"
    /\ ~Closed(r)
    /\ pc' = [pc EXCEPT ![r] = "commit"]
    /\ UNCHANGED <<tables, writes, after, streamVars, requestVars, clientVars>>

\* ... unless the conversation is closed: 409 before the reply has started,
\* an exception that cuts the stream afterwards.
FlushRejected(r) ==
    /\ pc[r] = "flush"
    /\ Closed(r)
    /\ End(r, IF after[r] = "open" THEN "refused" ELSE "done")
    /\ UNCHANGED <<tables, together, overlapped, clientVars>>

Sent(r) == [sender EXCEPT ![cv[r]] = @ \o [i \in DOMAIN writes[r] |-> r]]

\* Mutant of Commit: the conversation is committed before the messages are added, and
\* what the user sent is left to the commit at the end of the reply.
CommitConversationOnly(r) ==
    /\ pc[r] = "commit"
    /\ log' = IF after[r] = "open" THEN log ELSE [log EXCEPT ![cv[r]] = @ \o writes[r]]
    /\ sender' = IF after[r] = "open" THEN sender ELSE Sent(r)
    /\ late' = {p \in late : p[1] # r}
    /\ conv' = [conv EXCEPT ![cv[r]] = IF @ = "none" THEN "in_progress" ELSE @]
    /\ IF after[r] = "done"
       THEN End(r, "done")
       ELSE /\ pc' = [pc EXCEPT ![r] = after[r]]
            /\ writes' = [writes EXCEPT ![r] = <<>>]
            /\ messages' = [messages EXCEPT ![r] = @ \o writes[r]]
            /\ UNCHANGED <<cv, asks, after, round, todo, shown>>
    /\ UNCHANGED <<together, overlapped, clientVars>>

Commit(r) ==
    /\ pc[r] = "commit"
    /\ log' = [log EXCEPT ![cv[r]] = @ \o writes[r]] /\ sender' = Sent(r)
    /\ late' = {p \in late : p[1] # r}
    /\ conv' = [conv EXCEPT ![cv[r]] = IF @ = "none" THEN "in_progress" ELSE @]
    /\ IF after[r] = "done"
       THEN End(r, "done")
       ELSE /\ pc' = [pc EXCEPT ![r] = after[r]]
            /\ writes' = [writes EXCEPT ![r] = <<>>]
            /\ messages' = [messages EXCEPT ![r] = @ \o writes[r]]
            /\ UNCHANGED <<cv, asks, after, round, todo, shown>>
    /\ UNCHANGED <<together, overlapped, clientVars>>

\* The context for the model is read in a new transaction; RUN_STARTED.
Open(r) ==
    /\ pc[r] = "open"
    /\ ~Closed(r)
    /\ pc' = [pc EXCEPT ![r] = "streaming"]
    /\ messages' = [messages EXCEPT ![r] = Recent(log[cv[r]])]
    /\ round' = [round EXCEPT ![r] = 1]
    /\ UNCHANGED <<tables, writes, after, todo, shown, requestVars, clientVars>>

OpenRejected(r) ==
    /\ pc[r] = "open"
    /\ Closed(r)
    /\ End(r, "refused")
    /\ UNCHANGED <<tables, together, overlapped, clientVars>>

-----------------------------------------------------------------------------
(***************************************************************************)
(* The generator.                                                          *)
(***************************************************************************)

\* The model answers with a text, which is stored and ends the reply.
ModelAnswers(r) ==
    /\ pc[r] = "streaming"
    /\ LoopFree(InstanceOf[r])
    /\ Insert(r, <<AssistantText>>, "done")
    /\ UNCHANGED <<tables, streamVars, requestVars, clientVars>>

\* The model answers with nothing.
ModelIsSilent(r) ==
    /\ pc[r] = "streaming"
    /\ LoopFree(InstanceOf[r])
    /\ End(r, "done")
    /\ UNCHANGED <<tables, together, overlapped, clientVars>>

\* The model asks for tools.
ModelCalls(r) ==
    /\ pc[r] = "streaming"
    /\ LoopFree(InstanceOf[r])
    /\ \E shape \in Shapes :
        LET ks == [i \in DOMAIN shape |->
                     [by |-> r, round |-> round[r], place |-> i, tool |-> shape[i]]]
        IN  /\ Insert(r, <<Asking(ks)>>, "tools")
            /\ todo' = [todo EXCEPT ![r] = ks]
    /\ UNCHANGED <<tables, messages, round, shown, requestVars, clientVars>>

\* The first card that can be shown waits for the user's click.
ShowCard(r) ==
    /\ pc[r] = "tools"
    /\ LoopFree(InstanceOf[r])
    /\ todo[r] # <<>>
    /\ Head(todo[r]).tool = "card"
    /\ shown[r] = NoCall
    /\ shown' = [shown EXCEPT ![r] = Head(todo[r])]
    /\ todo' = [todo EXCEPT ![r] = Tail(@)]
    /\ UNCHANGED <<tables, pc, writes, after, messages, round, requestVars, clientVars>>

\* Any other call gets its result, a card that cannot be shown an error.
RunTool(r) ==
    /\ pc[r] = "tools"
    /\ LoopFree(InstanceOf[r])
    /\ todo[r] # <<>>
    /\ Insert(r, <<ResultOf(Head(todo[r]), "result")>>, "tools")
    /\ todo' = [todo EXCEPT ![r] = Tail(@)]
    /\ UNCHANGED <<tables, messages, round, shown, requestVars, clientVars>>

\* Mutant of EndRound: one round too many.
EndRoundLate(r) ==
    /\ pc[r] = "tools"
    /\ LoopFree(InstanceOf[r])
    /\ todo[r] = <<>>
    /\ delivered' = delivered \cup ({shown[r]} \ {NoCall})
    /\ IF shown[r] # NoCall \/ round[r] > MaxRounds
       THEN End(r, "done")
       ELSE /\ pc' = [pc EXCEPT ![r] = "streaming"]
            /\ round' = [round EXCEPT ![r] = @ + 1]
            /\ UNCHANGED <<cv, asks, writes, after, messages, todo, shown>>
    /\ UNCHANGED <<tables, together, overlapped, newChats, promised>>

\* Mutant of EndRound: the last round does not end the reply.
EndRoundByCard(r) ==
    /\ pc[r] = "tools"
    /\ LoopFree(InstanceOf[r])
    /\ todo[r] = <<>>
    /\ delivered' = delivered \cup ({shown[r]} \ {NoCall})
    /\ IF shown[r] # NoCall
       THEN End(r, "done")
       ELSE /\ round[r] < MaxRounds
            /\ pc' = [pc EXCEPT ![r] = "streaming"]
            /\ round' = [round EXCEPT ![r] = @ + 1]
            /\ UNCHANGED <<cv, asks, writes, after, messages, todo, shown>>
    /\ UNCHANGED <<tables, together, overlapped, newChats, promised>>

\* A shown card is sent and ends the reply, as the last round does; otherwise
\* the model is asked again.
EndRound(r) ==
    /\ pc[r] = "tools"
    /\ LoopFree(InstanceOf[r])
    /\ todo[r] = <<>>
    /\ delivered' = delivered \cup ({shown[r]} \ {NoCall})
    /\ IF shown[r] # NoCall \/ round[r] = MaxRounds
       THEN End(r, "done")
       ELSE /\ pc' = [pc EXCEPT ![r] = "streaming"]
            /\ round' = [round EXCEPT ![r] = @ + 1]
            /\ UNCHANGED <<cv, asks, writes, after, messages, todo, shown>>
    /\ UNCHANGED <<tables, together, overlapped, newChats, promised>>

\* The model call fails: RUN_ERROR.
StreamFails(r) ==
    /\ pc[r] = "streaming"
    /\ LoopFree(InstanceOf[r])
    /\ End(r, "done")
    /\ UNCHANGED <<tables, together, overlapped, clientVars>>

\* The client goes away, which cancels the generator at an await, or the
\* instance stops, anywhere; what is not committed is rolled back.
Break(r) ==
    /\ pc[r] \in Live
    /\ End(r, "done")
    /\ UNCHANGED <<tables, together, overlapped, clientVars>>

-----------------------------------------------------------------------------
(***************************************************************************)
(* The other endpoints.                                                    *)
(***************************************************************************)

\* POST /chat/new closes every in-progress conversation it can see.
NewChat(i) ==
    /\ LoopFree(i)
    /\ newChats < MaxNewChats
    /\ newChats' = newChats + 1
    /\ conv' = [c \in Requests |-> IF conv[c] = "in_progress" THEN "closed" ELSE conv[c]]
    /\ late' = late \cup
          {<<r, i>> : r \in {r \in Requests : pc[r] = "commit" /\ conv[cv[r]] = "in_progress"}}
    /\ UNCHANGED <<log, sender, pc, writes, after, streamVars, requestVars, delivered, promised>>

\* POST /conversations/{id}/close and DELETE /conversations/{id} answer with
\* success.  Neither commits, and get_db rolls back when it closes the
\* session, so the tables stay as they are.  One such call is modelled.
CloseOrDelete(c) ==
    /\ conv[c] # "none"
    /\ \A other \in Requests : promised[other] = "none"
    /\ \E what \in Endpoints : promised' = [promised EXCEPT ![c] = what]
    /\ UNCHANGED <<tables, pc, writes, after, streamVars, requestVars, delivered, newChats>>

ServerStep(r) ==
    \/ Flush(r) \/ FlushRejected(r) \/ Commit(r) \/ Open(r) \/ OpenRejected(r)
    \/ ModelAnswers(r) \/ ModelIsSilent(r) \/ ModelCalls(r)
    \/ ShowCard(r) \/ RunTool(r) \/ EndRound(r) \/ StreamFails(r)

\* Every request has ended.
Finished ==
    /\ \A r \in Requests : pc[r] \in Ended
    /\ UNCHANGED vars

Next ==
    \/ \E r \in Requests : Ask(r) \/ Refuse(r) \/ ServerStep(r) \/ Break(r)
    \/ \E i \in Instances : NewChat(i)
    \/ \E c \in Requests : CloseOrDelete(c)
    \/ Finished

Spec == Init /\ [][Next]_vars

(***************************************************************************)
(* The event loop of an instance runs every handler and generator that is  *)
(* ready, and a model call answers or fails (LiteLLM's request timeout).   *)
(***************************************************************************)
FairSpec == Spec /\ \A r \in Requests : WF_vars(ServerStep(r))

-----------------------------------------------------------------------------
(***************************************************************************)
(* Safety.                                                                 *)
(***************************************************************************)

\* Two instances may each look, find nothing and store: only for requests that were between
\* lookup and commit at the same time, and never on one instance.
Raced(r, s) == InstanceOf[r] # InstanceOf[s] /\ {r, s} \in together

\* The lookup of the next request is not ambiguous (get_or_create_in_progress_conversation takes
\* the first): however requests and new chats interleave on however many instances, a second
\* conversation of the user is in progress only if the two were created by requests that raced.
OneConversation ==
    \A c, d \in Requests :
        c # d /\ conv[c] = "in_progress" /\ conv[d] = "in_progress" => Raced(c, d)

\* Answers that race each other, typed messages and late tool results leave a submitted card as
\* the only result of its call: a second submit is refused ("This card has already been
\* answered") and nothing answers the call again, unless the two messages come from requests
\* that raced, in which case both found it open.
AnsweredOnce ==
    \A c \in Requests : \A i, j \in DOMAIN log[c] :
        i # j /\ log[c][i].kind = "saved" /\ log[c][j].of = log[c][i].of =>
            Raced(sender[c][i], sender[c][j])

\* Nothing reopens a closed conversation, and a reply still being streamed when the user starts a
\* new chat adds nothing to it.  The trigger on the messages looks at the conversation as the
\* row is inserted, so one thing remains: what a request on ANOTHER instance had inserted before
\* the close it may commit after it, once.
NothingAfterClose ==
    [][\A c \in Requests : conv[c] = "closed" =>
        /\ conv'[c] = "closed"
        /\ log'[c] = log[c] \/ \E p \in late \ late' :
              pc[p[1]] = "commit" /\ cv[p[1]] = c /\ InstanceOf[p[1]] # p[2]]_vars

\* A well-formed dialogue.  Every call has exactly one result, right behind its message, and every
\* result its call before it.  The window may start behind a message that asks: then the results
\* of its calls, and only those at the very start of a full window, come without it.
WellAnswered(ms) ==
    /\ \A i \in DOMAIN ms : \A k \in Elements(ms[i].calls) :
        \E j \in DOMAIN ms :
            /\ ms[j].of = k
            /\ \A m \in i+1..j : ms[m].kind \in ResultKinds
            /\ \A m \in DOMAIN ms : ms[m].of = k => m = j
    /\ \A j \in DOMAIN ms : ms[j].of # NoCall =>
        \/ \E i \in 1..j-1 : ms[j].of \in Elements(ms[i].calls)
        \/ Len(ms) >= Window /\ \A m \in 1..j : ms[m].kind \in ResultKinds

\* What the model is sent is a well-formed dialogue, but for results whose call the window cut
\* off, whatever was cut off or failed before (a card nobody clicked, a reply broken between two
\* tools, a model error), in a conversation in which requests came one at a time: a second
\* request that comes while a tool runs adds a result of its own for the tool's call.
ContextComplete ==
    \A r \in Requests :
        pc[r] = "streaming" /\ cv[r] \notin overlapped => WellAnswered(messages[r])

\* Once a reply to a card answer has started, the answer is in the tables:
\* the client keeps it on the card whatever happens to the reply.
SavedBeforeReply ==
    \A r \in Requests :
        asks[r] # NoCall /\ pc[r] \in {"streaming", "tools"} =>
            ResultOf(asks[r], "saved") \in Elements(log[cv[r]])

\* What the endpoints answer is so: a conversation reported closed gets no more
\* messages ("Close a conversation. No new messages can be added to a closed
\* conversation."), one reported deleted is gone.
EndpointsKeepTheirWord ==
    [][\A c \in Requests :
        /\ promised[c] = "closed" => log'[c] = log[c]
        /\ promised[c] = "deleted" => conv'[c] = "none"]_vars

(***************************************************************************)
(* Liveness.                                                               *)
(***************************************************************************)

\* Every accepted request ends: the rounds of tool calls are bounded and no
\* combination of cards, tools and closed conversations leaves a stream open.
StreamsEnd == \A r \in Requests : pc[r] \in Live ~> pc[r] \in Ended

=============================================================================
