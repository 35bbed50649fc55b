------------------------- MODULE ConversationProofs -------------------------
(***************************************************************************)
(* Proofs about the chat of one user, for any number of requests, rounds   *)
(* of tool calls, cards, new chats and instances of the service.  Where    *)
(* two instances can break a promise the properties name the two requests  *)
(* that raced, or the insert a close on another instance did not see; on   *)
(* one instance there are none.                                            *)
(***************************************************************************)
EXTENDS Conversation, SequenceFacts, FiniteSetTheorems

-----------------------------------------------------------------------------
(* The operators on sequences.                                             *)

\* No element twice.
Distinct(s) == \A i, j \in DOMAIN s : s[i] = s[j] => i = j

\* The recursion of Unless has a solution.
LEMMA UnlessSteps ==
  ASSUME NEW S, NEW s \in Seq(S), NEW X
  PROVE  \E f : /\ f[0] = <<>> /\ Unless(s, X) = f[Len(s)]
                /\ \A i \in 1..Len(s) : f[i] = IF s[i] \in X THEN f[i - 1] ELSE Append(f[i - 1], s[i])
<1> DEFINE next(g, i) == IF i = 0 THEN <<>> ELSE IF s[i] \in X THEN g[i - 1] ELSE Append(g[i - 1], s[i])
           good(n) == \E g \in [0..n -> Seq(S)] : \A i \in 0..n : g[i] = next(g, i)
           bad == {n \in 0..Len(s) : ~good(n)}
<1>0. Len(s) \in Nat
  OBVIOUS
<1>1. bad = {}
  <2> SUFFICES ASSUME bad # {} PROVE FALSE
    OBVIOUS
  <2>1. PICK n \in bad : \A m \in bad : n <= m
    <3>1. bad \subseteq Nat
      OBVIOUS
    <3> HIDE DEF bad
    <3>2. QED BY <3>1, LeastElement
  <2>2. n \in 0..Len(s) /\ ~good(n)
    BY <2>1
  <2>3. n # 0
    <3>1. [i \in 0..0 |-> <<>>] \in [0..0 -> Seq(S)]
      OBVIOUS
    <3>2. \A i \in 0..0 : [j \in 0..0 |-> <<>>][i] = next([j \in 0..0 |-> <<>>], i)
      OBVIOUS
    <3> HIDE DEF next
    <3>3. good(0)
      BY <3>1, <3>2
    <3>4. QED BY <2>2, <3>3
  <2>4. n - 1 \in 0..Len(s) /\ n - 1 \notin bad
    <3> HIDE DEF bad, good
    <3>1. n \in 0..Len(s)
      BY <2>2
    <3>2. n - 1 \in 0..Len(s) /\ ~(n <= n - 1)
      BY ONLY <1>0, <2>3, <3>1
    <3>3. QED BY <2>1, <3>2
  <2>5. PICK g \in [0..(n - 1) -> Seq(S)] : \A i \in 0..(n - 1) : g[i] = next(g, i)
    BY <2>4
  <2> DEFINE last == IF s[n] \in X THEN g[n - 1] ELSE Append(g[n - 1], s[n])
             h == [i \in 0..n |-> IF i = n THEN last ELSE g[i]]
  <2>6. n \in 1..Len(s) /\ n - 1 \in 0..(n - 1)
    BY <1>0, <2>2, <2>3
  <2>7. last \in Seq(S)
    BY <2>5, <2>6
  <2>8. \A i \in 0..n : i # n => i \in 0..(n - 1)
    BY <2>6
  <2>9. h \in [0..n -> Seq(S)]
    <3> HIDE DEF last
    <3>1. QED BY <2>5, <2>7, <2>8
  <2>10. ASSUME NEW i \in 0..n PROVE h[i] = next(h, i)
    <3>1. CASE i = n
      <4>1. h[n] = last /\ h[n - 1] = g[n - 1] /\ n # 0
        BY <2>3, <2>6
      <4>2. QED BY <3>1, <4>1
    <3>2. CASE i # n /\ i = 0
      BY <2>5, <2>8, <3>2
    <3>3. CASE i # n /\ i # 0
      <4>1. i \in 0..(n - 1) /\ i - 1 \in 0..n /\ i - 1 # n
        BY <2>6, <2>8, <3>3
      <4>2. h[i] = g[i] /\ h[i - 1] = g[i - 1]
        BY <3>3, <4>1
      <4>3. g[i] = next(g, i)
        BY <2>5, <4>1
      <4>4. QED BY <3>3, <4>2, <4>3
    <3>4. QED BY <3>1, <3>2, <3>3
  <2>11. good(n)
    <3> HIDE DEF h, next
    <3>1. QED BY <2>9, <2>10
  <2>12. QED BY <2>2, <2>11
<1>2. PICK g \in [0..Len(s) -> Seq(S)] : \A i \in 0..Len(s) : g[i] = next(g, i)
  <2>1. Len(s) \in 0..Len(s)
    BY <1>0
  <2>2. good(Len(s))
    <3> HIDE DEF good
    <3>1. QED BY <1>1, <2>1
  <2>3. QED BY <2>2
<1> DEFINE all(f) == [i \in 0..Len(s) |-> IF i = 0 THEN <<>>
                        ELSE IF s[i] \in X THEN f[i - 1] ELSE Append(f[i - 1], s[i])]
           f == CHOOSE h : h = all(h)
<1>3. g = all(g)
  <2>1. DOMAIN g = 0..Len(s) /\ g = [i \in 0..Len(s) |-> g[i]]
    BY <1>2
  <2>2. \A i \in 0..Len(s) : g[i] = all(g)[i]
    BY <1>2
  <2>3. QED BY <2>1, <2>2
<1>4. f = all(f)
  BY <1>3
<1>5. Unless(s, X) = f[Len(s)]
  BY DEF Unless
<1> HIDE DEF f
<1>6. f[0] = <<>> /\ \A i \in 1..Len(s) : f[i] = IF s[i] \in X THEN f[i - 1] ELSE Append(f[i - 1], s[i])
  <2>1. \A i \in 0..Len(s) : f[i] = all(f)[i]
    BY <1>4
  <2>2. QED BY <1>0, <2>1
<1>7. QED BY <1>5, <1>6

LEMMA AppendAll ==
  ASSUME NEW S, NEW s \in Seq(S), NEW e \in S
  PROVE  /\ Append(s, e) \in Seq(S) /\ Elements(Append(s, e)) = Elements(s) \cup {e}
         /\ Distinct(s) /\ e \notin Elements(s) => Distinct(Append(s, e))
<1> DEFINE a == Append(s, e)
<1>1. /\ a \in Seq(S) /\ Len(a) = Len(s) + 1 /\ Len(s) \in Nat
      /\ \A j \in DOMAIN s : j \in DOMAIN a /\ a[j] = s[j]
      /\ Len(s) + 1 \in DOMAIN a /\ a[Len(s) + 1] = e
  BY AppendElements
<1>2. DOMAIN s = 1..Len(s) /\ DOMAIN a = 1..(Len(s) + 1)
  BY <1>1
<1> HIDE DEF a
<1>3. \A j \in DOMAIN a : j \in DOMAIN s \/ j = Len(s) + 1
  BY <1>1, <1>2
<1>4. Elements(a) = Elements(s) \cup {e}
  BY <1>1, <1>3 DEF Elements
<1>5. Distinct(s) /\ e \notin Elements(s) => Distinct(a)
  BY <1>1, <1>3 DEF Elements, Distinct
<1>6. QED BY <1>1, <1>4, <1>5 DEF a

\* Unless keeps exactly the elements that are not in the set, each as often as it was there.
LEMMA UnlessFacts ==
  ASSUME NEW S, NEW s \in Seq(S), NEW X
  PROVE  /\ Unless(s, X) \in Seq(S) /\ Elements(Unless(s, X)) = Elements(s) \ X
         /\ Distinct(s) => Distinct(Unless(s, X))
<1>1. PICK f : /\ f[0] = <<>> /\ Unless(s, X) = f[Len(s)]
               /\ \A i \in 1..Len(s) : f[i] = IF s[i] \in X THEN f[i - 1] ELSE Append(f[i - 1], s[i])
  BY UnlessSteps
<1> DEFINE upto(n) == {s[j] : j \in 1..n}
           good(n) == /\ f[n] \in Seq(S) /\ Elements(f[n]) = upto(n) \ X
                      /\ Distinct(s) => Distinct(f[n])
           bad == {n \in 0..Len(s) : ~good(n)}
<1>2. Len(s) \in Nat /\ DOMAIN s = 1..Len(s) /\ Len(s) \in 0..Len(s)
  OBVIOUS
<1>3. good(0)
  <2>1. <<>> \in Seq(S) /\ Elements(<<>>) = {} /\ upto(0) = {} /\ Distinct(<<>>)
    BY DEF Elements, Distinct
  <2>2. QED BY <1>1, <2>1
<1>4. ASSUME NEW n \in 1..Len(s), good(n - 1) PROVE good(n)
  <2>1. s[n] \in S /\ upto(n) = upto(n - 1) \cup {s[n]}
    <3>1. \A j \in 1..n : j \in 1..(n - 1) \/ j = n
      OBVIOUS
    <3>2. \A j \in 1..(n - 1) : j \in 1..n
      OBVIOUS
    <3>3. n \in 1..n
      OBVIOUS
    <3>4. upto(n) = upto(n - 1) \cup {s[n]}
      BY <3>1, <3>2, <3>3
    <3>5. QED BY <3>4
  <2>2. Distinct(s) => s[n] \notin upto(n - 1)
    <3>1. ASSUME Distinct(s), NEW j \in 1..(n - 1) PROVE s[n] # s[j]
      <4>1. j \in DOMAIN s /\ n \in DOMAIN s /\ j # n
        BY <1>2
      <4>2. QED BY <3>1, <4>1 DEF Distinct
    <3>2. QED BY <3>1
  <2>3. f[n] = IF s[n] \in X THEN f[n - 1] ELSE Append(f[n - 1], s[n])
    BY <1>1
  <2> HIDE DEF upto
  <2>4. CASE s[n] \in X
    BY <1>4, <2>1, <2>3, <2>4
  <2>5. CASE s[n] \notin X
    <3>1. /\ f[n] \in Seq(S) /\ Elements(f[n]) = Elements(f[n - 1]) \cup {s[n]}
          /\ Distinct(f[n - 1]) /\ s[n] \notin Elements(f[n - 1]) => Distinct(f[n])
      BY <1>4, <2>1, <2>3, <2>5, AppendAll
    <3>2. QED BY <1>4, <2>1, <2>2, <2>5, <3>1
  <2>6. QED BY <2>4, <2>5
<1>5. bad = {}
  <2> SUFFICES ASSUME bad # {} PROVE FALSE
    OBVIOUS
  <2> HIDE DEF good
  <2>1. PICK n \in bad : \A m \in bad : n <= m
    <3>1. bad \subseteq Nat
      OBVIOUS
    <3> HIDE DEF bad
    <3>2. QED BY <3>1, LeastElement
  <2>2. n \in 0..Len(s) /\ ~good(n)
    BY <2>1
  <2>3. n \in 1..Len(s)
    BY <1>3, <2>2
  <2>4. n - 1 \in 0..Len(s) /\ ~(n <= n - 1)
    BY ONLY <1>2, <2>3
  <2>5. good(n - 1)
    BY <2>1, <2>4
  <2>6. QED BY <1>4, <2>2, <2>3, <2>5
<1>6. good(Len(s))
  <2> HIDE DEF good
  <2>1. QED BY <1>2, <1>5
<1>7. Elements(s) = upto(Len(s))
  BY <1>2 DEF Elements
<1>8. QED BY <1>1, <1>6, <1>7

\* A set of places in a sequence has a last one.
LEMMA GreatestElement ==
  ASSUME NEW n \in Nat, NEW T, T \subseteq 1..n, T # {}
  PROVE  \E m \in T : \A k \in T : k <= m
<1> DEFINE back == {n - k : k \in T}
<1>1. back \subseteq Nat /\ back # {}
  <2>1. \A k \in T : k \in 1..n
    OBVIOUS
  <2>2. \A k \in 1..n : n - k \in Nat
    OBVIOUS
  <2>3. QED BY <2>1, <2>2
<1>2. PICK b \in back : \A c \in back : b <= c
  <2> HIDE DEF back
  <2>1. QED BY <1>1, LeastElement
<1>3. PICK m \in T : b = n - m
  BY <1>2
<1>4. ASSUME NEW k \in T PROVE k <= m
  <2>1. n - m <= n - k
    BY <1>2, <1>3
  <2>2. k \in Nat /\ m \in Nat
    OBVIOUS
  <2>3. QED BY <2>1, <2>2
<1>5. QED BY <1>4

\* The window is the end of the log.
LEMMA RecentFacts ==
  ASSUME NEW S, NEW s \in Seq(S)
  PROVE  \E n \in 1..(Len(s) + 1) :
           /\ Recent(s) = SubSeq(s, n, Len(s)) /\ Recent(s) \in Seq(S)
           /\ Len(Recent(s)) = Len(s) - n + 1
           /\ \A i \in DOMAIN Recent(s) : n + i - 1 \in DOMAIN s /\ Recent(s)[i] = s[n + i - 1]
           /\ s # <<>> => n <= Len(s)
           /\ n = 1 \/ n = Len(s) - Window + 1
<1> DEFINE n == IF Len(s) > Window THEN Len(s) - Window + 1 ELSE 1
           rest == SubSeq(s, n, Len(s))
<1>1. Len(s) \in Nat /\ Window \in Nat \ {0} /\ DOMAIN s = 1..Len(s)
  BY BoundsAssumption
<1>2. n \in 1..(Len(s) + 1) /\ (Len(s) # 0 => n <= Len(s)) /\ (n = 1 \/ n = Len(s) - Window + 1)
  BY <1>1
<1>3. Recent(s) = rest
  BY DEF Recent
<1> HIDE DEF n
<1>4. \A i \in n..Len(s) : s[i] \in S
  BY <1>1, <1>2
<1>5. /\ rest \in Seq(S) /\ Len(rest) = Len(s) - n + 1
      /\ \A i \in 1..(Len(s) - n + 1) : rest[i] = s[n + i - 1]
  BY <1>1, <1>2, <1>4, SubSeqProperties
<1> HIDE DEF rest
<1>6. ASSUME NEW i \in DOMAIN rest PROVE n + i - 1 \in DOMAIN s /\ rest[i] = s[n + i - 1]
  <2>1. i \in 1..(Len(s) - n + 1)
    BY <1>5
  <2>2. n + i - 1 \in 1..Len(s)
    BY <1>1, <1>2, <2>1
  <2>3. QED BY <1>1, <1>5, <2>1, <2>2
<1>7. s # <<>> => Len(s) # 0
  OBVIOUS
<1>8. QED BY <1>2, <1>3, <1>5, <1>6, <1>7 DEF rest

\* The open calls are those of the last message that asks, unless the user wrote since.
LEMMA UnansweredFacts ==
  ASSUME NEW context \in Seq(Message)
  PROVE  /\ Unanswered(context) \in Seq(Call)
         /\ \/ /\ Unanswered(context) = <<>>
               /\ \A j \in DOMAIN context : context[j].kind \notin {"user", "calls"}
            \/ \E last \in DOMAIN context :
                 /\ context[last].kind \in {"user", "calls"}
                 /\ \A j \in DOMAIN context : j > last => context[j].kind \notin {"user", "calls"}
                 /\ Elements(Unanswered(context)) =
                      Elements(context[last].calls) \ {context[j].of : j \in {j \in DOMAIN context : j > last}}
                 /\ Distinct(context[last].calls) => Distinct(Unanswered(context))
<1> DEFINE stops == {i \in DOMAIN context : context[i].kind \in {"user", "calls"}}
<1>1. CASE stops = {}
  BY <1>1 DEF Unanswered
<1>2. CASE stops # {}
  <2> DEFINE last == CHOOSE i \in stops : \A j \in stops : j <= i
             answered == {context[j].of : j \in {j \in DOMAIN context : j > last}}
  <2>1. DOMAIN context = 1..Len(context) /\ Len(context) \in Nat
    OBVIOUS
  <2>2. last \in stops /\ \A j \in stops : j <= last
    <3>1. stops \subseteq 1..Len(context)
      BY <2>1
    <3> HIDE DEF stops
    <3>2. \E i \in stops : \A j \in stops : j <= i
      BY <1>2, <2>1, <3>1, GreatestElement
    <3>3. QED BY <3>2
  <2>3. Unanswered(context) = Unless(context[last].calls, answered)
    BY <1>2 DEF Unanswered
  <2> HIDE DEF last
  <2>4. last \in DOMAIN context /\ context[last] \in Message
    BY <2>2
  <2>5. context[last].calls \in Seq(Call)
    BY <2>4 DEF Message
  <2>6. \A j \in DOMAIN context : j > last => context[j].kind \notin {"user", "calls"}
    <3> SUFFICES ASSUME NEW j \in DOMAIN context, j > last, j \in stops PROVE FALSE
      OBVIOUS
    <3>1. j <= last /\ j \in Nat /\ last \in Nat
      BY <2>1, <2>2
    <3>2. QED BY <3>1
  <2> HIDE DEF answered
  <2>7. /\ Unanswered(context) \in Seq(Call)
        /\ Elements(Unanswered(context)) = Elements(context[last].calls) \ answered
        /\ Distinct(context[last].calls) => Distinct(Unanswered(context))
    BY <2>3, <2>5, UnlessFacts
  <2>8. context[last].kind \in {"user", "calls"}
    BY <2>2
  <2>9. QED BY <2>4, <2>6, <2>7, <2>8 DEF answered
<1>3. QED BY <1>1, <1>2

\* What a request writes before its reply: a result of every open call but its own, then its
\* own message.
LEMMA RepliesFacts ==
  ASSUME NEW open \in Seq(Call), NEW k \in Call \cup {NoCall}
  PROVE  LET ms == Replies(open, k)
             own == IF k = NoCall THEN UserText ELSE ResultOf(k, "saved")
             others == Unless(open, {k})
         IN  /\ ms \in Seq(Message) /\ Len(ms) = Len(others) + 1 /\ Len(others) \in Nat
             /\ others \in Seq(Call) /\ ms[Len(ms)] = own
             /\ \A i \in DOMAIN others : ms[i] = ResultOf(others[i], "skipped")
<1> DEFINE others == Unless(open, {k})
           own == IF k = NoCall THEN UserText ELSE ResultOf(k, "saved")
           skips == [i \in DOMAIN others |-> ResultOf(others[i], "skipped")]
           ms == skips \o <<own>>
<1>1. others \in Seq(Call)
  BY UnlessFacts
<1>2. own \in Message
  BY DEF Message, UserText, ResultOf, ResultKinds
<1>3. Replies(open, k) = ms
  BY DEF Replies
<1> HIDE DEF others, own
<1>4. skips \in Seq(Message) /\ Len(skips) = Len(others) /\ DOMAIN skips = DOMAIN others
  <2>1. \A i \in DOMAIN others : ResultOf(others[i], "skipped") \in Message
    BY <1>1 DEF Message, ResultOf, ResultKinds
  <2>2. DOMAIN others = 1..Len(others) /\ Len(others) \in Nat
    BY <1>1
  <2>3. QED BY <2>1, <2>2
<1>5. \A i \in DOMAIN others : skips[i] = ResultOf(others[i], "skipped")
  OBVIOUS
<1> HIDE DEF skips
<1>6. /\ ms \in Seq(Message) /\ Len(ms) = Len(others) + 1 /\ Len(others) \in Nat /\ ms[Len(others) + 1] = own
      /\ \A i \in 1..Len(others) : ms[i] = skips[i]
  BY <1>1, <1>2, <1>4
<1>7. DOMAIN others = 1..Len(others)
  BY <1>1
<1> HIDE DEF ms
<1>8. QED BY <1>1, <1>3, <1>5, <1>6, <1>7 DEF others, own

-----------------------------------------------------------------------------
(* The control state.                                                      *)

Control ==
  /\ conv \in [Requests -> {"none", "in_progress", "closed"}]
  /\ DOMAIN log = Requests
  /\ pc \in [Requests -> {"new"} \cup Live \cup Ended]
  /\ cv \in [Requests -> Requests]
  /\ after \in [Requests -> {"open", "tools", "done"}]

\* An event loop runs one handler at a time between two awaits.
OneInHandler ==
  \A r, s \in Requests :
    pc[r] \in InHandler /\ pc[s] \in InHandler /\ InstanceOf[r] = InstanceOf[s] => r = s

\* Requests between lookup and commit know of each other.
Pairs == \A r, s \in Requests : r # s /\ Looking(r) /\ Looking(s) => {r, s} \in together

\* A reply that has started talks in a conversation that is stored.
Stored ==
  \A r \in Requests :
    \/ pc[r] \in {"open", "streaming", "tools"}
    \/ pc[r] \in {"flush", "commit"} /\ after[r] # "open"
    => conv[cv[r]] # "none"

\* A request that is about to store a new conversation found none in progress: what is in progress
\* by now was stored by requests that looked before that.
NoneInProgress ==
  \A r \in Requests :
    pc[r] \in {"flush", "commit"} /\ conv[cv[r]] = "none" =>
      cv[r] = r /\ \A c \in Requests : conv[c] = "in_progress" => Raced(r, c)

\* Between the check and the commit of a request only another instance closes its conversation.
CommitsOpen ==
  \A r \in Requests :
    pc[r] = "commit" /\ conv[cv[r]] = "closed" =>
      \E i \in Instances : <<r, i>> \in late /\ InstanceOf[r] # i

Exclusion == OneInHandler /\ Pairs /\ Stored /\ NoneInProgress /\ OneConversation /\ CommitsOpen

LEMMA RacedSym == ASSUME NEW r, NEW s, Raced(r, s) PROVE Raced(s, r)
<1>1. {r, s} = {s, r}
  OBVIOUS
<1>2. QED BY <1>1 DEF Raced

\* Who raced, has raced.
LEMMA RacedStays ==
  ASSUME together \subseteq together', NEW r, NEW s, Raced(r, s)
  PROVE  Raced(r, s)'
  BY DEF Raced

\* Two requests that look at the same time are on two instances, so they race.
LEMMA LookingRace ==
  ASSUME OneInHandler, Pairs, NEW r \in Requests, NEW s \in Requests, r # s, Looking(r), Looking(s)
  PROVE  Raced(r, s)
  BY DEF OneInHandler, Pairs, Looking, Raced, InHandler

LEMMA Routed == ASSUME NEW r \in Requests PROVE InstanceOf[r] \in Instances
  BY RequestsAssumption

LEMMA EndFields ==
  ASSUME Control, NEW r \in Requests, NEW how \in Ended, End(r, how)
  PROVE  /\ pc' \in [Requests -> {"new"} \cup Live \cup Ended] /\ pc'[r] = how
         /\ cv' \in [Requests -> Requests] /\ after' \in [Requests -> {"open", "tools", "done"}]
         /\ \A s \in Requests \ {r} : pc'[s] = pc[s] /\ cv'[s] = cv[s] /\ after'[s] = after[s]
  BY DEF Control, End

LEMMA InsertFields ==
  ASSUME Control, NEW r \in Requests, NEW ms, NEW next \in {"open", "tools", "done"},
         Insert(r, ms, next)
  PROVE  /\ pc' \in [Requests -> {"new"} \cup Live \cup Ended] /\ pc'[r] = "flush"
         /\ after' \in [Requests -> {"open", "tools", "done"}] /\ after'[r] = next
         /\ \A s \in Requests \ {r} : pc'[s] = pc[s] /\ after'[s] = after[s]
  BY DEF Control, Insert, Live, InHandler

\* A request goes on, the conversations stay as they are.
LEMMA StepKeeps ==
  ASSUME Control, Exclusion, NEW r \in Requests, UNCHANGED <<tables, together>>, Control',
         \A s \in Requests \ {r} : pc'[s] = pc[s] /\ cv'[s] = cv[s] /\ after'[s] = after[s],
         pc'[r] \in InHandler => pc[r] \in InHandler \/ LoopFree(InstanceOf[r]),
         pc'[r] \in {"flush", "commit"} =>
           cv'[r] = cv[r] /\ (conv[cv[r]] # "none" \/ pc[r] \in {"flush", "commit"}),
         Looking(r)' => Looking(r),
         (\/ pc'[r] \in {"open", "streaming", "tools"}
          \/ pc'[r] \in {"flush", "commit"} /\ after'[r] # "open") =>
           conv[cv'[r]] # "none",
         pc'[r] = "commit" => pc[r] = "flush" /\ conv[cv[r]] # "closed"
  PROVE  Exclusion'
<1>0. UNCHANGED <<conv, log, late, together>>
  BY DEF tables
<1>1. \A a, b : Raced(a, b)' <=> Raced(a, b)
  BY <1>0 DEF Raced
<1>2. OneInHandler'
  <2> SUFFICES ASSUME NEW a \in Requests, NEW b \in Requests, pc'[a] \in InHandler, pc'[b] \in InHandler,
                      InstanceOf[a] = InstanceOf[b], a # b
               PROVE  FALSE
    BY DEF OneInHandler
  <2>1. CASE a # r /\ b # r
    BY <2>1 DEF Exclusion, OneInHandler
  <2>2. CASE a = r
    BY <2>2 DEF Exclusion, OneInHandler, LoopFree
  <2>3. CASE b = r
    BY <2>3 DEF Exclusion, OneInHandler, LoopFree
  <2>4. QED BY <2>1, <2>2, <2>3
<1>3. Pairs'
  <2>1. \A s \in Requests : Looking(s)' => Looking(s)
    BY DEF Looking
  <2>2. QED BY <1>0, <2>1 DEF Exclusion, Pairs
<1>4. Stored'
  BY <1>0 DEF Exclusion, Stored
<1>5. NoneInProgress'
  BY <1>0, <1>1 DEF Exclusion, NoneInProgress
<1>6. OneConversation'
  BY <1>0, <1>1 DEF Exclusion, OneConversation
<1>7. CommitsOpen'
  BY <1>0 DEF Exclusion, CommitsOpen
<1>8. QED BY <1>2, <1>3, <1>4, <1>5, <1>6, <1>7 DEF Exclusion

\* A request ends.
LEMMA EndKeeps ==
  ASSUME Control, Exclusion, NEW r \in Requests, NEW how \in Ended, End(r, how),
         UNCHANGED <<tables, together>>
  PROVE  Control' /\ Exclusion'
<1>1. /\ pc' \in [Requests -> {"new"} \cup Live \cup Ended] /\ pc'[r] = how
      /\ cv' \in [Requests -> Requests] /\ after' \in [Requests -> {"open", "tools", "done"}]
      /\ \A s \in Requests \ {r} : pc'[s] = pc[s] /\ cv'[s] = cv[s] /\ after'[s] = after[s]
  BY EndFields
<1>2. Control'
  BY <1>1 DEF Control, tables
<1>3. pc'[r] \notin InHandler /\ pc'[r] \notin {"open", "streaming", "tools", "flush", "commit"}
      /\ ~Looking(r)'
  BY <1>1 DEF Ended, InHandler, Looking
<1>4. QED BY <1>1, <1>2, <1>3, StepKeeps

\* Nothing the invariant speaks of moves.
LEMMA OthersKeep ==
  ASSUME Control, Exclusion, UNCHANGED <<tables, pc, cv, after, together>>
  PROVE  Control' /\ Exclusion'
<1>1. \A a, b : Raced(a, b)' <=> Raced(a, b)
  BY DEF Raced
<1>2. \A a : Looking(a)' <=> Looking(a)
  BY DEF Looking
<1>3. QED
  BY <1>1, <1>2 DEF tables, Control, Exclusion, OneInHandler, Pairs, Stored, NoneInProgress,
                    OneConversation, CommitsOpen

\* The generator starts to write: it was alone on its instance, in a conversation that is stored.
LEMMA InsertKeeps ==
  ASSUME Control, Exclusion, NEW r \in Requests, NEW ms, NEW next \in {"tools", "done"},
         Insert(r, ms, next), pc[r] \in {"streaming", "tools"},
         LoopFree(InstanceOf[r]), UNCHANGED <<tables, together, cv>>
  PROVE  Control' /\ Exclusion'
<1>1. /\ pc' \in [Requests -> {"new"} \cup Live \cup Ended] /\ pc'[r] = "flush"
      /\ after' \in [Requests -> {"open", "tools", "done"}] /\ after'[r] = next
      /\ \A s \in Requests \ {r} : pc'[s] = pc[s] /\ after'[s] = after[s]
  BY InsertFields
<1>2. conv[cv[r]] # "none"
  BY DEF Exclusion, Stored
<1>3. Control'
  BY <1>1 DEF Control, tables
<1>4. ~Looking(r)'
  BY <1>1 DEF Looking
<1>5. QED BY <1>1, <1>2, <1>3, <1>4, StepKeeps

\* A request goes on within the loop's turn, or to another place that no guard looks at.
LEMMA MoveKeeps ==
  ASSUME Control, Exclusion, NEW r \in Requests, NEW to \in {"commit", "streaming"},
         pc' = [pc EXCEPT ![r] = to], UNCHANGED <<tables, together, cv, after>>,
         to = "commit" => pc[r] = "flush" /\ conv[cv[r]] # "closed",
         to = "streaming" => pc[r] \in {"open", "tools"}
  PROVE  Control' /\ Exclusion'
<1>1. /\ pc' \in [Requests -> {"new"} \cup Live \cup Ended] /\ pc'[r] = to
      /\ \A s \in Requests \ {r} : pc'[s] = pc[s]
  BY DEF Control, Live, InHandler
<1>2. Control'
  BY <1>1 DEF Control, tables
<1>3. pc'[r] \in InHandler => pc[r] \in InHandler
  BY <1>1 DEF InHandler
<1>4. Looking(r)' => Looking(r)
  BY <1>1 DEF Looking
<1>5. (\/ pc'[r] \in {"open", "streaming", "tools"}
       \/ pc'[r] \in {"flush", "commit"} /\ after'[r] # "open") => conv[cv'[r]] # "none"
  BY <1>1 DEF Exclusion, Stored
<1>6. QED BY <1>1, <1>2, <1>3, <1>4, <1>5, StepKeeps

LEMMA AskKeeps ==
  ASSUME Control, Exclusion, NEW r \in Requests, Ask(r)
  PROVE  Control' /\ Exclusion'
<1>1. PICK c \in Lookup(r) :
        /\ cv' = [cv EXCEPT ![r] = c] /\ \E ms : Insert(r, ms, "open")
        /\ together' = together \cup {{r, s} : s \in {s \in Requests : Looking(s)}}
  BY DEF Ask
<1>2. /\ pc' \in [Requests -> {"new"} \cup Live \cup Ended] /\ pc'[r] = "flush"
      /\ after' \in [Requests -> {"open", "tools", "done"}] /\ after'[r] = "open"
      /\ \A s \in Requests \ {r} : pc'[s] = pc[s] /\ after'[s] = after[s]
  BY <1>1, InsertFields
<1>3. /\ c \in Requests
      /\ conv[c] # "in_progress" => c = r /\ \A d \in Requests : conv[d] # "in_progress"
  BY <1>1 DEF Lookup
<1>4. /\ cv' \in [Requests -> Requests] /\ cv'[r] = c
      /\ \A s \in Requests \ {r} : cv'[s] = cv[s]
  BY <1>1, <1>3 DEF Control
<1>5. \A s \in Requests : InstanceOf[s] = InstanceOf[r] => pc[s] \notin InHandler
  BY DEF Ask, LoopFree
<1>6. UNCHANGED <<conv, log, late>>
  BY DEF Ask, tables
<1>7. Control'
  BY <1>2, <1>4, <1>6 DEF Control
<1>8. together \subseteq together'
  BY <1>1
<1>9. \A a, b : Raced(a, b) => Raced(a, b)'
  BY <1>8, RacedStays
<1>10. OneInHandler'
  BY <1>2, <1>5 DEF Exclusion, OneInHandler
<1>11. Pairs'
  <2> SUFFICES ASSUME NEW a \in Requests, NEW b \in Requests, a # b, Looking(a)', Looking(b)'
               PROVE  {a, b} \in together'
    BY DEF Pairs
  <2>1. \A s \in Requests \ {r} : Looking(s)' => Looking(s)
    BY <1>2 DEF Looking
  <2>2. CASE a # r /\ b # r
    BY <1>8, <2>1, <2>2 DEF Exclusion, Pairs
  <2>3. CASE a = r
    BY <1>1, <2>1, <2>3
  <2>4. CASE b = r
    <3>1. {a, b} = {r, a}
      BY <2>4
    <3>2. QED BY <1>1, <2>1, <2>4, <3>1
  <2>5. QED BY <2>2, <2>3, <2>4
<1>12. NoneInProgress'
  <2> SUFFICES ASSUME NEW s \in Requests, pc'[s] \in {"flush", "commit"}, conv[cv'[s]] = "none"
               PROVE  cv'[s] = s /\ \A d \in Requests : conv[d] = "in_progress" => Raced(s, d)'
    BY <1>6 DEF NoneInProgress
  <2>1. CASE s = r
    BY <1>3, <1>4, <2>1
  <2>2. CASE s # r
    BY <1>2, <1>4, <1>9, <2>2 DEF Exclusion, NoneInProgress
  <2>3. QED BY <2>1, <2>2
<1>13. OneConversation'
  BY <1>6, <1>9 DEF Exclusion, OneConversation
<1>14. Stored' /\ CommitsOpen'
  BY <1>2, <1>4, <1>6 DEF Exclusion, Stored, CommitsOpen
<1>15. QED BY <1>7, <1>10, <1>11, <1>12, <1>13, <1>14 DEF Exclusion

\* What a commit makes of its conversation.
LEMMA CommitConv ==
  ASSUME Control, NEW r \in Requests, Commit(r)
  PROVE  /\ conv' \in [Requests -> {"none", "in_progress", "closed"}] /\ DOMAIN log' = Requests
         /\ conv'[cv[r]] = IF conv[cv[r]] = "none" THEN "in_progress" ELSE conv[cv[r]]
         /\ \A c \in Requests \ {cv[r]} : conv'[c] = conv[c] /\ log'[c] = log[c]
  BY DEF Control, Commit

LEMMA CommitKeeps ==
  ASSUME Control, Exclusion, NEW r \in Requests, Commit(r)
  PROVE  Control' /\ Exclusion'
<1>1. /\ conv' \in [Requests -> {"none", "in_progress", "closed"}] /\ DOMAIN log' = Requests
      /\ conv'[cv[r]] = IF conv[cv[r]] = "none" THEN "in_progress" ELSE conv[cv[r]]
      /\ \A c \in Requests \ {cv[r]} : conv'[c] = conv[c] /\ log'[c] = log[c]
  BY CommitConv
<1>2. /\ pc[r] = "commit" /\ cv[r] \in Requests /\ together' = together
      /\ late' = {p \in late : p[1] # r}
  BY DEF Commit, Control
<1>3. /\ pc' \in [Requests -> {"new"} \cup Live \cup Ended] /\ cv' \in [Requests -> Requests]
      /\ after' \in [Requests -> {"open", "tools", "done"}]
      /\ \A s \in Requests \ {r} : pc'[s] = pc[s] /\ cv'[s] = cv[s] /\ after'[s] = after[s]
      /\ pc'[r] \in Ended \/ (pc'[r] \in {"open", "tools"} /\ cv'[r] = cv[r])
  <2>1. CASE after[r] = "done"
    <3>1. End(r, "done") /\ "done" \in Ended
      BY <2>1 DEF Commit, Ended
    <3>2. QED BY <3>1, EndFields
  <2>2. CASE after[r] # "done"
    <3>1. pc' = [pc EXCEPT ![r] = after[r]] /\ UNCHANGED <<cv, after>>
      BY <2>2 DEF Commit
    <3>2. after[r] \in {"open", "tools"}
      BY <2>2 DEF Control
    <3>3. QED BY <3>1, <3>2 DEF Control, Live, InHandler
  <2>3. QED BY <2>1, <2>2
<1>4. pc'[r] \notin {"flush", "commit"} /\ pc[r] \in InHandler
  BY <1>2, <1>3 DEF Ended, InHandler
<1>5. \A a, b : Raced(a, b)' <=> Raced(a, b)
  BY <1>2 DEF Raced
<1>6. conv'[cv[r]] # "none" /\ \A c \in Requests : conv[c] # "none" => conv'[c] # "none"
  BY <1>1, <1>2
<1>7. Control'
  BY <1>1, <1>3 DEF Control
<1>8. OneInHandler'
  <2>1. \A s \in Requests : pc'[s] \in InHandler => pc[s] \in InHandler
    BY <1>3, <1>4
  <2>2. QED BY <2>1 DEF Exclusion, OneInHandler
<1>9. Pairs'
  <2>1. \A s \in Requests : Looking(s)' => Looking(s)
    BY <1>3, <1>4 DEF Looking
  <2>2. QED BY <1>2, <2>1 DEF Exclusion, Pairs
<1>10. Stored'
  <2> SUFFICES ASSUME NEW s \in Requests,
                      (\/ pc'[s] \in {"open", "streaming", "tools"}
                       \/ pc'[s] \in {"flush", "commit"} /\ after'[s] # "open")
               PROVE  conv'[cv'[s]] # "none"
    BY DEF Stored
  <2>1. CASE s = r
    BY <1>3, <1>6, <2>1 DEF Ended
  <2>2. CASE s # r
    <3>1. conv[cv[s]] # "none" /\ cv[s] \in Requests
      BY <1>3, <2>2 DEF Exclusion, Stored, Control
    <3>2. QED BY <1>3, <1>6, <2>2, <3>1
  <2>3. QED BY <2>1, <2>2
\* A conversation that was not stored yet is the request's own, and the request is looking.
<1>11. conv[cv[r]] = "none" =>
         cv[r] = r /\ Looking(r) /\ \A c \in Requests : conv[c] = "in_progress" => Raced(r, c)
  BY <1>2 DEF Exclusion, NoneInProgress, Stored, Looking
<1>12. NoneInProgress'
  <2> SUFFICES ASSUME NEW s \in Requests, pc'[s] \in {"flush", "commit"}, conv'[cv'[s]] = "none"
               PROVE  cv'[s] = s /\ \A c \in Requests : conv'[c] = "in_progress" => Raced(s, c)
    BY <1>5 DEF NoneInProgress
  <2>1. s # r /\ pc[s] \in {"flush", "commit"} /\ cv[s] \in Requests /\ cv'[s] = cv[s]
    BY <1>3, <1>4 DEF Control
  <2>2. conv[cv[s]] = "none" /\ cv[s] = s
    BY <1>6, <2>1 DEF Exclusion, NoneInProgress
  <2>3. Looking(s)
    BY <2>1, <2>2 DEF Exclusion, Stored, Looking
  <2>4. ASSUME NEW c \in Requests, conv'[c] = "in_progress" PROVE Raced(s, c)
    <3>1. CASE conv[c] = "in_progress"
      BY <2>1, <2>2, <3>1 DEF Exclusion, NoneInProgress
    <3>2. CASE conv[c] # "in_progress"
      <4>1. c = cv[r] /\ conv[cv[r]] = "none"
        BY <1>1, <1>2, <2>4, <3>2
      <4>2. c = r /\ Looking(r)
        BY <1>11, <4>1
      <4>3. QED BY <2>1, <2>3, <4>2, LookingRace DEF Exclusion
    <3>3. QED BY <3>1, <3>2
  <2>5. QED BY <2>1, <2>2, <2>4
<1>13. OneConversation'
  <2> SUFFICES ASSUME NEW c \in Requests, NEW d \in Requests, c # d,
                      conv'[c] = "in_progress", conv'[d] = "in_progress"
               PROVE  Raced(c, d)
    BY <1>5 DEF OneConversation
  <2>1. \A b \in Requests : conv'[b] = "in_progress" =>
          conv[b] = "in_progress" \/ (b = cv[r] /\ conv[cv[r]] = "none")
    BY <1>1, <1>2
  <2>2. CASE conv[c] = "in_progress" /\ conv[d] = "in_progress"
    BY <2>2 DEF Exclusion, OneConversation
  <2>3. CASE conv[c] # "in_progress"
    BY <1>11, <2>1, <2>3
  <2>4. CASE conv[d] # "in_progress"
    BY <1>11, <2>1, <2>4, RacedSym
  <2>5. QED BY <2>2, <2>3, <2>4
<1>14. CommitsOpen'
  <2> SUFFICES ASSUME NEW s \in Requests, pc'[s] = "commit", conv'[cv'[s]] = "closed"
               PROVE  \E i \in Instances : <<s, i>> \in late' /\ InstanceOf[s] # i
    BY DEF CommitsOpen
  <2>1. s # r /\ pc[s] = "commit" /\ cv[s] \in Requests /\ cv'[s] = cv[s]
    BY <1>3, <1>4 DEF Control
  <2>2. conv[cv[s]] = "closed"
    BY <1>1, <1>2, <2>1
  <2>3. PICK i \in Instances : <<s, i>> \in late /\ InstanceOf[s] # i
    BY <2>1, <2>2 DEF Exclusion, CommitsOpen
  <2>4. <<s, i>>[1] # r
    BY <2>1
  <2>5. QED BY <1>2, <2>3, <2>4
<1>15. QED BY <1>7, <1>8, <1>9, <1>10, <1>12, <1>13, <1>14 DEF Exclusion

LEMMA ServerKeeps ==
  ASSUME Control, Exclusion, NEW r \in Requests, ServerStep(r)
  PROVE  Control' /\ Exclusion'
<1> USE DEF streamVars, requestVars, clientVars
<1>ended. "done" \in Ended /\ "refused" \in Ended
  BY DEF Ended
<1>1. CASE Flush(r)
  BY <1>1, MoveKeeps DEF Flush, Closed
<1>2. CASE FlushRejected(r) \/ OpenRejected(r) \/ ModelIsSilent(r) \/ StreamFails(r)
  BY <1>2, <1>ended, EndKeeps DEF FlushRejected, OpenRejected, ModelIsSilent, StreamFails
<1>3. CASE Commit(r)
  BY <1>3, CommitKeeps
<1>4. CASE Open(r)
  BY <1>4, MoveKeeps DEF Open
<1>5. CASE ModelAnswers(r) \/ ModelCalls(r) \/ RunTool(r)
  <2>1. /\ LoopFree(InstanceOf[r])
        /\ pc[r] \in {"streaming", "tools"} /\ UNCHANGED <<tables, together, cv>>
    BY <1>5 DEF ModelAnswers, ModelCalls, RunTool
  <2>2. \E ms, next : next \in {"tools", "done"} /\ Insert(r, ms, next)
    BY <1>5 DEF ModelAnswers, ModelCalls, RunTool
  <2>3. QED BY <2>1, <2>2, InsertKeeps
<1>6. CASE ShowCard(r)
  BY <1>6, OthersKeep DEF ShowCard
<1>7. CASE EndRound(r)
  <2>1. CASE End(r, "done")
    BY <1>7, <1>ended, <2>1, EndKeeps DEF EndRound
  <2>2. CASE ~End(r, "done")
    BY <1>7, <2>2, MoveKeeps DEF EndRound
  <2>3. QED BY <2>1, <2>2
<1>8. QED BY <1>1, <1>2, <1>3, <1>4, <1>5, <1>6, <1>7 DEF ServerStep

\* A new chat runs while no handler of its instance does: who is about to commit is on another.
LEMMA NewChatKeeps ==
  ASSUME Control, Exclusion, NEW i \in Instances, NewChat(i)
  PROVE  Control' /\ Exclusion'
<1>1. \A s \in Requests : pc[s] = "commit" => InstanceOf[s] # i
  BY DEF NewChat, LoopFree, InHandler
<1>2. /\ conv' = [c \in Requests |-> IF conv[c] = "in_progress" THEN "closed" ELSE conv[c]]
      /\ late' = late \cup
           {<<r, i>> : r \in {r \in Requests : pc[r] = "commit" /\ conv[cv[r]] = "in_progress"}}
      /\ UNCHANGED <<log, pc, cv, after, together>>
  BY DEF NewChat, requestVars
<1>3. Control'
  BY <1>2 DEF Control
<1>4. \A c \in Requests : /\ conv'[c] # "in_progress" /\ (conv'[c] = "none" <=> conv[c] = "none")
                          /\ conv'[c] = "closed" => conv[c] \in {"in_progress", "closed"}
  BY <1>2
<1>5. OneInHandler' /\ Pairs'
  BY <1>2 DEF Exclusion, OneInHandler, Pairs, Looking
<1>6. Stored' /\ NoneInProgress' /\ OneConversation'
  BY <1>2, <1>4 DEF Control, Exclusion, Stored, NoneInProgress, OneConversation
<1>7. CommitsOpen'
  <2> SUFFICES ASSUME NEW s \in Requests, pc[s] = "commit", conv'[cv[s]] = "closed"
               PROVE  \E j \in Instances : <<s, j>> \in late' /\ InstanceOf[s] # j
    BY <1>2 DEF CommitsOpen
  <2>1. conv[cv[s]] \in {"in_progress", "closed"}
    BY <1>4 DEF Control
  <2>2. CASE conv[cv[s]] = "in_progress"
    BY <1>1, <1>2, <2>2
  <2>3. CASE conv[cv[s]] = "closed"
    BY <1>2, <2>3 DEF Exclusion, CommitsOpen
  <2>4. QED BY <2>1, <2>2, <2>3
<1>8. QED BY <1>3, <1>5, <1>6, <1>7 DEF Exclusion

LEMMA ExclusionStep ==
  ASSUME Control, Exclusion, [Next]_vars
  PROVE  Control' /\ Exclusion'
<1>1. ASSUME NEW r \in Requests, Refuse(r) \/ Break(r) PROVE Control' /\ Exclusion'
  BY <1>1, EndKeeps DEF Refuse, Break, Ended
<1>2. ASSUME NEW c \in Requests, CloseOrDelete(c) PROVE Control' /\ Exclusion'
  BY <1>2, OthersKeep DEF CloseOrDelete, requestVars
<1>3. CASE UNCHANGED vars
  BY <1>3, OthersKeep DEF vars, requestVars
<1>4. QED
  BY <1>1, <1>2, <1>3, AskKeeps, ServerKeeps, NewChatKeeps DEF Next, Finished

LEMMA ExclusionInit == Init => Control /\ Exclusion
  BY DEF Init, Control, Exclusion, OneInHandler, Pairs, Looking, Stored, NoneInProgress,
         OneConversation, CommitsOpen, InHandler

-----------------------------------------------------------------------------
\* On any number of instances, however requests, cut streams and new chats interleave, two
\* conversations of the user are in progress only if they were created by two requests on two
\* instances that were between lookup and commit at the same time: with one instance the next
\* request never has to choose.
THEOREM ConversationUnique == Spec => []OneConversation
<1>1. Exclusion => OneConversation
  BY DEF Exclusion
<1>2. QED BY <1>1, ExclusionInit, ExclusionStep, PTL DEF Spec

\* On any number of instances no step reopens a closed conversation, and nothing is added to it
\* but what a request on another instance had inserted before the close and commits once.
THEOREM ClosedStays == Spec => NothingAfterClose
<1> DEFINE Kept == \A c \in Requests : conv[c] = "closed" =>
             /\ conv'[c] = "closed"
             /\ log'[c] = log[c] \/ \E p \in late \ late' :
                   pc[p[1]] = "commit" /\ cv[p[1]] = c /\ InstanceOf[p[1]] # p[2]
<1>1. Control /\ Exclusion /\ [Next]_vars => [Kept]_vars
  <2> SUFFICES ASSUME Control, Exclusion, Next PROVE Kept
    BY Zenon
  <2> USE DEF tables, streamVars, requestVars, clientVars
  <2>1. ASSUME NEW r \in Requests, Commit(r) PROVE Kept
    <3> SUFFICES ASSUME NEW c \in Requests, conv[c] = "closed"
                 PROVE  /\ conv'[c] = "closed"
                        /\ log'[c] = log[c] \/ \E p \in late \ late' :
                              pc[p[1]] = "commit" /\ cv[p[1]] = c /\ InstanceOf[p[1]] # p[2]
      OBVIOUS
    <3>1. conv'[c] = "closed" /\ (c # cv[r] => log'[c] = log[c])
      BY <2>1, CommitConv
    <3>2. CASE c = cv[r]
      <4>1. pc[r] = "commit" /\ late' = {p \in late : p[1] # r}
        BY <2>1 DEF Commit
      <4>2. PICK i \in Instances : <<r, i>> \in late /\ InstanceOf[r] # i
        BY <3>2, <4>1 DEF Exclusion, CommitsOpen
      <4>3. <<r, i>>[1] = r /\ <<r, i>>[2] = i
        OBVIOUS
      <4>4. <<r, i>> \in late \ late'
        BY <4>1, <4>2, <4>3
      <4>5. QED BY <3>1, <3>2, <4>1, <4>2, <4>3, <4>4
    <3>3. QED BY <3>1, <3>2
  <2>2. ASSUME NEW i \in Instances, NewChat(i) PROVE Kept
    BY <2>2 DEF NewChat
  <2>3. ASSUME NEW r \in Requests, Ask(r) \/ Refuse(r) \/ Break(r) PROVE Kept
    BY <2>3 DEF Ask, Refuse, Break
  <2>4. ASSUME NEW r \in Requests, ServerStep(r), ~Commit(r) PROVE Kept
    BY <2>4 DEF ServerStep, Flush, FlushRejected, Open, OpenRejected, ModelAnswers, ModelIsSilent,
                ModelCalls, ShowCard, RunTool, EndRound, StreamFails
  <2>5. ASSUME NEW c \in Requests, CloseOrDelete(c) PROVE Kept
    BY <2>5 DEF CloseOrDelete
  <2>6. CASE Finished
    BY <2>6 DEF Finished, vars
  <2>7. QED BY <2>1, <2>2, <2>3, <2>4, <2>5, <2>6 DEF Next
<1>2. QED BY <1>1, ExclusionInit, ExclusionStep, PTL DEF Spec, NothingAfterClose

-----------------------------------------------------------------------------
(* What the variables hold.                                                *)

\* A request counts its rounds from the moment its reply has started.
Replying(r) ==
  pc[r] \in {"streaming", "tools"} \/ (pc[r] \in {"flush", "commit"} /\ after[r] # "open")
Own ==
  /\ pc \in [Requests -> {"new"} \cup Live \cup Ended] /\ cv \in [Requests -> Requests]
  /\ asks \in [Requests -> Call \cup {NoCall}] /\ writes \in [Requests -> Seq(Message)]
  /\ after \in [Requests -> {"open", "tools", "done"}] /\ messages \in [Requests -> Seq(Message)]
  /\ round \in [Requests -> 0..MaxRounds] /\ todo \in [Requests -> Seq(Call)]
  /\ shown \in [Requests -> Call \cup {NoCall}]
  /\ \A r \in Requests : Replying(r) => round[r] # 0
Common ==
  /\ conv \in [Requests -> {"none", "in_progress", "closed"}] /\ log \in [Requests -> Seq(Message)]
  /\ delivered \subseteq Call /\ newChats \in 0..MaxNewChats
  /\ promised \in [Requests -> {"none", "closed", "deleted"}] /\ overlapped \subseteq Requests
  /\ sender \in [Requests -> Seq(Requests)] /\ late \subseteq Requests \X Instances
  /\ together \subseteq SUBSET Requests /\ \A c \in Requests : Len(sender[c]) = Len(log[c])
Typed == Own /\ Common

LEMMA EndOwn ==
  ASSUME Own, NEW r \in Requests, NEW how \in Ended, End(r, how)
  PROVE  Own'
<1>1. 0 \in 0..MaxRounds
  BY BoundsAssumption
<1>2. /\ pc' \in [Requests -> {"new"} \cup Live \cup Ended] /\ cv' \in [Requests -> Requests]
      /\ asks' \in [Requests -> Call \cup {NoCall}] /\ writes' \in [Requests -> Seq(Message)]
      /\ after' \in [Requests -> {"open", "tools", "done"}] /\ messages' \in [Requests -> Seq(Message)]
      /\ round' \in [Requests -> 0..MaxRounds] /\ todo' \in [Requests -> Seq(Call)]
      /\ shown' \in [Requests -> Call \cup {NoCall}]
  BY <1>1 DEF Own, End
<1>3. ASSUME NEW s \in Requests, Replying(s)' PROVE round'[s] # 0
  <2>1. s # r
    BY <1>3 DEF Own, End, Replying, Ended
  <2>2. Replying(s) /\ round'[s] = round[s]
    BY <1>3, <2>1 DEF Own, End, Replying
  <2>3. QED BY <2>2 DEF Own
<1>4. QED BY <1>2, <1>3 DEF Own

LEMMA EndTyped ==
  ASSUME Typed, NEW r \in Requests, NEW how \in Ended, End(r, how),
         UNCHANGED <<tables, together, overlapped, newChats, promised>>, delivered' \subseteq Call
  PROVE  Typed'
  BY EndOwn DEF Typed, Common, tables

LEMMA InsertOwn ==
  ASSUME Own, NEW r \in Requests, NEW ms \in Seq(Message), NEW next \in {"open", "tools", "done"},
         Insert(r, ms, next), next # "open" => round[r] # 0,
         UNCHANGED <<messages, round, shown>>, cv' \in [Requests -> Requests],
         asks' \in [Requests -> Call \cup {NoCall}], todo' \in [Requests -> Seq(Call)]
  PROVE  Own'
<1>1. /\ pc' \in [Requests -> {"new"} \cup Live \cup Ended] /\ writes' \in [Requests -> Seq(Message)]
      /\ after' \in [Requests -> {"open", "tools", "done"}]
  BY DEF Own, Insert, Live, InHandler
<1>2. ASSUME NEW s \in Requests, Replying(s)' PROVE round'[s] # 0
  <2>1. CASE s = r
    BY <1>2, <2>1 DEF Own, Insert, Replying
  <2>2. CASE s # r
    BY <1>2, <2>2 DEF Own, Insert, Replying
  <2>3. QED BY <2>1, <2>2
<1>3. QED BY <1>1, <1>2 DEF Own

LEMMA AskTyped ==
  ASSUME Typed, NEW r \in Requests, Ask(r)
  PROVE  Typed'
<1>1. PICK c \in Lookup(r), k \in {NoCall} \cup delivered :
        /\ cv' = [cv EXCEPT ![r] = c] /\ asks' = [asks EXCEPT ![r] = k]
        /\ Insert(r, Replies(Unanswered(Recent(log[c])), k), "open")
        /\ overlapped' = overlapped \cup {d \in {c} : \E s \in Requests : cv[s] = d /\ pc[s] \in Live}
        /\ together' = together \cup {{r, s} : s \in {s \in Requests : Looking(s)}}
  BY DEF Ask
<1>2. c \in Requests /\ k \in Call \cup {NoCall}
  BY DEF Lookup, Typed, Common
<1>3. log[c] \in Seq(Message)
  BY <1>2 DEF Typed, Common
<1>4. Recent(log[c]) \in Seq(Message)
  BY <1>3, RecentFacts
<1>5. Unanswered(Recent(log[c])) \in Seq(Call)
  BY <1>4, UnansweredFacts
<1>6. Replies(Unanswered(Recent(log[c])), k) \in Seq(Message)
  BY <1>2, <1>5, RepliesFacts
<1>7. UNCHANGED <<messages, round, shown, todo>> /\ cv' \in [Requests -> Requests]
      /\ asks' \in [Requests -> Call \cup {NoCall}]
  BY <1>1, <1>2 DEF Ask, streamVars, Typed, Own
<1>8. Own'
  BY <1>1, <1>6, <1>7, InsertOwn DEF Typed, Own
<1>9. together' \subseteq SUBSET Requests
  <2>1. \A s \in Requests : {r, s} \subseteq Requests
    OBVIOUS
  <2>2. ASSUME NEW X \in together' PROVE X \subseteq Requests
    <3>1. X \in together \/ \E s \in Requests : X = {r, s}
      BY <1>1
    <3>2. X \in together => X \subseteq Requests
      BY DEF Typed, Common
    <3>3. QED BY <2>1, <3>1, <3>2
  <2>3. QED BY <2>2
<1>10. Common'
  BY <1>1, <1>2, <1>9 DEF Ask, tables, clientVars, Typed, Common
<1>11. QED BY <1>8, <1>10 DEF Typed

\* What the model asks for is named by the request and its round.
Named(r, shape) ==
  [i \in DOMAIN shape |-> [by |-> r, round |-> round[r], place |-> i, tool |-> shape[i]]]

LEMMA NamedTyped ==
  ASSUME Typed, NEW r \in Requests, round[r] # 0, NEW shape \in Shapes
  PROVE  Named(r, shape) \in Seq(Call) /\ <<Asking(Named(r, shape))>> \in Seq(Message)
         /\ DOMAIN Named(r, shape) = DOMAIN shape
<1>1. shape \in Seq(Tools) /\ DOMAIN shape = 1..Len(shape) /\ Len(shape) \in Nat
  BY BoundsAssumption
<1>2. round[r] \in 1..MaxRounds
  BY BoundsAssumption DEF Typed, Own
<1>3. \A i \in 1..Len(shape) : [by |-> r, round |-> round[r], place |-> i, tool |-> shape[i]] \in Call
  BY <1>1, <1>2 DEF Call
<1>4. Named(r, shape) \in [1..Len(shape) -> Call]
  BY <1>1, <1>3 DEF Named
<1>5. Named(r, shape) \in Seq(Call)
  BY <1>1, <1>4
<1>6. Asking(Named(r, shape)) \in Message
  BY <1>5 DEF Asking, Message
<1>7. QED BY <1>5, <1>6 DEF Named

LEMMA CommitTyped ==
  ASSUME Typed, NEW r \in Requests, Commit(r)
  PROVE  Typed'
<1>1. pc[r] = "commit" /\ cv[r] \in Requests /\ writes[r] \in Seq(Message) /\ log[cv[r]] \in Seq(Message)
  BY DEF Commit, Typed, Own, Common
<1>2. log[cv[r]] \o writes[r] \in Seq(Message) /\ messages[r] \o writes[r] \in Seq(Message)
  BY <1>1 DEF Typed, Own
<1>3. Common'
  <2>1. log' \in [Requests -> Seq(Message)]
    BY <1>1, <1>2 DEF Commit, Typed, Common
  <2>2. conv' \in [Requests -> {"none", "in_progress", "closed"}]
    BY <1>1 DEF Commit, Typed, Common
  <2>3. sender' \in [Requests -> Seq(Requests)] /\ \A c \in Requests : Len(sender'[c]) = Len(log'[c])
    <3> DEFINE old == log[cv[r]]
               new == writes[r]
               who == sender[cv[r]]
               own == [i \in DOMAIN new |-> r]
    <3>1. old \in Seq(Message) /\ new \in Seq(Message) /\ who \in Seq(Requests) /\ Len(who) = Len(old)
      BY <1>1 DEF Typed, Common
    <3>2. log' = [log EXCEPT ![cv[r]] = old \o new] /\ sender' = [sender EXCEPT ![cv[r]] = who \o own]
      BY DEF Commit, Sent
    <3>3. sender \in [Requests -> Seq(Requests)] /\ DOMAIN log = Requests
          /\ \A c \in Requests : Len(sender[c]) = Len(log[c])
      BY DEF Typed, Common
    <3> HIDE DEF old, new, who
    <3>4. own \in Seq(Requests) /\ Len(own) = Len(new)
      BY <3>1
    <3> HIDE DEF own
    <3>5. (who \o own) \in Seq(Requests) /\ Len(who \o own) = Len(who) + Len(own)
          /\ Len(old \o new) = Len(old) + Len(new)
      <4>1. (who \o own) \in Seq(Requests) /\ Len(who \o own) = Len(who) + Len(own)
        BY <3>1, <3>4, ConcatProperties
      <4>2. Len(old \o new) = Len(old) + Len(new)
        BY <3>1, ConcatProperties
      <4>3. QED BY <4>1, <4>2
    <3>6. sender' \in [Requests -> Seq(Requests)]
      <4> DEFINE both == who \o own
      <4>1. both \in Seq(Requests) /\ sender' = [sender EXCEPT ![cv[r]] = both]
        BY <3>2, <3>5
      <4> HIDE DEF both
      <4>2. QED BY <3>3, <4>1
    <3>7. ASSUME NEW c \in Requests PROVE Len(sender'[c]) = Len(log'[c])
      <4>1. CASE c = cv[r]
        <5>1. sender'[c] = who \o own /\ log'[c] = old \o new
          BY <1>1, <3>2, <3>3, <4>1
        <5>2. QED BY <3>1, <3>4, <3>5, <5>1
      <4>2. CASE c # cv[r]
        <5>1. sender'[c] = sender[c] /\ log'[c] = log[c]
          BY <3>2, <3>3, <4>2
        <5>2. QED BY <3>3, <5>1
      <4>3. QED BY <4>1, <4>2
    <3>8. QED BY <3>6, <3>7
  <2>4. late' \subseteq Requests \X Instances /\ together' = together
    BY DEF Commit, Typed, Common
  <2>5. QED BY <2>1, <2>2, <2>3, <2>4 DEF Commit, Typed, Common, clientVars
<1>4. Own'
  <2>1. CASE after[r] = "done"
    <3>1. End(r, "done") /\ "done" \in Ended
      BY <2>1 DEF Commit, Ended
    <3>2. QED BY <3>1, EndOwn DEF Typed
  <2>2. CASE after[r] # "done"
    <3>1. /\ pc' = [pc EXCEPT ![r] = after[r]] /\ writes' = [writes EXCEPT ![r] = <<>>]
          /\ messages' = [messages EXCEPT ![r] = @ \o writes[r]]
          /\ UNCHANGED <<cv, asks, after, round, todo, shown>>
      BY <2>2 DEF Commit
    <3>2. after[r] \in {"open", "tools"}
      BY <2>2 DEF Typed, Own
    <3>3. /\ pc' \in [Requests -> {"new"} \cup Live \cup Ended] /\ writes' \in [Requests -> Seq(Message)]
          /\ messages' \in [Requests -> Seq(Message)]
      BY <1>2, <3>1, <3>2 DEF Typed, Own, Live, InHandler
    <3>4. ASSUME NEW s \in Requests, Replying(s)' PROVE round'[s] # 0
      <4>1. CASE s = r
        BY <1>1, <3>1, <3>2, <3>4, <4>1 DEF Typed, Own, Replying
      <4>2. CASE s # r
        BY <3>1, <3>4, <4>2 DEF Typed, Own, Replying
      <4>3. QED BY <4>1, <4>2
    <3>5. QED BY <3>1, <3>3, <3>4 DEF Typed, Own
  <2>3. QED BY <2>1, <2>2
<1>5. QED BY <1>3, <1>4 DEF Typed

\* A request goes on within its turn.
LEMMA MoveTyped ==
  ASSUME Typed, NEW r \in Requests, NEW to \in {"commit", "streaming"},
         pc' = [pc EXCEPT ![r] = to],
         UNCHANGED <<tables, writes, after, todo, shown, cv, asks, together, overlapped, newChats,
                     promised>>,
         delivered' \subseteq Call, messages' \in [Requests -> Seq(Message)],
         round' \in [Requests -> 0..MaxRounds], \A s \in Requests \ {r} : round'[s] = round[s],
         to = "commit" => pc[r] = "flush" /\ round' = round,
         to = "streaming" => round'[r] # 0
  PROVE  Typed'
<1>1. pc' \in [Requests -> {"new"} \cup Live \cup Ended]
  BY DEF Typed, Own, Live, InHandler
<1>2. ASSUME NEW s \in Requests, Replying(s)' PROVE round'[s] # 0
  BY <1>2 DEF Typed, Own, Replying
<1>3. QED BY <1>1, <1>2 DEF Typed, Own, Common, tables

LEMMA ServerTyped ==
  ASSUME Typed, NEW r \in Requests, ServerStep(r)
  PROVE  Typed'
<1> USE DEF streamVars, requestVars, clientVars
<1>ended. "done" \in Ended /\ "refused" \in Ended
  BY DEF Ended
<1>types. delivered \subseteq Call /\ round \in [Requests -> 0..MaxRounds] /\ MaxRounds \in Nat \ {0}
          /\ messages \in [Requests -> Seq(Message)]
  BY BoundsAssumption DEF Typed, Own, Common
<1>1. CASE Flush(r)
  BY <1>1, <1>types, MoveTyped DEF Flush
<1>2. CASE FlushRejected(r) \/ OpenRejected(r) \/ ModelIsSilent(r) \/ StreamFails(r)
  BY <1>2, <1>ended, <1>types, EndTyped DEF FlushRejected, OpenRejected, ModelIsSilent, StreamFails
<1>3. CASE Commit(r)
  BY <1>3, CommitTyped
<1>4. CASE Open(r)
  <2>1. log[cv[r]] \in Seq(Message)
    BY DEF Typed, Own, Common
  <2>2. Recent(log[cv[r]]) \in Seq(Message)
    BY <2>1, RecentFacts
  <2>3. messages' \in [Requests -> Seq(Message)] /\ round' \in [Requests -> 0..MaxRounds] /\ round'[r] # 0
        /\ \A s \in Requests \ {r} : round'[s] = round[s]
    BY <1>4, <1>types, <2>2 DEF Open
  <2>4. /\ pc' = [pc EXCEPT ![r] = "streaming"] /\ delivered' \subseteq Call
        /\ UNCHANGED <<tables, writes, after, todo, shown, cv, asks, together, overlapped, newChats,
                       promised>>
    BY <1>4, <1>types DEF Open
  <2>5. QED BY <2>3, <2>4, MoveTyped
<1>5. ASSUME NEW ms \in Seq(Message), NEW next \in {"tools", "done"}, Insert(r, ms, next),
             todo' \in [Requests -> Seq(Call)], pc[r] \in {"streaming", "tools"},
             UNCHANGED <<tables, messages, round, shown, requestVars, clientVars>>
      PROVE  Typed'
  <2>1. round[r] # 0
    BY <1>5 DEF Typed, Own, Replying
  <2>2. Own'
    BY <1>5, <2>1, InsertOwn DEF Typed, Own
  <2>3. Common'
    BY <1>5 DEF Typed, Common, tables
  <2>4. QED BY <2>2, <2>3 DEF Typed
<1>6. CASE ModelAnswers(r)
  <2>1. <<AssistantText>> \in Seq(Message)
    BY DEF AssistantText, Message
  <2>2. todo' \in [Requests -> Seq(Call)]
    BY <1>6 DEF ModelAnswers, Typed, Own
  <2>3. QED BY <1>5, <1>6, <2>1, <2>2 DEF ModelAnswers
<1>7. CASE ModelCalls(r)
  <2>1. PICK shape \in Shapes : Insert(r, <<Asking(Named(r, shape))>>, "tools")
                                /\ todo' = [todo EXCEPT ![r] = Named(r, shape)]
    BY <1>7 DEF ModelCalls, Named
  <2>2. round[r] # 0
    BY <1>7 DEF ModelCalls, Typed, Own, Replying
  <2>3. Named(r, shape) \in Seq(Call) /\ <<Asking(Named(r, shape))>> \in Seq(Message)
    BY <2>2, NamedTyped
  <2>4. todo' \in [Requests -> Seq(Call)]
    BY <2>1, <2>3 DEF Typed, Own
  <2>5. QED BY <1>5, <1>7, <2>1, <2>3, <2>4 DEF ModelCalls
<1>8. CASE RunTool(r)
  <2>1. todo[r] \in Seq(Call) /\ todo[r] # <<>>
    BY <1>8 DEF RunTool, Typed, Own
  <2>2. Head(todo[r]) \in Call /\ Tail(todo[r]) \in Seq(Call)
    BY <2>1
  <2>3. <<ResultOf(Head(todo[r]), "result")>> \in Seq(Message)
    BY <2>2 DEF ResultOf, Message, ResultKinds
  <2>4. todo' \in [Requests -> Seq(Call)]
    BY <1>8, <2>2 DEF RunTool, Typed, Own
  <2>5. QED BY <1>5, <1>8, <2>3, <2>4 DEF RunTool
<1>9. CASE ShowCard(r)
  <2>1. todo[r] \in Seq(Call) /\ todo[r] # <<>>
    BY <1>9 DEF ShowCard, Typed, Own
  <2>2. Head(todo[r]) \in Call /\ Tail(todo[r]) \in Seq(Call)
    BY <2>1
  <2>3. todo' \in [Requests -> Seq(Call)] /\ shown' \in [Requests -> Call \cup {NoCall}]
    BY <1>9, <2>2 DEF ShowCard, Typed, Own
  <2>4. UNCHANGED <<tables, pc, writes, after, messages, round, requestVars, clientVars>>
    BY <1>9 DEF ShowCard
  <2>5. QED BY <2>3, <2>4 DEF Typed, Own, Common, Replying, tables
<1>10. CASE EndRound(r)
  <2>1. delivered' \subseteq Call
    BY <1>10 DEF EndRound, Typed, Own, Common
  <2>2. CASE End(r, "done")
    BY <1>10, <1>ended, <2>1, <2>2, EndTyped DEF EndRound
  <2>3. CASE ~End(r, "done")
    <3>1. /\ pc' = [pc EXCEPT ![r] = "streaming"] /\ round' = [round EXCEPT ![r] = @ + 1]
          /\ UNCHANGED <<cv, asks, writes, after, messages, todo, shown>>
          /\ round[r] # MaxRounds
      BY <1>10, <2>3 DEF EndRound
    <3>2. round' \in [Requests -> 0..MaxRounds] /\ round'[r] # 0
          /\ \A s \in Requests \ {r} : round'[s] = round[s]
      BY <1>types, <3>1
    <3>3. QED BY <1>10, <1>types, <2>1, <3>1, <3>2, MoveTyped DEF EndRound
  <2>4. QED BY <2>2, <2>3
<1>11. QED BY <1>1, <1>2, <1>3, <1>4, <1>6, <1>7, <1>8, <1>9, <1>10 DEF ServerStep

LEMMA OthersTyped ==
  ASSUME Typed, UNCHANGED <<log, sender, pc, writes, after, streamVars, requestVars, delivered>>,
         late' \subseteq Requests \X Instances,
         conv' \in [Requests -> {"none", "in_progress", "closed"}], newChats' \in 0..MaxNewChats,
         promised' \in [Requests -> {"none", "closed", "deleted"}]
  PROVE  Typed'
  BY DEF Typed, Own, Common, Replying, streamVars, requestVars

LEMMA TypedStep == Typed /\ [Next]_vars => Typed'
<1> SUFFICES ASSUME Typed, [Next]_vars PROVE Typed'
  OBVIOUS
<1>0. /\ conv \in [Requests -> {"none", "in_progress", "closed"}] /\ newChats \in 0..MaxNewChats
      /\ promised \in [Requests -> {"none", "closed", "deleted"}] /\ delivered \subseteq Call
      /\ MaxNewChats \in Nat /\ late \subseteq Requests \X Instances
  BY BoundsAssumption DEF Typed, Common
<1>1. ASSUME NEW r \in Requests, Refuse(r) \/ Break(r) PROVE Typed'
  BY <1>0, <1>1, EndTyped DEF Refuse, Break, Ended, clientVars
<1>2. ASSUME NEW i \in Instances, NewChat(i) PROVE Typed'
  <2>1. /\ conv' \in [Requests -> {"none", "in_progress", "closed"}] /\ newChats' \in 0..MaxNewChats
        /\ UNCHANGED <<log, sender, pc, writes, after, streamVars, requestVars, delivered, promised>>
    BY <1>0, <1>2 DEF NewChat
  <2>2. late' \subseteq Requests \X Instances
    BY <1>2 DEF NewChat, Typed, Common
  <2>3. QED BY <1>0, <2>1, <2>2, OthersTyped
<1>3. ASSUME NEW c \in Requests, CloseOrDelete(c) PROVE Typed'
  <2>1. /\ UNCHANGED <<tables, pc, writes, after, streamVars, requestVars, delivered, newChats>>
        /\ promised' \in [Requests -> {"none", "closed", "deleted"}]
    BY <1>0, <1>3, BoundsAssumption DEF CloseOrDelete
  <2>2. QED BY <1>0, <2>1, OthersTyped DEF tables
<1>4. CASE UNCHANGED vars
  BY <1>0, <1>4, OthersTyped DEF vars, tables, clientVars
<1>5. QED
  BY <1>1, <1>2, <1>3, <1>4, AskTyped, ServerTyped DEF Next, Finished

LEMMA TypedInit == Init => Typed
<1> SUFFICES ASSUME Init PROVE Typed
  OBVIOUS
<1>1. 0 \in 0..MaxRounds /\ 0 \in 0..MaxNewChats
  BY BoundsAssumption
<1>2. Own
  BY <1>1 DEF Init, Own, Replying
<1>3. Common
  BY <1>1 DEF Init, Common
<1>4. QED BY <1>2, <1>3 DEF Typed

\* The tables and what each request holds keep their shape on any number of instances: a round
\* never passes MaxRounds, and what is stored are messages with calls that the model was offered.
THEOREM ConversationTyped == Spec => []TypeOK
<1>1. Typed => TypeOK
  BY DEF Typed, Own, Common, TypeOK
<1>2. QED BY <1>1, TypedInit, TypedStep, PTL DEF Spec

-----------------------------------------------------------------------------
(* A submitted card is stored first.                                      *)

\* The answer a request came with is among what it is about to store, or is stored.
Saved(r) ==
  asks[r] # NoCall =>
    /\ pc[r] \in {"flush", "commit"} /\ after[r] = "open"
       => ResultOf(asks[r], "saved") \in Elements(writes[r])
    /\ pc[r] = "open" \/ Replying(r) => ResultOf(asks[r], "saved") \in Elements(log[cv[r]])
AllSaved == \A r \in Requests : Saved(r)

\* Messages are only added to a log.
Grows(c) == \A i \in DOMAIN log[c] : i \in DOMAIN log'[c] /\ log'[c][i] = log[c][i]

LEMMA CommitGrows ==
  ASSUME Typed, NEW r \in Requests, Commit(r)
  PROVE  /\ \A c \in Requests : Grows(c)
         /\ \A i \in DOMAIN writes[r] :
              Len(log[cv[r]]) + i \in DOMAIN log'[cv[r]] /\ log'[cv[r]][Len(log[cv[r]]) + i] = writes[r][i]
         /\ \A i \in DOMAIN log'[cv[r]] :
              i \in DOMAIN log[cv[r]] \/ (i - Len(log[cv[r]]) \in DOMAIN writes[r])
         /\ \A c \in Requests : c # cv[r] => log'[c] = log[c]
         /\ log'[cv[r]] = log[cv[r]] \o writes[r]
<1> DEFINE old == log[cv[r]]
           new == writes[r]
<1>1. cv[r] \in Requests /\ old \in Seq(Message) /\ new \in Seq(Message) /\ DOMAIN log = Requests
  BY DEF Typed, Own, Common
<1>2. log' = [log EXCEPT ![cv[r]] = old \o new]
  BY DEF Commit
<1>3. log'[cv[r]] = old \o new /\ \A c \in Requests : c # cv[r] => log'[c] = log[c]
  BY <1>1, <1>2
<1> HIDE DEF old, new
<1>4. /\ Len(old \o new) = Len(old) + Len(new) /\ Len(old) \in Nat /\ Len(new) \in Nat
      /\ DOMAIN old = 1..Len(old) /\ DOMAIN new = 1..Len(new)
      /\ DOMAIN (old \o new) = 1..(Len(old) + Len(new))
      /\ \A i \in 1..(Len(old) + Len(new)) :
           (old \o new)[i] = IF i <= Len(old) THEN old[i] ELSE new[i - Len(old)]
  <2>1. /\ (old \o new) \in Seq(Message) /\ Len(old \o new) = Len(old) + Len(new)
        /\ Len(old) \in Nat /\ Len(new) \in Nat
        /\ \A i \in 1..(Len(old) + Len(new)) :
             (old \o new)[i] = IF i <= Len(old) THEN old[i] ELSE new[i - Len(old)]
    BY <1>1, ConcatProperties
  <2>2. QED BY <1>1, <2>1
<1>5. \A i \in 1..Len(old) : i \in 1..(Len(old) + Len(new)) /\ (old \o new)[i] = old[i]
  BY <1>4
<1>6. ASSUME NEW i \in 1..Len(new)
      PROVE  Len(old) + i \in 1..(Len(old) + Len(new)) /\ (old \o new)[Len(old) + i] = new[i]
  <2>1. /\ Len(old) + i \in 1..(Len(old) + Len(new)) /\ ~(Len(old) + i <= Len(old))
        /\ (Len(old) + i) - Len(old) = i
    BY <1>4
  <2>2. QED BY <1>4, <2>1
<1>7. \A i \in 1..(Len(old) + Len(new)) : i \in 1..Len(old) \/ i - Len(old) \in 1..Len(new)
  BY <1>4
<1>8. \A c \in Requests : Grows(c)
  BY <1>3, <1>4, <1>5 DEF Grows, old
<1>9. QED BY <1>3, <1>4, <1>6, <1>7, <1>8 DEF old, new

LEMMA SavedKept ==
  ASSUME Typed, NEW s \in Requests, Saved(s), \A c \in Requests : Grows(c),
         pc'[s] = pc[s], after'[s] = after[s], cv'[s] = cv[s], asks'[s] = asks[s],
         writes'[s] = writes[s]
  PROVE  Saved(s)'
<1>1. cv[s] \in Requests
  BY DEF Typed, Own
<1>2. Elements(log[cv[s]]) \subseteq Elements(log'[cv[s]])
  BY <1>1 DEF Grows, Elements
<1>3. QED BY <1>2 DEF Saved, Replying, Elements

LEMMA EndSaved ==
  ASSUME Typed, AllSaved, NEW r \in Requests, NEW how \in Ended, End(r, how),
         \A c \in Requests : Grows(c)
  PROVE  AllSaved'
<1>1. asks'[r] = NoCall
  BY DEF Typed, Own, End
<1>2. ASSUME NEW s \in Requests, s # r PROVE Saved(s)'
  <2>1. /\ pc'[s] = pc[s] /\ after'[s] = after[s] /\ cv'[s] = cv[s] /\ asks'[s] = asks[s]
        /\ writes'[s] = writes[s]
    BY <1>2 DEF Typed, Own, End
  <2>2. QED BY <2>1, SavedKept DEF AllSaved
<1>3. QED BY <1>1, <1>2 DEF AllSaved, Saved

LEMMA AskSaved ==
  ASSUME Typed, AllSaved, NEW r \in Requests, Ask(r)
  PROVE  AllSaved'
<1>1. PICK c \in Lookup(r), k \in {NoCall} \cup delivered :
        /\ cv' = [cv EXCEPT ![r] = c] /\ asks' = [asks EXCEPT ![r] = k]
        /\ Insert(r, Replies(Unanswered(Recent(log[c])), k), "open")
  BY DEF Ask
<1> DEFINE open == Unanswered(Recent(log[c]))
<1>2. c \in Requests /\ k \in Call \cup {NoCall}
  BY DEF Lookup, Typed, Common
<1>3. open \in Seq(Call)
  <2>1. log[c] \in Seq(Message)
    BY <1>2 DEF Typed, Common
  <2>2. Recent(log[c]) \in Seq(Message)
    BY <2>1, RecentFacts
  <2>3. QED BY <2>2, UnansweredFacts
<1> HIDE DEF open
<1>4. /\ pc'[r] = "flush" /\ after'[r] = "open" /\ writes'[r] = Replies(open, k) /\ asks'[r] = k
      /\ \A s \in Requests \ {r} : /\ pc'[s] = pc[s] /\ after'[s] = after[s] /\ cv'[s] = cv[s]
                                   /\ asks'[s] = asks[s] /\ writes'[s] = writes[s]
  BY <1>1 DEF Insert, Typed, Own, open
<1>5. log' = log /\ \A d \in Requests : Grows(d)
  BY DEF Ask, tables, Grows
<1>6. Saved(r)'
  <2> SUFFICES ASSUME k # NoCall PROVE ResultOf(k, "saved") \in Elements(Replies(open, k))
    BY <1>4 DEF Saved, Replying, Elements
  <2>1. /\ Replies(open, k) \in Seq(Message) /\ Len(Replies(open, k)) = Len(Unless(open, {k})) + 1
        /\ Len(Unless(open, {k})) \in Nat
        /\ Replies(open, k)[Len(Replies(open, k))] = ResultOf(k, "saved")
    BY <1>2, <1>3, RepliesFacts
  <2>2. Len(Replies(open, k)) \in DOMAIN Replies(open, k)
    BY <2>1
  <2>3. QED BY <2>1, <2>2 DEF Elements
<1>7. ASSUME NEW s \in Requests, s # r PROVE Saved(s)'
  BY <1>4, <1>5, <1>7, SavedKept DEF AllSaved
<1>8. QED BY <1>6, <1>7 DEF AllSaved

LEMMA CommitSaved ==
  ASSUME Typed, AllSaved, NEW r \in Requests, Commit(r)
  PROVE  AllSaved'
<1>0. \A c \in Requests : Grows(c)
  BY CommitGrows
<1>1. CASE after[r] = "done"
  <2>1. End(r, "done") /\ "done" \in Ended
    BY <1>1 DEF Commit, Ended
  <2>2. QED BY <1>0, <2>1, EndSaved
<1>2. CASE after[r] # "done"
  <2>1. /\ pc' = [pc EXCEPT ![r] = after[r]] /\ writes' = [writes EXCEPT ![r] = <<>>]
        /\ UNCHANGED <<cv, asks, after>>
    BY <1>2 DEF Commit
  <2>2. ASSUME NEW s \in Requests, s # r PROVE Saved(s)'
    BY <1>0, <2>1, <2>2, SavedKept DEF AllSaved, Typed, Own
  <2>3. Saved(r)'
    <3>1. pc[r] = "commit" /\ pc'[r] = after[r] /\ after[r] \in {"open", "tools"} /\ cv[r] \in Requests
      BY <1>2, <2>1 DEF Commit, Typed, Own
    <3>2. Elements(log[cv[r]]) \subseteq Elements(log'[cv[r]])
      BY <1>0, <3>1 DEF Grows, Elements
    <3>3. Elements(writes[r]) \subseteq Elements(log'[cv[r]])
      <4>1. \A i \in DOMAIN writes[r] : \E j \in DOMAIN log'[cv[r]] : log'[cv[r]][j] = writes[r][i]
        BY CommitGrows
      <4>2. QED BY <4>1 DEF Elements
    <3>4. asks[r] # NoCall => ResultOf(asks[r], "saved") \in Elements(log'[cv[r]])
      BY <3>1, <3>2, <3>3 DEF AllSaved, Saved, Replying
    <3>5. QED BY <2>1, <3>1, <3>4 DEF Saved, Elements
  <2>4. QED BY <2>2, <2>3 DEF AllSaved
<1>3. QED BY <1>1, <1>2

\* A request that is replying, or goes on within its turn, stays where it found its answer.
LEMMA MoveSaved ==
  ASSUME Typed, AllSaved, NEW r \in Requests, UNCHANGED <<log, cv, asks>>,
         \A s \in Requests \ {r} : pc'[s] = pc[s] /\ after'[s] = after[s] /\ writes'[s] = writes[s],
         \/ (pc[r] = "open" \/ Replying(r)) /\ (pc'[r] \in {"flush", "commit"} => after'[r] # "open")
         \/ pc[r] = "flush" /\ pc'[r] = "commit" /\ after'[r] = after[r] /\ writes'[r] = writes[r]
  PROVE  AllSaved'
<1>1. \A c \in Requests : Grows(c)
  BY DEF Grows
<1>2. ASSUME NEW s \in Requests, s # r PROVE Saved(s)'
  BY <1>1, <1>2, SavedKept DEF AllSaved
<1>3. Saved(r)'
  <2>1. Saved(r)
    BY DEF AllSaved
  <2>2. QED BY <2>1 DEF Saved, Replying, Elements
<1>4. QED BY <1>2, <1>3 DEF AllSaved

LEMMA SavedStep == Typed /\ AllSaved /\ [Next]_vars => AllSaved'
<1> SUFFICES ASSUME Typed, AllSaved, [Next]_vars PROVE AllSaved'
  OBVIOUS
<1> USE DEF tables, streamVars, requestVars, clientVars
<1>0. log' = log => \A c \in Requests : Grows(c)
  BY DEF Grows
<1>ended. "done" \in Ended /\ "refused" \in Ended
  BY DEF Ended
<1>1. ASSUME NEW r \in Requests,
             Refuse(r) \/ Break(r) \/ FlushRejected(r) \/ OpenRejected(r) \/ ModelIsSilent(r) \/ StreamFails(r)
      PROVE  AllSaved'
  BY <1>0, <1>1, <1>ended, EndSaved
     DEF Refuse, Break, FlushRejected, OpenRejected, ModelIsSilent, StreamFails
<1>2. ASSUME NEW r \in Requests, Flush(r) PROVE AllSaved'
  <2>1. pc[r] = "flush" /\ pc'[r] = "commit" /\ \A s \in Requests \ {r} : pc'[s] = pc[s]
    BY <1>2 DEF Flush, Typed, Own
  <2>2. UNCHANGED <<log, cv, asks, after, writes>>
    BY <1>2 DEF Flush
  <2>3. QED BY <2>1, <2>2, MoveSaved
<1>3. ASSUME NEW r \in Requests, Open(r) PROVE AllSaved'
  <2>1. pc[r] = "open" /\ pc'[r] = "streaming" /\ \A s \in Requests \ {r} : pc'[s] = pc[s]
    BY <1>3 DEF Open, Typed, Own
  <2>2. UNCHANGED <<log, cv, asks, after, writes>>
    BY <1>3 DEF Open
  <2>3. QED BY <2>1, <2>2, MoveSaved
<1>4. ASSUME NEW r \in Requests, ModelAnswers(r) \/ ModelCalls(r) \/ RunTool(r) PROVE AllSaved'
  <2>1. PICK next \in {"tools", "done"} : \E ms : Insert(r, ms, next)
    BY <1>4 DEF ModelAnswers, ModelCalls, RunTool
  <2>2. /\ pc'[r] = "flush" /\ after'[r] # "open"
        /\ \A s \in Requests \ {r} : pc'[s] = pc[s] /\ after'[s] = after[s] /\ writes'[s] = writes[s]
    BY <2>1 DEF Insert, Typed, Own
  <2>3. Replying(r) /\ UNCHANGED <<log, cv, asks>>
    BY <1>4 DEF ModelAnswers, ModelCalls, RunTool, Replying
  <2>4. QED BY <2>2, <2>3, MoveSaved
<1>5. ASSUME NEW r \in Requests, EndRound(r) PROVE AllSaved'
  <2>1. CASE End(r, "done")
    BY <1>0, <1>5, <1>ended, <2>1, EndSaved DEF EndRound
  <2>2. CASE ~End(r, "done")
    <3>1. pc' = [pc EXCEPT ![r] = "streaming"] /\ UNCHANGED <<cv, asks, writes, after, log>>
      BY <1>5, <2>2 DEF EndRound
    <3>2. Replying(r) /\ pc'[r] = "streaming" /\ \A s \in Requests \ {r} : pc'[s] = pc[s]
      BY <1>5, <3>1 DEF EndRound, Replying, Typed, Own
    <3>3. QED BY <3>1, <3>2, MoveSaved
  <2>3. QED BY <2>1, <2>2
<1>6. ASSUME UNCHANGED <<log, pc, cv, asks, writes, after>> PROVE AllSaved'
  BY <1>0, <1>6, SavedKept DEF AllSaved
<1>7. ASSUME NEW r \in Requests, ShowCard(r) PROVE AllSaved'
  BY <1>6, <1>7 DEF ShowCard
<1>8. ASSUME NEW i \in Instances, NewChat(i) PROVE AllSaved'
  BY <1>6, <1>8 DEF NewChat
<1>9. ASSUME NEW c \in Requests, CloseOrDelete(c) PROVE AllSaved'
  BY <1>6, <1>9 DEF CloseOrDelete
<1>10. CASE UNCHANGED vars
  BY <1>6, <1>10 DEF vars
<1>11. ASSUME NEW r \in Requests, ServerStep(r) PROVE AllSaved'
  BY <1>1, <1>2, <1>3, <1>4, <1>5, <1>7, <1>11, CommitSaved DEF ServerStep
<1>12. QED BY <1>1, <1>8, <1>9, <1>10, <1>11, AskSaved DEF Next, Finished

\* Once a reply to a card answer has started, the answer is stored, on any number of instances:
\* what the user chose is committed before the first event of the stream (handle_chat_stream).
THEOREM AnswerSavedFirst == Spec => []SavedBeforeReply
<1>1. Init => AllSaved
  BY DEF Init, AllSaved, Saved
<1>2. AllSaved => SavedBeforeReply
  BY DEF AllSaved, Saved, Replying, SavedBeforeReply
<1>3. QED BY <1>1, <1>2, SavedStep, TypedInit, TypedStep, PTL DEF Spec

-----------------------------------------------------------------------------
(* Who asked for what.                                                    *)

CallsOf(c) == {k \in Call : \E i \in DOMAIN log[c] : k \in Elements(log[c][i].calls)}
Pending(r) == {k \in Call : \E i \in DOMAIN writes[r] : k \in Elements(writes[r][i].calls)}
Held(r) == Elements(todo[r]) \cup ({shown[r]} \ {NoCall})
Writing(r) == pc[r] \in {"flush", "commit"}

\* A call in a log was asked for by a request that is replying or has ended, in a round that it
\* has reached, and has passed when it asks the model again.
Past(k) ==
  \/ pc[k.by] \in Ended
  \/ /\ Replying(k.by) /\ k.round <= round[k.by]
     /\ pc[k.by] = "streaming" \/ Pending(k.by) # {} => k.round # round[k.by]
Names ==
  /\ \A c \in Requests : \A k \in CallsOf(c) : Past(k)
  /\ \A r \in Requests :
       /\ ~Writing(r) => writes[r] = <<>>
       /\ pc[r] \in {"new"} \cup Ended => cv[r] = r
       /\ \A k \in Pending(r) : k.by = r /\ k.round = round[r] /\ Replying(r)
       /\ \A k \in Held(r) : /\ k.by = r /\ Replying(r) /\ pc[r] # "streaming"
                             /\ k \in Pending(r) \cup CallsOf(cv[r])
  /\ \A k \in delivered : pc[k.by] \in Ended

LEMMA CallFields == ASSUME NEW k \in Call PROVE k.by \in Requests /\ k.round \in 1..MaxRounds
  BY DEF Call

\* Requests that a step leaves alone.
Alone(s) ==
  /\ pc'[s] = pc[s] /\ after'[s] = after[s] /\ cv'[s] = cv[s] /\ writes'[s] = writes[s]
  /\ round'[s] = round[s] /\ todo'[s] = todo[s] /\ shown'[s] = shown[s]

LEMMA GrowsCalls ==
  ASSUME NEW c \in Requests, Grows(c)
  PROVE  CallsOf(c) \subseteq CallsOf(c)'
  BY DEF Grows, CallsOf

LEMMA AloneNames ==
  ASSUME Typed, Names, NEW s \in Requests, Alone(s), \A c \in Requests : Grows(c)
  PROVE  /\ (~Writing(s) => writes[s] = <<>>)'
         /\ (pc[s] \in {"new"} \cup Ended => cv[s] = s)'
         /\ \A k \in Pending(s)' : k.by = s /\ k.round = round'[s] /\ Replying(s)'
         /\ \A k \in Held(s)' : /\ k.by = s /\ Replying(s)' /\ pc'[s] # "streaming"
                                /\ k \in Pending(s)' \cup CallsOf(cv[s])'
         /\ \A k \in Call : k.by = s => (Past(k)' <=> Past(k))
<1>1. Pending(s)' = Pending(s) /\ Held(s)' = Held(s) /\ (Replying(s)' <=> Replying(s))
  BY DEF Alone, Pending, Held, Replying, Elements
<1>2. CallsOf(cv[s]) \subseteq CallsOf(cv[s])'
  <2>1. cv[s] \in Requests
    BY DEF Typed, Own
  <2>2. \A i \in DOMAIN log[cv[s]] : i \in DOMAIN log'[cv[s]] /\ log'[cv[s]][i] = log[cv[s]][i]
    BY <2>1 DEF Grows
  <2>3. cv'[s] = cv[s]
    BY DEF Alone
  <2>4. QED BY <2>2, <2>3 DEF CallsOf
<1>3. ASSUME NEW k \in Call, k.by = s PROVE Past(k)' <=> Past(k)
  BY <1>1, <1>3 DEF Alone, Past
<1>4. QED BY <1>1, <1>2, <1>3 DEF Alone, Names, Writing

\* The step of one request: what is left to show is about it and what it adds to a log.
LEMMA StepNames ==
  ASSUME Typed, Names, NEW r \in Requests, \A s \in Requests \ {r} : Alone(s),
         \A c \in Requests : Grows(c),
         \A c \in Requests : \A k \in CallsOf(c)' : k \in CallsOf(c) \/ (k.by = r /\ Past(k)'),
         \A k \in Call : k.by = r /\ Past(k) => Past(k)',
         ~Writing(r)' => writes'[r] = <<>>, pc'[r] \in {"new"} \cup Ended => cv'[r] = r,
         \A k \in Pending(r)' : k.by = r /\ k.round = round'[r] /\ Replying(r)',
         \A k \in Held(r)' : /\ k.by = r /\ Replying(r)' /\ pc'[r] # "streaming"
                             /\ k \in Pending(r)' \cup CallsOf(cv[r])',
         \A k \in delivered' : k \in delivered \/ (k \in Call /\ k.by = r /\ pc'[r] \in Ended),
         pc[r] \in Ended => pc'[r] \in Ended
  PROVE  Names'
<1>1. ASSUME NEW c \in Requests, NEW k \in CallsOf(c)' PROVE Past(k)'
  <2>1. k \in Call
    BY DEF CallsOf
  <2>2. CASE k.by = r
    <3>1. k \in CallsOf(c) => Past(k)'
      BY <2>1, <2>2 DEF Names
    <3>2. QED BY <3>1
  <2>3. CASE k.by # r
    <3>1. k \in CallsOf(c) /\ k.by \in Requests
      BY <2>1, <2>3, CallFields
    <3>2. Past(k)
      BY <3>1 DEF Names
    <3>3. QED BY <2>1, <2>3, <3>1, <3>2, AloneNames
  <2>4. QED BY <2>2, <2>3
<1>2. ASSUME NEW k \in delivered' PROVE pc'[k.by] \in Ended
  <2>1. CASE k \in delivered
    <3>1. k \in Call /\ k.by \in Requests /\ pc[k.by] \in Ended
      BY <2>1, CallFields DEF Names, Typed, Common
    <3>2. QED BY <3>1 DEF Alone
  <2>2. QED BY <2>1
<1>3. ASSUME NEW s \in Requests
      PROVE  /\ (~Writing(s) => writes[s] = <<>>)'
             /\ (pc[s] \in {"new"} \cup Ended => cv[s] = s)'
             /\ \A k \in Pending(s)' : k.by = s /\ k.round = round'[s] /\ Replying(s)'
             /\ \A k \in Held(s)' : /\ k.by = s /\ Replying(s)' /\ pc'[s] # "streaming"
                                    /\ k \in Pending(s)' \cup CallsOf(cv[s])'
  <2>1. CASE s = r
    BY <2>1
  <2>2. CASE s # r
    BY <2>2, AloneNames
  <2>3. QED BY <2>1, <2>2
<1>4. QED BY <1>1, <1>2, <1>3 DEF Names

LEMMA EndNames ==
  ASSUME Typed, Names, NEW r \in Requests, NEW how \in Ended, End(r, how),
         \A c \in Requests : Grows(c),
         \A c \in Requests : \A k \in CallsOf(c)' : k \in CallsOf(c) \/ k.by = r,
         delivered' \subseteq delivered \cup Held(r)
  PROVE  Names'
<1>1. /\ pc'[r] = how /\ writes'[r] = <<>> /\ cv'[r] = r /\ todo'[r] = <<>> /\ shown'[r] = NoCall
      /\ \A s \in Requests \ {r} : Alone(s)
  BY DEF Typed, Own, End, Alone
<1>2. Pending(r)' = {} /\ Held(r)' = {}
  BY <1>1 DEF Pending, Held, Elements
<1>3. \A k \in Call : k.by = r => Past(k)'
  BY <1>1 DEF Past
<1>4. \A c \in Requests : \A k \in CallsOf(c)' : k \in CallsOf(c) \/ (k.by = r /\ Past(k)')
  BY <1>3 DEF CallsOf
<1>5. \A k \in delivered' : k \in delivered \/ (k \in Call /\ k.by = r /\ pc'[r] \in Ended)
  <2>1. Held(r) \subseteq Call
    BY DEF Held, Elements, Typed, Own
  <2>2. QED BY <1>1, <2>1 DEF Names
<1>6. /\ pc'[r] \in {"new"} \cup Ended => cv'[r] = r
      /\ ~Writing(r)' => writes'[r] = <<>>
      /\ pc'[r] \in Ended
  BY <1>1
<1>7. /\ \A k \in Pending(r)' : k.by = r /\ k.round = round'[r] /\ Replying(r)'
      /\ \A k \in Held(r)' : /\ k.by = r /\ Replying(r)' /\ pc'[r] # "streaming"
                             /\ k \in Pending(r)' \cup CallsOf(cv[r])'
  BY <1>2
<1>8. \A k \in Call : k.by = r /\ Past(k) => Past(k)'
  BY <1>3
<1>9. QED BY <1>1, <1>4, <1>5, <1>6, <1>7, <1>8, StepNames

LEMMA SameLog ==
  ASSUME log' = log
  PROVE  /\ \A c \in Requests : Grows(c) /\ CallsOf(c)' = CallsOf(c)
         /\ \A c \in Requests : \A k \in CallsOf(c)' : k \in CallsOf(c)
  BY DEF Grows, CallsOf

\* Results and texts ask for nothing.
LEMMA RepliesAskNothing ==
  ASSUME NEW open \in Seq(Call), NEW k \in Call \cup {NoCall}, NEW i \in DOMAIN Replies(open, k)
  PROVE  Replies(open, k)[i].calls = <<>>
<1> DEFINE ms == Replies(open, k)
           others == Unless(open, {k})
<1>1. /\ ms \in Seq(Message) /\ Len(ms) = Len(others) + 1 /\ Len(others) \in Nat /\ others \in Seq(Call)
      /\ ms[Len(ms)] = IF k = NoCall THEN UserText ELSE ResultOf(k, "saved")
      /\ \A j \in DOMAIN others : ms[j] = ResultOf(others[j], "skipped")
  BY RepliesFacts
<1> HIDE DEF ms, others
<1>2. i \in 1..(Len(others) + 1) /\ DOMAIN others = 1..Len(others)
  BY <1>1 DEF ms
<1>3. i = Len(ms) \/ i \in DOMAIN others
  BY <1>1, <1>2
<1>4. UserText.calls = <<>> /\ \A q, kind : ResultOf(q, kind).calls = <<>>
  BY DEF UserText, ResultOf
<1>5. ms[i].calls = <<>>
  <2>1. CASE i = Len(ms)
    <3>1. ms[i] = UserText \/ ms[i] = ResultOf(k, "saved")
      BY <1>1, <2>1
    <3>2. QED BY <1>4, <3>1
  <2>2. CASE i \in DOMAIN others
    BY <1>1, <1>4, <2>2
  <2>3. QED BY <1>3, <2>1, <2>2
<1>6. QED BY <1>5 DEF ms

LEMMA AskNames ==
  ASSUME Typed, Names, NEW r \in Requests, Ask(r)
  PROVE  Names'
<1>1. PICK c \in Lookup(r), k \in {NoCall} \cup delivered :
        /\ cv' = [cv EXCEPT ![r] = c]
        /\ Insert(r, Replies(Unanswered(Recent(log[c])), k), "open")
  BY DEF Ask
<1> DEFINE open == Unanswered(Recent(log[c]))
<1>2. c \in Requests /\ k \in Call \cup {NoCall}
  BY DEF Lookup, Typed, Common
<1>3. open \in Seq(Call)
  <2>1. log[c] \in Seq(Message)
    BY <1>2 DEF Typed, Common
  <2>2. Recent(log[c]) \in Seq(Message)
    BY <2>1, RecentFacts
  <2>3. QED BY <2>2, UnansweredFacts
<1> HIDE DEF open
<1>4. /\ pc[r] = "new" /\ pc'[r] = "flush" /\ after'[r] = "open" /\ writes'[r] = Replies(open, k)
      /\ todo'[r] = todo[r] /\ shown'[r] = shown[r]
      /\ \A s \in Requests \ {r} : Alone(s)
  BY <1>1 DEF Ask, Insert, Typed, Own, Alone, streamVars, open
<1>5. log' = log /\ delivered' = delivered
  BY DEF Ask, tables, clientVars
<1>6. ~Replying(r) /\ pc[r] \notin Ended /\ pc'[r] \notin {"new"} \cup Ended /\ Writing(r)'
  BY <1>4 DEF Replying, Ended, Writing
<1>7. \A q \in Call : q.by = r => ~Past(q)
  BY <1>6 DEF Past
<1>8. Pending(r)' = {}
  <2>1. \A i \in DOMAIN writes'[r] : Elements(writes'[r][i].calls) = {}
    BY <1>2, <1>3, <1>4, RepliesAskNothing DEF Elements
  <2>2. QED BY <2>1 DEF Pending
<1>9. Held(r)' = {}
  <2>1. Held(r) = {}
    BY <1>6 DEF Names
  <2>2. QED BY <1>4, <2>1 DEF Held
<1>10. QED BY <1>4, <1>5, <1>6, <1>7, <1>8, <1>9, SameLog, StepNames

\* What a commit adds to the calls of its conversation.
LEMMA CommitCalls ==
  ASSUME Typed, NEW r \in Requests, Commit(r)
  PROVE  \A c \in Requests :
           CallsOf(c)' = IF c = cv[r] THEN CallsOf(c) \cup Pending(r) ELSE CallsOf(c)
<1>1. cv[r] \in Requests /\ log[cv[r]] \in Seq(Message) /\ writes[r] \in Seq(Message)
  BY DEF Typed, Own, Common
<1> DEFINE old == log[cv[r]]
           all == log'[cv[r]]
<1>2. /\ \A i \in DOMAIN old : i \in DOMAIN all /\ all[i] = old[i]
      /\ \A i \in DOMAIN writes[r] : Len(old) + i \in DOMAIN all /\ all[Len(old) + i] = writes[r][i]
      /\ \A i \in DOMAIN all : i \in DOMAIN old \/ i - Len(old) \in DOMAIN writes[r]
      /\ \A c \in Requests : c # cv[r] => log'[c] = log[c]
  BY <1>1, CommitGrows DEF Grows
<1>3. \A i \in DOMAIN all : i \in DOMAIN old \/
        (i - Len(old) \in DOMAIN writes[r] /\ all[i] = writes[r][i - Len(old)])
  <2>1. ASSUME NEW i \in DOMAIN all, i - Len(old) \in DOMAIN writes[r]
        PROVE  all[i] = writes[r][i - Len(old)]
    <3>1. all \in Seq(Message) /\ Len(old) \in Nat
      BY <1>1, CommitTyped DEF Typed, Common
    <3>2. i \in Nat
      BY <3>1
    <3>3. Len(old) + (i - Len(old)) = i
      BY <3>1, <3>2
    <3>4. QED BY <1>2, <2>1, <3>3
  <2>2. QED BY <1>2, <2>1
<1> HIDE DEF old, all
<1>4. {k \in Call : \E i \in DOMAIN all : k \in Elements(all[i].calls)} =
        {k \in Call : \E i \in DOMAIN old : k \in Elements(old[i].calls)} \cup Pending(r)
  BY <1>2, <1>3 DEF Pending
<1>5. ASSUME NEW c \in Requests, c = cv[r] PROVE CallsOf(c)' = CallsOf(c) \cup Pending(r)
  BY <1>4, <1>5 DEF CallsOf, old, all
<1>6. ASSUME NEW c \in Requests, c # cv[r] PROVE CallsOf(c)' = CallsOf(c)
  BY <1>2, <1>6 DEF CallsOf
<1>7. QED BY <1>5, <1>6

LEMMA CommitNames ==
  ASSUME Typed, Names, NEW r \in Requests, Commit(r)
  PROVE  Names'
<1>1. \A c \in Requests : Grows(c)
  BY CommitGrows
<1>2. /\ pc[r] = "commit" /\ cv[r] \in Requests /\ delivered' = delivered
      /\ \A k \in Pending(r) : k \in Call /\ k.by = r /\ k.round = round[r] /\ Replying(r)
  BY DEF Commit, Typed, Own, clientVars, Names, Pending
<1>3. \A c \in Requests : \A k \in CallsOf(c)' : k \in CallsOf(c) \/ k \in Pending(r)
  BY CommitCalls
<1>4. CASE after[r] = "done"
  <2>1. End(r, "done") /\ "done" \in Ended
    BY <1>4 DEF Commit, Ended
  <2>2. QED BY <1>1, <1>2, <1>3, <2>1, EndNames
<1>5. CASE after[r] # "done"
  <2>1. /\ pc' = [pc EXCEPT ![r] = after[r]] /\ writes' = [writes EXCEPT ![r] = <<>>]
        /\ UNCHANGED <<cv, after, round, todo, shown>>
    BY <1>5 DEF Commit
  <2>2. /\ pc'[r] = after[r] /\ writes'[r] = <<>> /\ after[r] \in {"open", "tools"}
        /\ \A s \in Requests \ {r} : Alone(s)
    BY <1>5, <2>1 DEF Typed, Own, Alone
  <2>3. /\ ~Writing(r)' /\ pc'[r] \notin {"new"} \cup Ended /\ pc'[r] # "streaming"
        /\ Replying(r) => Replying(r)'
    BY <1>2, <2>1, <2>2 DEF Writing, Replying, Ended
  <2>4. Pending(r)' = {} /\ Held(r)' = Held(r)
    BY <2>1, <2>2 DEF Pending, Held
  <2>5. \A k \in Call : k.by = r /\ Replying(r) /\ k.round <= round[r] => Past(k)'
    BY <2>1, <2>3, <2>4 DEF Past
  <2>6. pc[r] \notin Ended /\ pc[r] # "streaming"
    BY <1>2 DEF Ended
  <2>7. \A k \in Call : k.by = r /\ Past(k) => Past(k)'
    BY <2>5, <2>6 DEF Past
  <2>8. \A k \in Pending(r) : k.by = r /\ Past(k)'
    <3>1. round[r] \in Nat
      BY DEF Typed, Own
    <3>2. QED BY <1>2, <2>5, <3>1
  <2>9. ASSUME NEW k \in Held(r)'
        PROVE  /\ k.by = r /\ Replying(r)' /\ pc'[r] # "streaming"
               /\ k \in Pending(r)' \cup CallsOf(cv[r])'
    <3>1. k.by = r /\ Replying(r) /\ k \in Pending(r) \cup CallsOf(cv[r])
      BY <2>4 DEF Names
    <3>2. \A c : c = cv[r] => k \in CallsOf(c)'
      BY <1>2, <3>1, CommitCalls
    <3>3. k \in CallsOf(cv[r])'
      BY <2>1, <3>2
    <3>4. QED BY <2>3, <3>1, <3>3
  <2>10. \A c \in Requests : \A k \in CallsOf(c)' : k \in CallsOf(c) \/ (k.by = r /\ Past(k)')
    <3>1. ASSUME NEW c \in Requests, NEW k \in CallsOf(c)'
          PROVE  k \in CallsOf(c) \/ (k.by = r /\ Past(k)')
      <4>1. k \in CallsOf(c) \/ k \in Pending(r)
        BY <1>3
      <4>2. QED BY <2>8, <4>1
    <3>2. QED BY <3>1
  <2>11. QED BY <1>1, <1>2, <2>2, <2>3, <2>4, <2>6, <2>7, <2>9, <2>10, StepNames
<1>6. QED BY <1>4, <1>5

\* A request that adds nothing to a log and keeps what it holds, or starts to hold new calls.
LEMMA MoveNames ==
  ASSUME Typed, Names, NEW r \in Requests, \A s \in Requests \ {r} : Alone(s), log' = log,
         delivered' = delivered, pc[r] \notin Ended, pc'[r] \notin {"new"} \cup Ended,
         \A k \in Call : k.by = r /\ Past(k) => Past(k)', ~Writing(r)' => writes'[r] = <<>>,
         \A k \in Pending(r)' : k.by = r /\ k.round = round'[r] /\ Replying(r)',
         \A k \in Held(r)' :
           /\ k.by = r /\ Replying(r)' /\ pc'[r] # "streaming"
           /\ k \in Pending(r)' \/ (k \in Held(r) /\ cv'[r] = cv[r] /\ Pending(r) \subseteq Pending(r)')
  PROVE  Names'
<1>1. /\ \A c \in Requests : Grows(c) /\ CallsOf(c)' = CallsOf(c)
      /\ \A c \in Requests : \A k \in CallsOf(c)' : k \in CallsOf(c)
  BY SameLog
<1>2. ASSUME NEW k \in Held(r)' PROVE k \in Pending(r)' \cup CallsOf(cv[r])'
  <2>1. CASE k \in Held(r) /\ cv'[r] = cv[r] /\ Pending(r) \subseteq Pending(r)'
    <3>1. k \in Pending(r) \/ k \in CallsOf(cv[r])
      BY <2>1 DEF Names
    <3>2. CallsOf(cv[r])' = CallsOf(cv[r])
      BY <2>1 DEF CallsOf
    <3>3. QED BY <2>1, <3>1, <3>2
  <2>2. QED BY <2>1
<1>3. QED BY <1>1, <1>2, StepNames

LEMMA GeneratorNames ==
  ASSUME Typed, Names, NEW r \in Requests, ModelAnswers(r) \/ ModelCalls(r) \/ RunTool(r)
  PROVE  Names'
<1> USE DEF tables, streamVars, requestVars, clientVars
<1>1. PICK next \in {"tools", "done"} : \E ms : Insert(r, ms, next)
  BY DEF ModelAnswers, ModelCalls, RunTool
<1>2. /\ pc[r] \in {"streaming", "tools"} /\ pc'[r] = "flush" /\ after'[r] = next
      /\ \A s \in Requests \ {r} : pc'[s] = pc[s] /\ after'[s] = after[s] /\ writes'[s] = writes[s]
      /\ UNCHANGED <<log, cv, round, shown, delivered>>
  BY <1>1 DEF ModelAnswers, ModelCalls, RunTool, Insert, Typed, Own
<1>3. \A s \in Requests \ {r} : Alone(s)
  <2>1. \A s \in Requests \ {r} : todo'[s] = todo[s]
    BY DEF ModelAnswers, ModelCalls, RunTool, Typed, Own
  <2>2. QED BY <1>2, <2>1 DEF Alone
<1>4. /\ Replying(r) /\ Replying(r)' /\ pc[r] \notin Ended /\ pc'[r] \notin {"new"} \cup Ended
      /\ Writing(r)' /\ pc'[r] # "streaming" /\ writes[r] = <<>>
  BY <1>2 DEF Replying, Ended, Writing, Names
<1>5. Pending(r) = {}
  BY <1>4 DEF Pending
<1>6. \A k \in Call : k.by = r /\ Past(k) /\ (Pending(r)' = {} \/ pc[r] = "streaming") => Past(k)'
  <2>1. \A k \in Call : k.by = r /\ Past(k) => k.round <= round[r] /\ (pc[r] = "streaming" => k.round # round[r])
    BY <1>4 DEF Past
  <2>2. QED BY <1>2, <1>4, <2>1 DEF Past
<1>7. CASE ModelAnswers(r) \/ RunTool(r)
  <2>1. Pending(r)' = {}
    <3>1. AssistantText.calls = <<>> /\ \A k, kind : ResultOf(k, kind).calls = <<>>
      BY DEF AssistantText, ResultOf
    <3>2. \E m : writes'[r] = <<m>> /\ m.calls = <<>>
      BY <1>7, <3>1 DEF ModelAnswers, RunTool, Insert, Typed, Own
    <3>3. QED BY <3>2 DEF Pending, Elements
  <2>2. Held(r)' \subseteq Held(r)
    <3>1. CASE ModelAnswers(r)
      BY <3>1 DEF ModelAnswers, Held
    <3>2. CASE RunTool(r)
      <4>1. todo[r] \in Seq(Call) /\ todo[r] # <<>> /\ todo'[r] = Tail(todo[r])
        BY <3>2 DEF RunTool, Typed, Own
      <4>2. Elements(Tail(todo[r])) \subseteq Elements(todo[r])
        BY <4>1 DEF Elements
      <4>3. QED BY <1>2, <4>1, <4>2 DEF Held
    <3>3. QED BY <1>7, <3>1, <3>2
  <2>3. ASSUME NEW k \in Held(r)'
        PROVE  k.by = r /\ k \in Held(r) /\ cv'[r] = cv[r] /\ Pending(r) \subseteq Pending(r)'
    BY <1>2, <1>5, <2>2 DEF Names
  <2>4. QED BY <1>2, <1>3, <1>4, <1>6, <2>1, <2>3, MoveNames
<1>8. CASE ModelCalls(r)
  <2>1. PICK shape \in Shapes : Insert(r, <<Asking(Named(r, shape))>>, "tools")
                                /\ todo' = [todo EXCEPT ![r] = Named(r, shape)]
    BY <1>8 DEF ModelCalls, Named
  <2> DEFINE ks == Named(r, shape)
  <2>2. round[r] # 0
    BY <1>4 DEF Typed, Own
  <2>3. ks \in Seq(Call)
    BY <2>2, NamedTyped
  <2>4. \A k \in Elements(ks) : k \in Call /\ k.by = r /\ k.round = round[r]
    <3>1. \A i \in DOMAIN ks : ks[i].by = r /\ ks[i].round = round[r]
      BY DEF Named
    <3>2. QED BY <2>3, <3>1 DEF Elements
  <2> HIDE DEF ks
  <2>5. writes'[r] = <<Asking(ks)>> /\ todo'[r] = ks
    BY <2>1 DEF Insert, Typed, Own, ks
  <2>6. Pending(r)' = Elements(ks)
    <3>1. Asking(ks).calls = ks
      BY DEF Asking
    <3>2. QED BY <2>4, <2>5, <3>1 DEF Pending
  <2>7. Held(r)' = Elements(ks)
    <3>1. pc[r] = "streaming"
      BY <1>8 DEF ModelCalls
    <3>2. Held(r) = {}
      BY <3>1 DEF Names
    <3>3. shown'[r] = NoCall
      BY <1>2, <3>2 DEF Held
    <3>4. QED BY <2>5, <3>3 DEF Held
  <2>8. pc[r] = "streaming"
    BY <1>8 DEF ModelCalls
  <2>9. QED BY <1>2, <1>3, <1>4, <1>6, <2>4, <2>6, <2>7, <2>8, MoveNames
<1>9. QED BY <1>7, <1>8

LEMMA EndRoundNames ==
  ASSUME Typed, Names, NEW r \in Requests, EndRound(r)
  PROVE  Names'
<1>1. log' = log /\ pc[r] = "tools" /\ todo[r] = <<>> /\ delivered' = delivered \cup ({shown[r]} \ {NoCall})
  BY DEF EndRound, tables
<1>2. CASE End(r, "done")
  BY <1>1, <1>2, SameLog, EndNames DEF Held, Ended
<1>3. CASE ~End(r, "done")
  <2>1. /\ shown[r] = NoCall /\ pc' = [pc EXCEPT ![r] = "streaming"]
        /\ round' = [round EXCEPT ![r] = @ + 1] /\ UNCHANGED <<cv, writes, after, todo, shown>>
    BY <1>3 DEF EndRound
  <2>2. /\ pc'[r] = "streaming" /\ round'[r] = round[r] + 1 /\ round[r] \in Nat /\ delivered' = delivered
        /\ \A s \in Requests \ {r} : Alone(s)
    BY <1>1, <2>1 DEF Typed, Own, Alone
  <2>3. /\ ~Writing(r) /\ ~Writing(r)' /\ Replying(r) /\ Replying(r)' /\ pc[r] \notin Ended
        /\ pc'[r] \notin {"new"} \cup Ended
    BY <1>1, <2>2 DEF Writing, Replying, Ended
  <2>4. writes'[r] = <<>>
    BY <2>1, <2>3 DEF Names
  <2>5. Held(r)' = {} /\ Pending(r)' = {}
    BY <1>1, <2>1, <2>4 DEF Held, Pending, Elements
  <2>6. ASSUME NEW k \in Call, k.by = r, Past(k) PROVE Past(k)'
    <3>1. k.round <= round[r] /\ k.round \in Nat
      BY <2>3, <2>6, CallFields DEF Past
    <3>2. k.round <= round'[r] /\ k.round # round'[r]
      BY <2>2, <3>1
    <3>3. QED BY <2>3, <2>6, <3>2 DEF Past
  <2>7. QED BY <1>1, <2>2, <2>3, <2>4, <2>5, <2>6, MoveNames
<1>4. QED BY <1>2, <1>3

LEMMA NamesStep == Typed /\ Names /\ [Next]_vars => Names'
<1> SUFFICES ASSUME Typed, Names, [Next]_vars PROVE Names'
  OBVIOUS
<1> USE DEF tables, streamVars, requestVars, clientVars
<1>ended. "done" \in Ended /\ "refused" \in Ended
  BY DEF Ended
<1>1. ASSUME NEW r \in Requests,
             Refuse(r) \/ Break(r) \/ FlushRejected(r) \/ OpenRejected(r) \/ ModelIsSilent(r) \/ StreamFails(r)
      PROVE  Names'
  <2>1. log' = log /\ delivered' = delivered /\ \E how \in Ended : End(r, how)
    BY <1>1, <1>ended DEF Refuse, Break, FlushRejected, OpenRejected, ModelIsSilent, StreamFails
  <2>2. QED BY <2>1, SameLog, EndNames
<1>2. ASSUME NEW r \in Requests, Flush(r) PROVE Names'
  <2>1. /\ pc[r] = "flush" /\ pc'[r] = "commit" /\ \A s \in Requests \ {r} : Alone(s)
        /\ UNCHANGED <<log, delivered, cv, after, writes, round, todo, shown>>
    BY <1>2 DEF Flush, Typed, Own, Alone
  <2>2. /\ Replying(r) => Replying(r)'
        /\ Pending(r)' = Pending(r) /\ Held(r)' = Held(r) /\ Writing(r)'
        /\ pc[r] \notin Ended /\ pc'[r] \notin {"new"} \cup Ended /\ pc'[r] # "streaming"
    <3>1. Replying(r) => Replying(r)'
      BY <2>1 DEF Replying
    <3>2. Pending(r)' = Pending(r) /\ Held(r)' = Held(r)
      BY <2>1 DEF Pending, Held
    <3>3. QED BY <2>1, <3>1, <3>2 DEF Writing, Ended
  <2>3. \A k \in Call : k.by = r /\ Past(k) => Past(k)'
    BY <2>1, <2>2 DEF Past
  <2>4. /\ \A k \in Pending(r) : k.by = r /\ k.round = round[r] /\ Replying(r)
        /\ \A k \in Held(r) : k.by = r /\ Replying(r)
    BY DEF Names
  <2>5. QED BY <2>1, <2>2, <2>3, <2>4, MoveNames
<1>3. ASSUME NEW r \in Requests, Open(r) PROVE Names'
  <2>1. /\ pc[r] = "open" /\ pc'[r] = "streaming" /\ \A s \in Requests \ {r} : Alone(s)
        /\ UNCHANGED <<log, delivered, cv, after, writes, todo, shown>>
    BY <1>3 DEF Open, Typed, Own, Alone
  <2>2. /\ ~Replying(r) /\ ~Writing(r) /\ ~Writing(r)' /\ pc[r] \notin Ended
        /\ pc'[r] \notin {"new"} \cup Ended
    BY <2>1 DEF Replying, Writing, Ended
  <2>3. \A k \in Call : k.by = r => ~Past(k)
    BY <2>2 DEF Past
  <2>4. Held(r)' = {} /\ writes'[r] = <<>>
    <3>1. Held(r) = {} /\ writes[r] = <<>>
      BY <2>2 DEF Names
    <3>2. QED BY <2>1, <3>1 DEF Held
  <2>5. Pending(r)' = {}
    BY <2>4 DEF Pending
  <2>6. QED BY <2>1, <2>2, <2>3, <2>4, <2>5, MoveNames
<1>4. ASSUME NEW r \in Requests, ShowCard(r) PROVE Names'
  <2>1. /\ pc[r] = "tools" /\ todo[r] # <<>> /\ todo[r] \in Seq(Call) /\ shown[r] = NoCall
        /\ shown'[r] = Head(todo[r]) /\ todo'[r] = Tail(todo[r])
        /\ \A s \in Requests \ {r} : Alone(s)
        /\ UNCHANGED <<log, delivered, pc, cv, after, writes, round>>
    BY <1>4 DEF ShowCard, Typed, Own, Alone
  <2>2. Held(r)' \subseteq Held(r)
    <3>1. Head(todo[r]) \in Elements(todo[r]) /\ Elements(Tail(todo[r])) \subseteq Elements(todo[r])
      BY <2>1 DEF Elements
    <3>2. QED BY <2>1, <3>1 DEF Held
  <2>3. /\ Replying(r) /\ Replying(r)' /\ Pending(r)' = Pending(r) /\ ~Writing(r) /\ ~Writing(r)'
        /\ pc[r] \notin Ended /\ pc'[r] \notin {"new"} \cup Ended
    BY <2>1 DEF Replying, Pending, Writing, Ended
  <2>4. \A k \in Call : k.by = r /\ Past(k) => Past(k)'
    BY <2>1, <2>3 DEF Past
  <2>5. /\ writes'[r] = <<>>
        /\ \A k \in Held(r) : k.by = r
    BY <2>1, <2>3 DEF Names
  <2>6. Pending(r)' = {}
    BY <2>5 DEF Pending
  <2>7. QED BY <2>1, <2>2, <2>3, <2>4, <2>5, <2>6, MoveNames
<1>5. ASSUME UNCHANGED <<log, pc, cv, after, writes, round, todo, shown, delivered>> PROVE Names'
  <2>1. /\ \A c : CallsOf(c)' = CallsOf(c)
        /\ \A r : Pending(r)' = Pending(r) /\ Held(r)' = Held(r)
    BY <1>5 DEF CallsOf, Pending, Held
  <2>2. \A r : (Writing(r) => Writing(r)') /\ (Writing(r)' => Writing(r)) /\ (Replying(r) => Replying(r)')
    BY <1>5 DEF Writing, Replying
  <2>3. \A k : Past(k) => Past(k)'
    BY <1>5, <2>1, <2>2 DEF Past
  <2>4. QED BY <1>5, <2>1, <2>2, <2>3 DEF Names
<1>6. ASSUME NEW i \in Instances, NewChat(i) PROVE Names'
  BY <1>5, <1>6 DEF NewChat
<1>7. ASSUME NEW c \in Requests, CloseOrDelete(c) PROVE Names'
  BY <1>5, <1>7 DEF CloseOrDelete
<1>8. CASE UNCHANGED vars
  BY <1>5, <1>8 DEF vars
<1>9. ASSUME NEW r \in Requests, ServerStep(r) PROVE Names'
  BY <1>1, <1>2, <1>3, <1>4, <1>9, CommitNames, GeneratorNames, EndRoundNames DEF ServerStep
<1>10. QED BY <1>1, <1>6, <1>7, <1>8, <1>9, AskNames DEF Next, Finished

LEMMA NamesInit == Init => Names
  BY DEF Init, Names, CallsOf, Pending, Held, Writing, Elements

-----------------------------------------------------------------------------
(* The dialogue in a log.                                                  *)

\* Only a message with calls asks, only a result answers, and no call is asked for twice at once.
Formed(m) ==
  /\ m.kind # "calls" => m.calls = <<>>
  /\ m.of # NoCall => m.kind \in ResultKinds
  /\ m.kind \in ResultKinds => m.of # NoCall
  /\ Distinct(m.calls)

\* A call is asked for by one message of a log, and its results come later.
Once(c) == \A i, j \in DOMAIN log[c] : \A k \in Elements(log[c][i].calls) :
             k \in Elements(log[c][j].calls) => i = j
Behind(c) == \A j \in DOMAIN log[c] : log[c][j].of # NoCall =>
               \E i \in DOMAIN log[c] : i < j /\ log[c][j].of \in Elements(log[c][i].calls)
LogFormed(c) == (\A i \in DOMAIN log[c] : Formed(log[c][i])) /\ Once(c) /\ Behind(c)

\* What a request is about to store answers calls of its conversation, or asks in one message.
Known(r) == \A i \in DOMAIN writes[r] : writes[r][i].of # NoCall => writes[r][i].of \in CallsOf(cv[r])
WritesFormed(r) ==
  /\ \A i \in DOMAIN writes[r] : Formed(writes[r][i])
  /\ Known(r)
  /\ Pending(r) # {} => Len(writes[r]) = 1
Dialogue == (\A c \in Requests : LogFormed(c)) /\ (\A r \in Requests : WritesFormed(r))

LEMMA NothingWritten ==
  ASSUME NEW r \in Requests, writes[r] = <<>>
  PROVE  WritesFormed(r)
  BY DEF WritesFormed, Known, Pending

\* A step that stores nothing.
LEMMA QuietDialogue ==
  ASSUME Dialogue, log' = log,
         \A s \in Requests : (writes'[s] = writes[s] /\ cv'[s] = cv[s]) \/ WritesFormed(s)'
  PROVE  Dialogue'
<1>1. \A c \in Requests : LogFormed(c)'
  BY DEF Dialogue, LogFormed, Once, Behind
<1>2. ASSUME NEW s \in Requests, writes'[s] = writes[s], cv'[s] = cv[s] PROVE WritesFormed(s)'
  <2>1. CallsOf(cv[s])' = CallsOf(cv[s]) /\ Pending(s)' = Pending(s)
    BY <1>2 DEF CallsOf, Pending
  <2>2. QED BY <1>2, <2>1 DEF Dialogue, WritesFormed, Known
<1>3. QED BY <1>1, <1>2 DEF Dialogue

\* Where the messages of the log come from after a commit.
LEMMA CommitParts ==
  ASSUME Typed, NEW r \in Requests, Commit(r)
  PROVE  /\ cv[r] \in Requests /\ log[cv[r]] \in Seq(Message) /\ log'[cv[r]] \in Seq(Message)
         /\ writes[r] \in Seq(Message)
         /\ Len(log[cv[r]]) \in Nat /\ DOMAIN log[cv[r]] = 1..Len(log[cv[r]])
         /\ \A i \in DOMAIN log'[cv[r]] :
              /\ i \in Nat
              /\ \/ i \in DOMAIN log[cv[r]] /\ log'[cv[r]][i] = log[cv[r]][i]
                 \/ /\ i > Len(log[cv[r]]) /\ i - Len(log[cv[r]]) \in DOMAIN writes[r]
                    /\ log'[cv[r]][i] = writes[r][i - Len(log[cv[r]])]
<1> DEFINE old == log[cv[r]]
           all == log'[cv[r]]
<1>1. cv[r] \in Requests /\ old \in Seq(Message) /\ writes[r] \in Seq(Message)
  BY DEF Typed, Own, Common
<1>2. all \in Seq(Message)
  BY <1>1, CommitTyped DEF Typed, Common
<1>3. /\ \A i \in DOMAIN old : all[i] = old[i]
      /\ \A i \in DOMAIN writes[r] : all[Len(old) + i] = writes[r][i]
      /\ \A i \in DOMAIN all : i \in DOMAIN old \/ i - Len(old) \in DOMAIN writes[r]
  BY <1>1, CommitGrows DEF Grows
<1> HIDE DEF old, all
<1>4. Len(old) \in Nat /\ DOMAIN old = 1..Len(old)
  BY <1>1
<1>5. ASSUME NEW i \in DOMAIN all, i - Len(old) \in DOMAIN writes[r]
      PROVE  i > Len(old) /\ all[i] = writes[r][i - Len(old)]
  <2>1. i \in Nat /\ i - Len(old) >= 1
    BY <1>1, <1>2, <1>5
  <2>2. i > Len(old) /\ Len(old) + (i - Len(old)) = i
    BY <1>4, <2>1
  <2>3. QED BY <1>3, <1>5, <2>2
<1>6. \A i \in DOMAIN all : i \in Nat
  BY <1>2
<1>7. QED BY <1>1, <1>2, <1>3, <1>4, <1>5, <1>6 DEF old, all

\* A call that is about to be asked for is new.
LEMMA PendingIsNew ==
  ASSUME Typed, Names, NEW r \in Requests, NEW k \in Pending(r), NEW c \in Requests
  PROVE  k \notin CallsOf(c)
<1> SUFFICES ASSUME k \in CallsOf(c) PROVE FALSE
  OBVIOUS
<1>1. k.by = r /\ k.round = round[r] /\ Replying(r) /\ Past(k)
  BY DEF Names
<1>2. pc[r] \notin Ended
  BY <1>1 DEF Replying, Ended
<1>3. QED BY <1>1, <1>2 DEF Past

LEMMA CommitWrites ==
  ASSUME Typed, NEW r \in Requests, Commit(r)
  PROVE  /\ writes'[r] = <<>>
         /\ \A s \in Requests \ {r} :
              writes'[s] = writes[s] /\ cv'[s] = cv[s] /\ after'[s] = after[s]
<1>1. CASE after[r] = "done"
  BY <1>1 DEF Commit, End, Typed, Own
<1>2. CASE after[r] # "done"
  BY <1>2 DEF Commit, Typed, Own
<1>3. QED BY <1>1, <1>2

LEMMA CommitDialogue ==
  ASSUME Typed, Names, Dialogue, NEW r \in Requests, Commit(r)
  PROVE  Dialogue'
<1> DEFINE old == log[cv[r]]
           all == log'[cv[r]]
           ws == writes[r]
           new(i) == i > Len(old) /\ i - Len(old) \in DOMAIN ws /\ all[i] = ws[i - Len(old)]
<1>1. /\ cv[r] \in Requests /\ all \in Seq(Message) /\ Len(old) \in Nat /\ DOMAIN old = 1..Len(old)
      /\ ws \in Seq(Message)
      /\ \A i \in DOMAIN all : i \in Nat /\ ((i \in DOMAIN old /\ all[i] = old[i]) \/ new(i))
  BY CommitParts
<1>2. /\ \A i \in DOMAIN old : Formed(old[i])
      /\ \A i, j \in DOMAIN old : \A k \in Elements(old[i].calls) : k \in Elements(old[j].calls) => i = j
      /\ \A j \in DOMAIN old : old[j].of # NoCall =>
           \E i \in DOMAIN old : i < j /\ old[j].of \in Elements(old[i].calls)
  BY <1>1 DEF Dialogue, LogFormed, Once, Behind
<1>3. /\ \A i \in DOMAIN ws : Formed(ws[i])
      /\ \A i \in DOMAIN ws : ws[i].of # NoCall => ws[i].of \in CallsOf(cv[r])
      /\ Pending(r) # {} => Len(ws) = 1
  BY DEF Dialogue, WritesFormed, Known
<1>4. \A k : k \in CallsOf(cv[r]) => \E i \in DOMAIN old : k \in Elements(old[i].calls)
  BY DEF CallsOf
<1>5. \A i \in DOMAIN ws : \A k \in Elements(ws[i].calls) : k \in Pending(r)
  <2>1. \A i \in DOMAIN ws : ws[i].calls \in Seq(Call)
    <3>1. \A i \in DOMAIN ws : ws[i] \in Message
      BY <1>1
    <3>2. \A m \in Message : m.calls \in Seq(Call)
      BY DEF Message
    <3>3. QED BY <3>1, <3>2
  <2>2. \A i \in DOMAIN ws : Elements(ws[i].calls) \subseteq Call
    BY <2>1 DEF Elements
  <2>3. QED BY <2>2 DEF Pending
<1>6. \A i \in DOMAIN old : \A k \in Elements(old[i].calls) : k \notin Pending(r)
  <2>1. ASSUME NEW i \in DOMAIN old, NEW k \in Elements(old[i].calls), k \in Pending(r) PROVE FALSE
    <3>1. k \in Call
      BY <2>1 DEF Pending
    <3>2. k \in CallsOf(cv[r])
      BY <3>1 DEF CallsOf
    <3>3. QED BY <1>1, <2>1, <3>2, PendingIsNew
  <2>2. QED BY <2>1
<1>grown. \A i \in DOMAIN old : i \in DOMAIN all /\ all[i] = old[i]
  BY <1>1, CommitGrows DEF Grows
<1> HIDE DEF old, all, ws
<1>7. \A i \in DOMAIN all : Formed(all[i])
  BY <1>1, <1>2, <1>3
<1>8. ASSUME NEW i \in DOMAIN all, NEW j \in DOMAIN all, NEW k \in Elements(all[i].calls),
             k \in Elements(all[j].calls)
      PROVE  i = j
  <2>1. CASE i \in DOMAIN old /\ all[i] = old[i] /\ j \in DOMAIN old /\ all[j] = old[j]
    BY <1>2, <1>8, <2>1
  <2>2. CASE i \in DOMAIN old /\ all[i] = old[i] /\ new(j)
    BY <1>5, <1>6, <1>8, <2>2
  <2>3. CASE new(i) /\ j \in DOMAIN old /\ all[j] = old[j]
    BY <1>5, <1>6, <1>8, <2>3
  <2>4. CASE new(i) /\ new(j)
    <3>1. Len(ws) = 1 /\ DOMAIN ws = 1..Len(ws)
      <4>1. k \in Pending(r)
        BY <1>5, <1>8, <2>4
      <4>2. QED BY <1>1, <1>3, <4>1
    <3>2. i - Len(old) = 1 /\ j - Len(old) = 1
      BY <1>1, <2>4, <3>1
    <3>3. QED BY <1>1, <3>2
  <2>5. QED BY <1>1, <2>1, <2>2, <2>3, <2>4
<1>9. ASSUME NEW j \in DOMAIN all, all[j].of # NoCall
      PROVE  \E i \in DOMAIN all : i < j /\ all[j].of \in Elements(all[i].calls)
  <2>1. CASE j \in DOMAIN old /\ all[j] = old[j]
    BY <1>2, <1>9, <1>grown, <2>1
  <2>2. CASE new(j)
    <3>1. PICK i \in DOMAIN old : all[j].of \in Elements(old[i].calls)
      BY <1>3, <1>4, <1>9, <2>2
    <3>2. i < j
      BY <1>1, <2>2, <3>1
    <3>3. QED BY <1>grown, <3>1, <3>2
  <2>3. QED BY <1>1, <2>1, <2>2
<1>10. ASSUME NEW c \in Requests PROVE LogFormed(c)'
  <2>1. CASE c = cv[r]
    <3>1. log'[c] = all
      BY <2>1 DEF all
    <3>2. QED BY <1>7, <1>8, <1>9, <3>1 DEF LogFormed, Once, Behind
  <2>2. CASE c # cv[r]
    <3>1. log'[c] = log[c]
      BY <2>2, CommitGrows
    <3>2. QED BY <3>1 DEF Dialogue, LogFormed, Once, Behind
  <2>3. QED BY <2>1, <2>2
<1>11. ASSUME NEW s \in Requests PROVE WritesFormed(s)'
  <2>1. CASE s = r
    <3>1. writes'[r] = <<>>
      BY CommitWrites
    <3>2. QED BY <2>1, <3>1 DEF WritesFormed, Known, Pending
  <2>2. CASE s # r
    <3>1. writes'[s] = writes[s] /\ cv'[s] = cv[s] /\ cv[s] \in Requests
      BY <2>2, CommitWrites DEF Typed, Own
    <3>2. \A c : c = cv[s] => CallsOf(c) \subseteq CallsOf(c)'
      BY <3>1, CommitGrows, GrowsCalls
    <3>3. Pending(s)' = Pending(s)
      BY <3>1 DEF Pending
    <3>4. Known(s)'
      <4>1. CallsOf(cv[s]) \subseteq CallsOf(cv[s])'
        BY <3>1, <3>2
      <4>2. QED BY <3>1, <4>1 DEF Dialogue, WritesFormed, Known
    <3>5. QED BY <3>1, <3>3, <3>4 DEF Dialogue, WritesFormed
  <2>3. QED BY <2>1, <2>2
<1>12. QED BY <1>10, <1>11 DEF Dialogue

\* What the selection of open calls promises to the request that looks: they were asked for in
\* this conversation and have no result in the whole log, although only its end was read.
LEMMA OpenFacts ==
  ASSUME Typed, Dialogue, NEW c \in Requests
  PROVE  /\ Unanswered(Recent(log[c])) \in Seq(Call) /\ Distinct(Unanswered(Recent(log[c])))
         /\ \A k \in Elements(Unanswered(Recent(log[c]))) :
              k \in CallsOf(c) /\ \A j \in DOMAIN log[c] : log[c][j].of # k
<1> DEFINE s == log[c]
           recent == Recent(s)
           open == Unanswered(recent)
<1>1. s \in Seq(Message) /\ Len(s) \in Nat /\ DOMAIN s = 1..Len(s)
  BY DEF Typed, Common
<1>2. /\ \A i \in DOMAIN s : Formed(s[i])
      /\ \A i, j \in DOMAIN s : \A k \in Elements(s[i].calls) : k \in Elements(s[j].calls) => i = j
      /\ \A j \in DOMAIN s : s[j].of # NoCall => \E i \in DOMAIN s : i < j /\ s[j].of \in Elements(s[i].calls)
  BY DEF Dialogue, LogFormed, Once, Behind
<1>3. \A k \in Call : (\E i \in DOMAIN s : k \in Elements(s[i].calls)) => k \in CallsOf(c)
  BY DEF CallsOf
<1> HIDE DEF s
<1>4. PICK n \in 1..(Len(s) + 1) :
        /\ recent \in Seq(Message) /\ Len(recent) = Len(s) - n + 1
        /\ \A i \in DOMAIN recent : n + i - 1 \in DOMAIN s /\ recent[i] = s[n + i - 1]
  <2>1. s \in Seq(Message)
    BY <1>1
  <2>2. QED BY ONLY <2>1, RecentFacts
<1> HIDE DEF recent
<1>5. open \in Seq(Call)
  BY <1>4, UnansweredFacts
<1>6. CASE open = <<>>
  <2> HIDE DEF open
  <2>1. Distinct(open) /\ Elements(open) = {}
    BY <1>6 DEF Distinct, Elements
  <2>2. QED BY <1>5, <2>1 DEF open, recent, s
<1>7. CASE open # <<>>
  <2>1. PICK last \in DOMAIN recent :
          /\ Elements(open) = Elements(recent[last].calls)
                                \ {recent[j].of : j \in {j \in DOMAIN recent : j > last}}
          /\ Distinct(recent[last].calls) => Distinct(open)
    BY <1>4, <1>7, UnansweredFacts
  <2> HIDE DEF open
  <2> DEFINE at == n + last - 1
  <2>2. at \in DOMAIN s /\ recent[last] = s[at] /\ last \in Nat /\ n \in Nat
    BY <1>4
  <2>3. Distinct(open)
    BY <1>2, <2>1, <2>2 DEF Formed
  <2>4. ASSUME NEW k \in Elements(open)
        PROVE  k \in CallsOf(c) /\ \A j \in DOMAIN s : s[j].of # k
    <3>1. k \in Call
      BY <1>5 DEF Elements
    <3>2. k \in Elements(s[at].calls)
      BY <2>1, <2>2
    <3>3. ASSUME NEW j \in DOMAIN s, s[j].of = k PROVE FALSE
      <4>1. k # NoCall
        BY <3>1, NoCallAssumption
      <4>2. PICK i \in DOMAIN s : i < j /\ k \in Elements(s[i].calls)
        BY <1>2, <3>3, <4>1
      <4>3. i = at
        BY <1>2, <2>2, <3>2, <4>2
      <4> DEFINE m == j - n + 1
      <4>4. m \in DOMAIN recent /\ m > last /\ n + m - 1 = j
        <5>1. j \in 1..Len(s) /\ at < j /\ n \in 1..(Len(s) + 1) /\ last \in Nat /\ last >= 1
          BY <1>1, <1>4, <2>2, <4>2, <4>3
        <5>2. m \in 1..Len(recent) /\ m > last /\ n + m - 1 = j
          BY <1>1, <1>4, <5>1
        <5>3. QED BY <1>4, <5>2
      <4>5. recent[m] = s[j]
        BY <1>4, <4>4
      <4>6. k \in {recent[q].of : q \in {q \in DOMAIN recent : q > last}}
        BY <3>3, <4>4, <4>5
      <4>7. QED BY <2>1, <4>6
    <3>4. QED BY <1>3, <2>2, <3>1, <3>2, <3>3
  <2>5. QED BY <1>5, <2>3, <2>4 DEF open, recent, s
<1>8. QED BY <1>6, <1>7

\* What each message is that a request stores before its reply.
LEMMA ReplyKinds ==
  ASSUME NEW open \in Seq(Call), NEW k \in Call \cup {NoCall}, NEW i \in DOMAIN Replies(open, k)
  PROVE  /\ Len(Replies(open, k)) \in Nat /\ i \in 1..Len(Replies(open, k))
         /\ \/ /\ i = Len(Replies(open, k))
               /\ Replies(open, k)[i] = IF k = NoCall THEN UserText ELSE ResultOf(k, "saved")
            \/ /\ i # Len(Replies(open, k))
               /\ \E q \in Elements(open) \ {k} : q \in Call /\ Replies(open, k)[i] = ResultOf(q, "skipped")
<1> DEFINE ms == Replies(open, k)
           others == Unless(open, {k})
<1>1. /\ ms \in Seq(Message) /\ Len(ms) = Len(others) + 1 /\ Len(others) \in Nat /\ others \in Seq(Call)
      /\ ms[Len(ms)] = IF k = NoCall THEN UserText ELSE ResultOf(k, "saved")
      /\ \A j \in DOMAIN others : ms[j] = ResultOf(others[j], "skipped")
  BY RepliesFacts
<1>2. Elements(others) = Elements(open) \ {k}
  BY UnlessFacts
<1> HIDE DEF ms, others
<1>3. i \in 1..Len(ms) /\ Len(ms) \in Nat
  BY <1>1 DEF ms
<1>4. CASE i = Len(ms)
  BY <1>1, <1>3, <1>4 DEF ms
<1>5. CASE i # Len(ms)
  <2>1. i \in DOMAIN others
    BY <1>1, <1>3, <1>5
  <2>2. others[i] \in Elements(open) \ {k} /\ others[i] \in Call
    <3>1. others[i] \in Elements(others)
      BY <2>1 DEF Elements
    <3>2. QED BY <1>1, <1>2, <2>1, <3>1
  <2>3. ms[i] = ResultOf(others[i], "skipped")
    BY <1>1, <2>1
  <2>4. QED BY <1>3, <1>5, <2>2, <2>3 DEF ms
<1>6. QED BY <1>4, <1>5

LEMMA ReplyFormed ==
  ASSUME NEW open \in Seq(Call), NEW k \in Call \cup {NoCall}, NEW i \in DOMAIN Replies(open, k)
  PROVE  /\ Formed(Replies(open, k)[i])
         /\ Replies(open, k)[i].of # NoCall => Replies(open, k)[i].of \in Elements(open) \cup {k}
<1>0. Distinct(<<>>)
  BY DEF Distinct
<1>1. Formed(UserText) /\ UserText.of = NoCall
  BY <1>0 DEF Formed, UserText, ResultKinds
<1>2. ASSUME NEW q \in Call, NEW kind \in ResultKinds
      PROVE  Formed(ResultOf(q, kind)) /\ ResultOf(q, kind).of = q
  BY <1>0, NoCallAssumption DEF Formed, ResultOf, ResultKinds
<1>3. "skipped" \in ResultKinds /\ "saved" \in ResultKinds
  BY DEF ResultKinds
<1>4. CASE Replies(open, k)[i] = IF k = NoCall THEN UserText ELSE ResultOf(k, "saved")
  BY <1>1, <1>2, <1>3, <1>4
<1>5. CASE \E q \in Elements(open) \ {k} : q \in Call /\ Replies(open, k)[i] = ResultOf(q, "skipped")
  BY <1>2, <1>3, <1>5
<1>6. QED BY <1>4, <1>5, ReplyKinds

LEMMA AskDialogue ==
  ASSUME Typed, Dialogue, NEW r \in Requests, Ask(r)
  PROVE  Dialogue'
<1>1. PICK c \in Lookup(r), k \in {NoCall} \cup delivered :
        /\ k = NoCall \/ k \in Elements(Unanswered(Recent(log[c])))
        /\ cv' = [cv EXCEPT ![r] = c]
        /\ Insert(r, Replies(Unanswered(Recent(log[c])), k), "open")
  BY DEF Ask
<1> DEFINE open == Unanswered(Recent(log[c]))
           ms == Replies(open, k)
<1>2. c \in Requests /\ k \in Call \cup {NoCall}
  BY DEF Lookup, Typed, Common
<1>3. open \in Seq(Call) /\ \A q \in Elements(open) : q \in CallsOf(c)
  BY <1>2, OpenFacts
<1>4. /\ writes'[r] = ms /\ cv'[r] = c /\ log' = log
      /\ \A s \in Requests \ {r} : writes'[s] = writes[s] /\ cv'[s] = cv[s]
  BY <1>1 DEF Ask, Insert, Typed, Own, tables
<1>5. k = NoCall \/ k \in Elements(open)
  BY <1>1
<1> HIDE DEF open
<1>6. \A i \in DOMAIN ms : /\ Formed(ms[i]) /\ ms[i].calls = <<>>
                           /\ ms[i].of # NoCall => ms[i].of \in CallsOf(c)
  BY <1>2, <1>3, <1>5, ReplyFormed, RepliesAskNothing
<1> HIDE DEF ms
<1>7. Known(r)'
  <2>1. CallsOf(cv[r])' = CallsOf(c)
    BY <1>4 DEF CallsOf
  <2>2. QED BY <1>4, <1>6, <2>1 DEF Known
<1>8. Pending(r)' = {}
  BY <1>4, <1>6 DEF Pending, Elements
<1>9. WritesFormed(r)'
  BY <1>4, <1>6, <1>7, <1>8 DEF WritesFormed
<1>10. QED BY <1>4, <1>9, QuietDialogue

LEMMA GeneratorDialogue ==
  ASSUME Typed, Names, Dialogue, NEW r \in Requests, ModelAnswers(r) \/ ModelCalls(r) \/ RunTool(r)
  PROVE  Dialogue'
<1> USE DEF tables, streamVars, requestVars, clientVars
<1>1. PICK next \in {"tools", "done"} : \E ms : Insert(r, ms, next)
  BY DEF ModelAnswers, ModelCalls, RunTool
<1>2. /\ log' = log /\ cv' = cv /\ \A s \in Requests \ {r} : writes'[s] = writes[s]
      /\ pc[r] \in {"streaming", "tools"}
  BY <1>1 DEF ModelAnswers, ModelCalls, RunTool, Insert, Typed, Own
<1>0. Distinct(<<>>)
  BY DEF Distinct
<1>3. ASSUME NEW m, writes'[r] = <<m>>, Formed(m), m.of # NoCall => m.of \in CallsOf(cv[r])
      PROVE  Dialogue'
  <2>1. CallsOf(cv[r])' = CallsOf(cv[r])
    BY <1>2 DEF CallsOf
  <2>2. Known(r)'
    BY <1>3, <2>1 DEF Known
  <2>3. WritesFormed(r)'
    BY <1>3, <2>2 DEF WritesFormed
  <2>4. QED BY <1>2, <2>3, QuietDialogue
<1>4. CASE ModelAnswers(r)
  <2>1. writes'[r] = <<AssistantText>>
    BY <1>4 DEF ModelAnswers, Insert, Typed, Own
  <2>2. Formed(AssistantText) /\ AssistantText.of = NoCall
    BY <1>0 DEF Formed, AssistantText, ResultKinds
  <2>3. QED BY <1>3, <2>1, <2>2
<1>5. CASE ModelCalls(r)
  <2>1. PICK shape \in Shapes : Insert(r, <<Asking(Named(r, shape))>>, "tools")
    BY <1>5 DEF ModelCalls, Named
  <2>2. writes'[r] = <<Asking(Named(r, shape))>>
    BY <2>1 DEF Insert, Typed, Own
  <2>3. Distinct(Named(r, shape))
    <3>1. \A i \in DOMAIN Named(r, shape) : Named(r, shape)[i].place = i
      BY DEF Named
    <3>2. QED BY <3>1 DEF Distinct
  <2>4. Formed(Asking(Named(r, shape))) /\ Asking(Named(r, shape)).of = NoCall
    BY <2>3 DEF Formed, Asking, ResultKinds
  <2>5. QED BY <1>3, <2>2, <2>4
<1>6. CASE RunTool(r)
  <2>1. /\ todo[r] \in Seq(Call) /\ todo[r] # <<>>
        /\ writes'[r] = <<ResultOf(Head(todo[r]), "result")>>
    BY <1>6 DEF RunTool, Insert, Typed, Own
  <2> DEFINE k == Head(todo[r])
  <2>2. k \in Call /\ k \in Held(r)
    BY <2>1 DEF Held, Elements
  <2>3. k \in CallsOf(cv[r])
    <3>1. writes[r] = <<>>
      BY <1>2 DEF Names, Writing
    <3>2. Pending(r) = {}
      BY <3>1 DEF Pending
    <3>3. QED BY <2>2, <3>2 DEF Names
  <2> HIDE DEF k
  <2>4. Formed(ResultOf(k, "result")) /\ ResultOf(k, "result").of = k
    BY <1>0, <2>2, NoCallAssumption DEF Formed, ResultOf, ResultKinds
  <2>5. writes'[r] = <<ResultOf(k, "result")>>
    BY <2>1 DEF k
  <2>6. QED BY <1>3, <2>3, <2>4, <2>5
<1>7. QED BY <1>4, <1>5, <1>6

LEMMA DialogueStep == Typed /\ Names /\ Dialogue /\ [Next]_vars => Dialogue'
<1> SUFFICES ASSUME Typed, Names, Dialogue, [Next]_vars PROVE Dialogue'
  OBVIOUS
<1> USE DEF tables, streamVars, requestVars, clientVars
<1>1. ASSUME NEW r \in Requests, log' = log, \E how : End(r, how) PROVE Dialogue'
  <2>1. writes'[r] = <<>> /\ \A s \in Requests \ {r} : writes'[s] = writes[s] /\ cv'[s] = cv[s]
    BY <1>1 DEF End, Typed, Own
  <2>2. WritesFormed(r)'
    BY <2>1 DEF WritesFormed, Known, Pending
  <2>3. QED BY <1>1, <2>1, <2>2, QuietDialogue
<1>2. ASSUME UNCHANGED <<log, writes, cv>> PROVE Dialogue'
  BY <1>2, QuietDialogue
<1>3. ASSUME NEW r \in Requests,
             Refuse(r) \/ Break(r) \/ FlushRejected(r) \/ OpenRejected(r) \/ ModelIsSilent(r) \/ StreamFails(r)
      PROVE  Dialogue'
  BY <1>1, <1>3 DEF Refuse, Break, FlushRejected, OpenRejected, ModelIsSilent, StreamFails
<1>4. ASSUME NEW r \in Requests, Flush(r) \/ Open(r) \/ ShowCard(r) PROVE Dialogue'
  BY <1>2, <1>4 DEF Flush, Open, ShowCard
<1>5. ASSUME NEW r \in Requests, EndRound(r) PROVE Dialogue'
  <2>1. CASE End(r, "done")
    BY <1>1, <1>5, <2>1 DEF EndRound
  <2>2. CASE ~End(r, "done")
    BY <1>2, <1>5, <2>2 DEF EndRound
  <2>3. QED BY <2>1, <2>2
<1>6. ASSUME NEW r \in Requests, ServerStep(r) PROVE Dialogue'
  BY <1>3, <1>4, <1>5, <1>6, CommitDialogue, GeneratorDialogue DEF ServerStep
<1>7. ASSUME NEW i \in Instances, NewChat(i) PROVE Dialogue'
  BY <1>2, <1>7 DEF NewChat
<1>8. ASSUME NEW c \in Requests, CloseOrDelete(c) PROVE Dialogue'
  BY <1>2, <1>8 DEF CloseOrDelete
<1>9. CASE UNCHANGED vars
  BY <1>2, <1>9 DEF vars
<1>10. QED BY <1>3, <1>6, <1>7, <1>8, <1>9, AskDialogue DEF Next, Finished

LEMMA DialogueInit == Init => Dialogue
  BY DEF Init, Dialogue, LogFormed, Once, Behind, WritesFormed, Known, Pending

-----------------------------------------------------------------------------
(* A submitted card is the only result of its call.                        *)

\* A submitted card was delivered, so its request has ended.  A request that answers open calls
\* found none of them answered: a result that is there by now came from a request that raced it.
\* One that runs tools answers only its own calls.
WritesFresh(r) ==
  \A i \in DOMAIN writes[r] :
    /\ writes[r][i].kind = "saved" =>
         /\ writes[r][i].of \in delivered /\ after[r] = "open"
         /\ \A j \in DOMAIN writes[r] : j # i => writes[r][j].of # writes[r][i].of
    /\ writes[r][i].of # NoCall /\ after[r] = "open" =>
         \A j \in DOMAIN log[cv[r]] :
           /\ log[cv[r]][j].of = writes[r][i].of
           /\ writes[r][i].kind = "saved" \/ log[cv[r]][j].kind = "saved"
           => Raced(r, sender[cv[r]][j])
    /\ writes[r][i].of # NoCall /\ after[r] # "open" => writes[r][i].of.by = r
LogAnswered(c) ==
  \A i \in DOMAIN log[c] : log[c][i].kind = "saved" =>
    /\ log[c][i].of \in delivered
    /\ \A j \in DOMAIN log[c] :
         i # j /\ log[c][j].of = log[c][i].of => Raced(sender[c][i], sender[c][j])
Answering == (\A c \in Requests : LogAnswered(c)) /\ (\A r \in Requests : WritesFresh(r))

LEMMA QuietAnswering ==
  ASSUME Answering, UNCHANGED <<log, sender>>, delivered \subseteq delivered',
         together \subseteq together',
         \A s \in Requests :
           (writes'[s] = writes[s] /\ cv'[s] = cv[s] /\ after'[s] = after[s]) \/ WritesFresh(s)'
  PROVE  Answering'
<1>0. \A a, b : Raced(a, b) => Raced(a, b)'
  BY RacedStays
<1>1. \A c \in Requests : LogAnswered(c)'
  BY <1>0 DEF Answering, LogAnswered
<1>2. ASSUME NEW s \in Requests, writes'[s] = writes[s], cv'[s] = cv[s], after'[s] = after[s]
      PROVE  WritesFresh(s)'
  <2>1. WritesFresh(s)
    BY DEF Answering
  <2>2. log'[cv'[s]] = log[cv[s]] /\ sender'[cv'[s]] = sender[cv[s]]
    BY <1>2
  <2>3. QED BY <1>0, <1>2, <2>1, <2>2 DEF WritesFresh
<1>3. QED BY <1>1, <1>2 DEF Answering

\* Who sent the messages of a log, once a commit has added its own.
LEMMA CommitSent ==
  ASSUME Typed, NEW r \in Requests, Commit(r)
  PROVE  /\ \A i \in DOMAIN log[cv[r]] : sender'[cv[r]][i] = sender[cv[r]][i]
         /\ \A i \in Nat : i > Len(log[cv[r]]) /\ i - Len(log[cv[r]]) \in DOMAIN writes[r] =>
              sender'[cv[r]][i] = r
         /\ \A c \in Requests : c # cv[r] => sender'[c] = sender[c]
<1> DEFINE who == sender[cv[r]]
           new == writes[r]
           own == [i \in DOMAIN new |-> r]
<1>1. /\ cv[r] \in Requests /\ DOMAIN sender = Requests /\ who \in Seq(Requests) /\ new \in Seq(Message)
      /\ Len(who) = Len(log[cv[r]]) /\ log[cv[r]] \in Seq(Message)
  BY DEF Typed, Own, Common
<1>2. sender' = [sender EXCEPT ![cv[r]] = who \o own]
  BY DEF Commit, Sent
<1>3. sender'[cv[r]] = who \o own /\ \A c \in Requests : c # cv[r] => sender'[c] = sender[c]
  BY <1>1, <1>2
<1> HIDE DEF who, new
<1>4. own \in Seq(Requests) /\ Len(own) = Len(new) /\ \A i \in DOMAIN new : own[i] = r
  BY <1>1
<1> HIDE DEF own
<1>5. /\ \A i \in 1..Len(who) : (who \o own)[i] = who[i]
      /\ \A i \in 1..Len(own) : (who \o own)[Len(who) + i] = own[i]
      /\ Len(who) \in Nat
  BY <1>1, <1>4
<1>6. DOMAIN log[cv[r]] = 1..Len(who) /\ DOMAIN new = 1..Len(own)
  BY <1>1, <1>4
<1>7. ASSUME NEW i \in Nat, i > Len(who), i - Len(who) \in DOMAIN new
      PROVE  (who \o own)[i] = r
  <2>1. (who \o own)[Len(who) + (i - Len(who))] = own[i - Len(who)]
    BY <1>5, <1>6, <1>7
  <2>2. Len(who) + (i - Len(who)) = i
    BY <1>5
  <2>3. QED BY <1>4, <1>7, <2>1, <2>2
<1>8. QED BY <1>1, <1>3, <1>5, <1>6, <1>7 DEF who, new

LEMMA CommitAnswering ==
  ASSUME Typed, Names, Dialogue, OneInHandler, Pairs, Answering, NEW r \in Requests, Commit(r)
  PROVE  Answering'
<1> DEFINE old == log[cv[r]]
           all == log'[cv[r]]
           ws == writes[r]
           who == sender'[cv[r]]
           was == sender[cv[r]]
           new(i) == i > Len(old) /\ i - Len(old) \in DOMAIN ws /\ all[i] = ws[i - Len(old)]
<1>1. /\ cv[r] \in Requests /\ Len(old) \in Nat
      /\ \A i \in DOMAIN all : i \in Nat /\ ((i \in DOMAIN old /\ all[i] = old[i]) \/ new(i))
  BY CommitParts
<1>sent. /\ \A i \in DOMAIN old : who[i] = was[i]
         /\ \A i \in DOMAIN all : new(i) => who[i] = r
  BY <1>1, CommitSent
<1>2. \A i \in DOMAIN old : old[i].kind = "saved" =>
        /\ old[i].of \in delivered
        /\ \A j \in DOMAIN old : i # j /\ old[j].of = old[i].of => Raced(was[i], was[j])
  BY <1>1 DEF Answering, LogAnswered
<1>3. \A i \in DOMAIN ws :
        /\ ws[i].kind = "saved" =>
             /\ ws[i].of \in delivered /\ after[r] = "open"
             /\ \A j \in DOMAIN ws : j # i => ws[j].of # ws[i].of
        /\ ws[i].of # NoCall /\ after[r] = "open" =>
             \A j \in DOMAIN old : old[j].of = ws[i].of /\ (ws[i].kind = "saved" \/ old[j].kind = "saved")
               => Raced(r, was[j])
        /\ ws[i].of # NoCall /\ after[r] # "open" => ws[i].of.by = r
  BY DEF Answering, WritesFresh
<1>4. \A k \in delivered : k # NoCall /\ pc[k.by] \in Ended
  BY NoCallAssumption DEF Names, Typed, Common
<1>5. pc[r] = "commit" /\ pc[r] \notin Ended /\ delivered' = delivered /\ together' = together
  BY DEF Commit, Ended, clientVars
<1>race. \A a, b : Raced(a, b)' <=> Raced(a, b)
  BY <1>5 DEF Raced
\* A result that only now comes to a call with a submitted card comes from a request that raced.
<1>6. ASSUME NEW i \in DOMAIN ws, NEW j \in DOMAIN old, old[j].of = ws[i].of,
             ws[i].kind = "saved" \/ old[j].kind = "saved"
      PROVE  Raced(r, was[j]) /\ Raced(was[j], r)
  <2>1. ws[i].of \in delivered
    BY <1>2, <1>3, <1>6
  <2>2. ws[i].of # NoCall /\ after[r] = "open"
    BY <1>3, <1>4, <1>5, <2>1
  <2>3. Raced(r, was[j])
    BY <1>3, <1>6, <2>2
  <2>4. QED BY <2>3, RacedSym
<1> HIDE DEF old, all, ws, who, was
<1>7. ASSUME NEW i \in DOMAIN all, all[i].kind = "saved"
      PROVE  /\ all[i].of \in delivered
             /\ \A j \in DOMAIN all : i # j /\ all[j].of = all[i].of => Raced(who[i], who[j])
  <2>1. all[i].of \in delivered
    BY <1>1, <1>2, <1>3, <1>7
  <2>2. ASSUME NEW j \in DOMAIN all, i # j, all[j].of = all[i].of PROVE Raced(who[i], who[j])
    <3>1. CASE i \in DOMAIN old /\ all[i] = old[i] /\ j \in DOMAIN old /\ all[j] = old[j]
      BY <1>sent, <1>2, <1>7, <2>2, <3>1
    <3>2. CASE i \in DOMAIN old /\ all[i] = old[i] /\ new(j)
      <4>1. who[i] = was[i] /\ who[j] = r
        BY <1>sent, <3>2
      <4>2. Raced(was[i], r)
        BY <1>6, <1>7, <2>2, <3>2
      <4>3. QED BY <4>1, <4>2
    <3>3. CASE new(i) /\ j \in DOMAIN old /\ all[j] = old[j]
      <4>1. who[j] = was[j] /\ who[i] = r
        BY <1>sent, <3>3
      <4>2. Raced(r, was[j])
        BY <1>6, <1>7, <2>2, <3>3
      <4>3. QED BY <4>1, <4>2
    <3>4. CASE new(i) /\ new(j)
      <4>1. i - Len(old) # j - Len(old)
        BY <1>1, <2>2
      <4>2. QED BY <1>3, <1>7, <2>2, <3>4, <4>1
    <3>5. QED BY <1>1, <3>1, <3>2, <3>3, <3>4
  <2>3. QED BY <2>1, <2>2
<1>8. ASSUME NEW c \in Requests PROVE LogAnswered(c)'
  <2>1. CASE c = cv[r]
    <3>1. log'[c] = all /\ sender'[c] = who
      BY <2>1 DEF all, who
    <3>2. QED BY <1>race, <1>5, <1>7, <3>1 DEF LogAnswered
  <2>2. CASE c # cv[r]
    <3>1. log'[c] = log[c] /\ sender'[c] = sender[c]
      BY <2>2, CommitGrows, CommitSent
    <3>2. QED BY <1>race, <1>5, <3>1 DEF Answering, LogAnswered
  <2>3. QED BY <2>1, <2>2
<1>9. ASSUME NEW s \in Requests PROVE WritesFresh(s)'
  <2>1. CASE s = r
    BY <2>1, CommitWrites DEF WritesFresh
  <2>2. CASE s # r
    <3>1. writes'[s] = writes[s] /\ cv'[s] = cv[s] /\ after'[s] = after[s] /\ cv[s] \in Requests
      BY <2>2, CommitWrites DEF Typed, Own
    <3>2. WritesFresh(s)
      BY DEF Answering
    <3>3. CASE cv[s] # cv[r]
      <4>1. log'[cv[s]] = log[cv[s]] /\ sender'[cv[s]] = sender[cv[s]]
        BY <3>1, <3>3, CommitGrows, CommitSent
      <4>2. QED BY <1>race, <1>5, <3>1, <3>2, <4>1 DEF WritesFresh
    <3>4. CASE cv[s] = cv[r]
      <4>1. ASSUME NEW i \in DOMAIN writes[s], writes[s][i].of # NoCall, after[s] = "open",
                   NEW j \in DOMAIN all, all[j].of = writes[s][i].of,
                   writes[s][i].kind = "saved" \/ all[j].kind = "saved"
            PROVE  Raced(s, who[j])
        <5>1. CASE j \in DOMAIN old /\ all[j] = old[j]
          <6>1. who[j] = was[j] /\ old = log[cv[s]] /\ was = sender[cv[s]]
            BY <1>sent, <3>4, <5>1 DEF old, was
          <6>2. QED BY <3>2, <4>1, <5>1, <6>1 DEF WritesFresh
        <5>2. CASE new(j)
          <6>1. who[j] = r /\ j - Len(old) \in DOMAIN ws /\ ws[j - Len(old)].of = writes[s][i].of
            BY <1>sent, <4>1, <5>2
          <6>2. writes[s][i].of \in delivered
            BY <1>3, <3>2, <4>1, <5>2, <6>1 DEF WritesFresh
          <6>3. after[r] = "open"
            BY <1>3, <1>4, <1>5, <6>1, <6>2
          <6>4. writes[s] # <<>>
            BY <4>1
          <6>5. Looking(r) /\ Looking(s)
            BY <1>5, <4>1, <6>3, <6>4 DEF Looking, Names, Writing
          <6>6. QED BY <2>2, <6>1, <6>5, LookingRace
        <5>3. QED BY <1>1, <5>1, <5>2
      <4>2. log'[cv'[s]] = all /\ sender'[cv'[s]] = who
        BY <3>1, <3>4 DEF all, who
      <4>3. QED BY <1>race, <1>5, <3>1, <3>2, <4>1, <4>2 DEF WritesFresh
    <3>5. QED BY <3>3, <3>4
  <2>3. QED BY <2>1, <2>2
<1>10. QED BY <1>8, <1>9 DEF Answering

LEMMA AskAnswering ==
  ASSUME Typed, Dialogue, Answering, NEW r \in Requests, Ask(r)
  PROVE  Answering'
<1>1. PICK c \in Lookup(r), k \in {NoCall} \cup delivered :
        /\ k = NoCall \/ k \in Elements(Unanswered(Recent(log[c])))
        /\ cv' = [cv EXCEPT ![r] = c]
        /\ Insert(r, Replies(Unanswered(Recent(log[c])), k), "open")
  BY DEF Ask
<1> DEFINE open == Unanswered(Recent(log[c]))
           ms == Replies(open, k)
<1>2. c \in Requests /\ k \in Call \cup {NoCall}
  BY DEF Lookup, Typed, Common
<1>3. open \in Seq(Call) /\ \A q \in Elements(open) : \A j \in DOMAIN log[c] : log[c][j].of # q
  BY <1>2, OpenFacts
<1>4. /\ writes'[r] = ms /\ cv'[r] = c /\ after'[r] = "open" /\ log' = log /\ delivered' = delivered
      /\ sender' = sender /\ together \subseteq together'
      /\ \A s \in Requests \ {r} : writes'[s] = writes[s] /\ cv'[s] = cv[s] /\ after'[s] = after[s]
  BY <1>1 DEF Ask, Insert, Typed, Own, tables, clientVars
<1>5. k = NoCall \/ (k \in Elements(open) /\ k \in delivered)
  BY <1>1
<1> HIDE DEF open
<1>6. ASSUME NEW i \in DOMAIN ms, ms[i].of # NoCall
      PROVE  \A j \in DOMAIN log[c] : log[c][j].of # ms[i].of
  BY <1>2, <1>3, <1>5, <1>6, ReplyFormed
<1>7. ASSUME NEW i \in DOMAIN ms, ms[i].kind = "saved"
      PROVE  i = Len(ms) /\ ms[i].of = k /\ k \in delivered
  <2>1. UserText.kind # "saved" /\ \A q : /\ ResultOf(q, "skipped").kind # "saved"
                                         /\ ResultOf(q, "saved").of = q
    BY DEF UserText, ResultOf
  <2>2. QED BY <1>2, <1>3, <1>5, <1>7, <2>1, ReplyKinds
<1>8. ASSUME NEW i \in DOMAIN ms, i # Len(ms) PROVE ms[i].of # k
  <2>1. \A q : ResultOf(q, "skipped").of = q
    BY DEF ResultOf
  <2>2. QED BY <1>2, <1>3, <1>8, <2>1, ReplyKinds
<1> HIDE DEF ms
<1>9. WritesFresh(r)'
  BY <1>4, <1>6, <1>7, <1>8 DEF WritesFresh
<1>10. QED BY <1>4, <1>9, QuietAnswering

LEMMA GeneratorAnswering ==
  ASSUME Typed, Names, Answering, NEW r \in Requests, ModelAnswers(r) \/ ModelCalls(r) \/ RunTool(r)
  PROVE  Answering'
<1> USE DEF tables, streamVars, requestVars, clientVars
<1>1. PICK next \in {"tools", "done"} : \E ms : Insert(r, ms, next)
  BY DEF ModelAnswers, ModelCalls, RunTool
<1>2. /\ log' = log /\ cv' = cv /\ delivered' = delivered /\ after'[r] # "open"
      /\ sender' = sender /\ together' = together
      /\ \A s \in Requests \ {r} : writes'[s] = writes[s] /\ after'[s] = after[s]
  BY <1>1 DEF ModelAnswers, ModelCalls, RunTool, Insert, Typed, Own
<1>3. \E m : /\ writes'[r] = <<m>> /\ m.kind # "saved"
             /\ m.of # NoCall => m.of.by = r
  <2>1. CASE ModelAnswers(r)
    <3>1. AssistantText.kind # "saved" /\ AssistantText.of = NoCall
      BY DEF AssistantText
    <3>2. QED BY <2>1, <3>1 DEF ModelAnswers, Insert, Typed, Own
  <2>2. CASE ModelCalls(r)
    <3>1. \A ks : Asking(ks).kind # "saved" /\ Asking(ks).of = NoCall
      BY DEF Asking
    <3>2. \E ks : writes'[r] = <<Asking(ks)>>
      BY <2>2 DEF ModelCalls, Insert, Typed, Own
    <3>3. QED BY <3>1, <3>2
  <2>3. CASE RunTool(r)
    <3>1. /\ todo[r] \in Seq(Call) /\ todo[r] # <<>>
          /\ writes'[r] = <<ResultOf(Head(todo[r]), "result")>>
      BY <2>3 DEF RunTool, Insert, Typed, Own
    <3>2. Head(todo[r]) \in Held(r)
      BY <3>1 DEF Held, Elements
    <3>3. Head(todo[r]).by = r
      BY <3>2 DEF Names
    <3>4. ResultOf(Head(todo[r]), "result").kind # "saved" /\ ResultOf(Head(todo[r]), "result").of = Head(todo[r])
      BY DEF ResultOf
    <3>5. QED BY <3>1, <3>3, <3>4
  <2>4. QED BY <2>1, <2>2, <2>3
<1>4. WritesFresh(r)'
  BY <1>2, <1>3 DEF WritesFresh
<1>5. QED BY <1>2, <1>4, QuietAnswering

LEMMA AnsweringStep ==
  Typed /\ Names /\ Dialogue /\ OneInHandler /\ Pairs /\ Answering /\ [Next]_vars => Answering'
<1> SUFFICES ASSUME Typed, Names, Dialogue, OneInHandler, Pairs, Answering, [Next]_vars PROVE Answering'
  OBVIOUS
<1> USE DEF tables, streamVars, requestVars, clientVars
<1>1. ASSUME NEW r \in Requests, UNCHANGED <<log, sender, together>>, delivered \subseteq delivered',
             \E how : End(r, how)
      PROVE  Answering'
  <2>1. /\ writes'[r] = <<>>
        /\ \A s \in Requests \ {r} : writes'[s] = writes[s] /\ cv'[s] = cv[s] /\ after'[s] = after[s]
    BY <1>1 DEF End, Typed, Own
  <2>2. WritesFresh(r)'
    BY <2>1 DEF WritesFresh
  <2>3. QED BY <1>1, <2>1, <2>2, QuietAnswering
<1>2. ASSUME UNCHANGED <<log, sender, together, writes, cv, after>>, delivered \subseteq delivered' PROVE Answering'
  BY <1>2, QuietAnswering
<1>3. ASSUME NEW r \in Requests,
             Refuse(r) \/ Break(r) \/ FlushRejected(r) \/ OpenRejected(r) \/ ModelIsSilent(r) \/ StreamFails(r)
      PROVE  Answering'
  BY <1>1, <1>3 DEF Refuse, Break, FlushRejected, OpenRejected, ModelIsSilent, StreamFails
<1>4. ASSUME NEW r \in Requests, Flush(r) \/ Open(r) \/ ShowCard(r) PROVE Answering'
  BY <1>2, <1>4 DEF Flush, Open, ShowCard
<1>5. ASSUME NEW r \in Requests, EndRound(r) PROVE Answering'
  <2>1. CASE End(r, "done")
    BY <1>1, <1>5, <2>1 DEF EndRound
  <2>2. CASE ~End(r, "done")
    BY <1>2, <1>5, <2>2 DEF EndRound
  <2>3. QED BY <2>1, <2>2
<1>6. ASSUME NEW r \in Requests, ServerStep(r) PROVE Answering'
  BY <1>3, <1>4, <1>5, <1>6, CommitAnswering, GeneratorAnswering DEF ServerStep
<1>7. ASSUME NEW i \in Instances, NewChat(i) PROVE Answering'
  BY <1>2, <1>7 DEF NewChat
<1>8. ASSUME NEW c \in Requests, CloseOrDelete(c) PROVE Answering'
  BY <1>2, <1>8 DEF CloseOrDelete
<1>9. CASE UNCHANGED vars
  BY <1>2, <1>9 DEF vars
<1>10. QED BY <1>3, <1>6, <1>7, <1>8, <1>9, AskAnswering DEF Next, Finished

\* On any number of instances a submitted card stays the only result of its call (a second submit
\* of it, a typed message that skips it, or a tool that answers late, add no other), unless the
\* other comes from a request on another instance that was between lookup and commit at the same
\* time (_save_card_answer and the insertion of skipped results in handle_chat_stream).
THEOREM CardsAnsweredOnce == Spec => []AnsweredOnce
<1>1. Init => Answering
  BY DEF Init, Answering, LogAnswered, WritesFresh
<1>2. Answering => AnsweredOnce
  BY DEF Answering, LogAnswered, AnsweredOnce
<1>3. Exclusion => OneInHandler /\ Pairs
  BY DEF Exclusion
<1>4. QED
  BY <1>1, <1>2, <1>3, ExclusionInit, ExclusionStep, TypedInit, TypedStep, NamesInit, NamesStep,
     DialogueInit, DialogueStep, AnsweringStep, PTL DEF Spec

-----------------------------------------------------------------------------
(* What the model is sent.                                                 *)

\* Where the window into a log starts, and what a request shows of the log from there.
Start(s) == IF Len(s) > Window THEN Len(s) - Window + 1 ELSE 1
Shows(ms, s, n) == Len(ms) + n = Len(s) + 1 /\ \A i \in DOMAIN ms : n + i - 1 \in DOMAIN s /\ ms[i] = s[n + i - 1]

\* A call asked for at place i has its one result in the block of results behind i, or it has
\* none and nothing but results came since; a call that waits is one that X answers for.
Done(s, i, k) == \E j \in DOMAIN s :
  /\ j > i /\ s[j].of = k
  /\ \A m \in DOMAIN s : i < m /\ m <= j => s[m].kind \in ResultKinds
  /\ \A m \in DOMAIN s : s[m].of = k => m = j
Waits(s, i, k) == \A m \in DOMAIN s : s[m].of # k /\ (m > i => s[m].kind \in ResultKinds)
Answered(s, n, X) ==
  \A i \in DOMAIN s : i >= n => \A k \in Elements(s[i].calls) : Done(s, i, k) \/ (k \in X /\ Waits(s, i, k))

LEMMA ConcatParts ==
  ASSUME NEW S, NEW s \in Seq(S), NEW w \in Seq(S)
  PROVE  /\ s \o w \in Seq(S) /\ Len(s) \in Nat /\ Len(w) \in Nat /\ Len(s \o w) = Len(s) + Len(w)
         /\ DOMAIN s = 1..Len(s) /\ DOMAIN w = 1..Len(w) /\ DOMAIN (s \o w) = 1..(Len(s) + Len(w))
         /\ \A i \in DOMAIN s : (s \o w)[i] = s[i]
         /\ \A i \in DOMAIN w : (s \o w)[Len(s) + i] = w[i]
         /\ \A i \in DOMAIN (s \o w) : i \in DOMAIN s \/ (i > Len(s) /\ i - Len(s) \in DOMAIN w
                                                          /\ (s \o w)[i] = w[i - Len(s)])
<1>1. /\ s \o w \in Seq(S) /\ Len(s) \in Nat /\ Len(w) \in Nat /\ Len(s \o w) = Len(s) + Len(w)
      /\ DOMAIN s = 1..Len(s) /\ DOMAIN w = 1..Len(w)
      /\ \A i \in 1..Len(s) : (s \o w)[i] = s[i]
      /\ \A i \in 1..Len(w) : (s \o w)[Len(s) + i] = w[i]
  OBVIOUS
<1> DEFINE t == s \o w
<1> HIDE DEF t
<1>2. DOMAIN t = 1..(Len(s) + Len(w))
  <2>1. t \in Seq(S) /\ Len(t) = Len(s) + Len(w)
    BY <1>1 DEF t
  <2>2. QED BY <2>1
<1>3. ASSUME NEW i \in DOMAIN t, i \notin DOMAIN s
      PROVE  i > Len(s) /\ i - Len(s) \in DOMAIN w /\ t[i] = w[i - Len(s)]
  <2>1. i \in 1..(Len(s) + Len(w)) /\ ~(i \in 1..Len(s))
    BY <1>1, <1>2, <1>3
  <2>2. i > Len(s) /\ i - Len(s) \in 1..Len(w) /\ Len(s) + (i - Len(s)) = i
    BY ONLY <1>1, <2>1
  <2>3. t[Len(s) + (i - Len(s))] = w[i - Len(s)]
    BY <1>1, <2>2 DEF t
  <2>4. QED BY <1>1, <2>2, <2>3
<1>4. QED BY <1>1, <1>2, <1>3 DEF t

LEMMA StartFacts ==
  ASSUME NEW s \in Seq(Message)
  PROVE  /\ Start(s) \in Nat \ {0} /\ Recent(s) \in Seq(Message) /\ Shows(Recent(s), s, Start(s))
         /\ \A w \in Seq(Message) : Start(s) <= Start(s \o w)
<1>1. Len(s) \in Nat /\ Window \in Nat \ {0}
  BY BoundsAssumption
<1>2. Start(s) \in 1..(Len(s) + 1)
  BY <1>1 DEF Start
<1>3. Recent(s) = SubSeq(s, Start(s), Len(s))
  BY DEF Recent, Start
<1>4. /\ SubSeq(s, Start(s), Len(s)) \in Seq(Message)
      /\ Len(SubSeq(s, Start(s), Len(s))) = Len(s) - Start(s) + 1
      /\ \A i \in 1..(Len(s) - Start(s) + 1) : SubSeq(s, Start(s), Len(s))[i] = s[Start(s) + i - 1]
  <2>1. \A i \in Start(s)..Len(s) : s[i] \in Message
    BY <1>1, <1>2
  <2>2. QED BY <1>1, <1>2, <2>1, SubSeqProperties
<1>5. Shows(Recent(s), s, Start(s))
  <2> DEFINE ms == Recent(s)
             n == Start(s)
  <2>1. ms \in Seq(Message) /\ Len(ms) = Len(s) - n + 1 /\ \A i \in 1..(Len(s) - n + 1) : ms[i] = s[n + i - 1]
    BY <1>3, <1>4
  <2>2. n \in 1..(Len(s) + 1)
    BY <1>2
  <2> HIDE DEF ms, n
  <2>3. Len(ms) + n = Len(s) + 1
    BY <1>1, <2>1, <2>2
  <2>4. ASSUME NEW i \in DOMAIN ms PROVE n + i - 1 \in DOMAIN s /\ ms[i] = s[n + i - 1]
    <3>1. i \in 1..(Len(s) - n + 1)
      BY <2>1
    <3>2. n + i - 1 \in 1..Len(s)
      BY <1>1, <2>2, <3>1
    <3>3. QED BY <2>1, <3>1, <3>2
  <2>5. Shows(ms, s, n)
    BY <2>3, <2>4 DEF Shows
  <2>6. QED BY <2>5 DEF ms, n
<1>6. ASSUME NEW w \in Seq(Message) PROVE Start(s) <= Start(s \o w)
  <2>1. Len(w) \in Nat /\ Len(s \o w) = Len(s) + Len(w)
    BY ConcatParts
  <2>2. QED BY <1>1, <2>1 DEF Start
<1>7. QED BY <1>2, <1>3, <1>4, <1>5, <1>6

LEMMA ShowsMore ==
  ASSUME NEW s \in Seq(Message), NEW w \in Seq(Message), NEW ms \in Seq(Message), NEW n \in Nat \ {0},
         Shows(ms, s, n)
  PROVE  Shows(ms \o w, s \o w, n)
<1> DEFINE t == s \o w
           more == ms \o w
<1>1. /\ Len(s) \in Nat /\ Len(w) \in Nat /\ Len(t) = Len(s) + Len(w)
      /\ DOMAIN s = 1..Len(s) /\ DOMAIN w = 1..Len(w) /\ DOMAIN t = 1..(Len(s) + Len(w))
      /\ \A i \in DOMAIN s : t[i] = s[i]
      /\ \A i \in DOMAIN w : t[Len(s) + i] = w[i]
  BY ConcatParts
<1>2. /\ Len(ms) \in Nat /\ Len(more) = Len(ms) + Len(w) /\ DOMAIN ms = 1..Len(ms)
      /\ \A i \in DOMAIN ms : more[i] = ms[i]
      /\ \A i \in DOMAIN more : i \in DOMAIN ms \/ (i > Len(ms) /\ i - Len(ms) \in DOMAIN w
                                                    /\ more[i] = w[i - Len(ms)])
  BY ConcatParts
<1> HIDE DEF t, more
<1>3. Len(ms) + n = Len(s) + 1 /\ \A i \in DOMAIN ms : n + i - 1 \in DOMAIN s /\ ms[i] = s[n + i - 1]
  BY DEF Shows
<1>num. Len(s) \in Nat /\ Len(w) \in Nat /\ Len(ms) \in Nat /\ Len(ms) + n = Len(s) + 1
  BY <1>1, <1>2, <1>3
<1>4. Len(more) + n = Len(t) + 1
  <2>1. Len(more) = Len(ms) + Len(w) /\ Len(t) = Len(s) + Len(w)
    BY <1>1, <1>2
  <2>2. Len(ms) = Len(s) + 1 - n
    BY <1>num
  <2>3. Len(more) = Len(s) + 1 - n + Len(w)
    BY <2>1, <2>2
  <2>4. QED BY <1>num, <2>1, <2>3
<1>5. ASSUME NEW i \in DOMAIN more PROVE n + i - 1 \in DOMAIN t /\ more[i] = t[n + i - 1]
  <2>1. CASE i \in DOMAIN ms
    <3>1. n + i - 1 \in DOMAIN s /\ more[i] = s[n + i - 1]
      BY <1>2, <1>3, <2>1
    <3>2. n + i - 1 \in DOMAIN t
      BY <1>1, <3>1
    <3>3. QED BY <1>1, <3>1, <3>2
  <2>2. CASE i \notin DOMAIN ms
    <3> DEFINE m == i - Len(ms)
    <3>1. i > Len(ms) /\ m \in DOMAIN w /\ more[i] = w[m]
      BY <1>2, <2>2
    <3>2. m \in Nat /\ m >= 1 /\ m <= Len(w)
      BY <1>1, <3>1
    <3>3. i = Len(ms) + m
      <4>1. i \in Int
        <5>1. more \in Seq(Message)
          BY ConcatParts DEF more
        <5>2. QED BY <5>1
      <4>2. QED BY <1>2, <4>1
    <3> HIDE DEF m
    <3>4. n + i - 1 = Len(s) + m
      <4>1. n \in Nat
        OBVIOUS
      <4>2. QED BY ONLY <1>num, <3>2, <3>3, <4>1
    <3>5. Len(s) + m \in DOMAIN t
      BY <1>1, <3>2
    <3>6. QED BY <1>1, <3>1, <3>4, <3>5
  <2>3. QED BY <2>1, <2>2
<1>6. Shows(more, t, n)
  BY <1>4, <1>5 DEF Shows
<1>7. QED BY <1>6 DEF t, more

LEMMA AnsweredWeaker ==
  ASSUME NEW s \in Seq(Message), NEW n \in Nat, NEW m \in Nat, n <= m, NEW X, NEW Y, X \subseteq Y,
         Answered(s, n, X)
  PROVE  Answered(s, m, Y)
<1>1. ASSUME NEW i \in DOMAIN s, i >= m PROVE i >= n
  <2>1. i \in Nat
    OBVIOUS
  <2>2. QED BY <1>1, <2>1
<1>2. QED BY <1>1 DEF Answered

\* Messages are added: what waits gets its result or goes on waiting, new calls wait.
LEMMA AnsweredMore ==
  ASSUME NEW s \in Seq(Message), NEW w \in Seq(Message), NEW n \in Nat, NEW X, NEW Y, Answered(s, n, X),
         \A i \in DOMAIN w : w[i].of # NoCall =>
            /\ \A j \in DOMAIN s : s[j].of # w[i].of
            /\ \A j \in DOMAIN w : w[j].of = w[i].of => i = j,
         \A k \in X :
            \/ \E p \in DOMAIN w : w[p].of = k /\ \A q \in DOMAIN w : q <= p => w[q].kind \in ResultKinds
            \/ k \in Y /\ \A q \in DOMAIN w : w[q].of # k /\ w[q].kind \in ResultKinds,
         \A i \in DOMAIN w : \A k \in Elements(w[i].calls) :
            /\ k \in Y /\ \A j \in DOMAIN s : s[j].of # k
            /\ \A j \in DOMAIN w : w[j].of # k /\ (j > i => w[j].kind \in ResultKinds)
  PROVE  Answered(s \o w, n, Y)
<1> DEFINE t == s \o w
           L == Len(s)
<1>1. /\ L \in Nat /\ DOMAIN s = 1..L /\ DOMAIN w = 1..Len(w) /\ DOMAIN t = 1..(L + Len(w))
      /\ Len(w) \in Nat
      /\ \A i \in DOMAIN s : t[i] = s[i]
      /\ \A i \in DOMAIN w : t[L + i] = w[i]
      /\ \A i \in DOMAIN t : i \in DOMAIN s \/ (i > L /\ i - L \in DOMAIN w /\ t[i] = w[i - L])
  BY ConcatParts
<1> HIDE DEF t, L
<1>2. \A i \in DOMAIN s : i \in DOMAIN t /\ i \in Nat /\ i <= L
  BY <1>1
<1>3. \A i \in DOMAIN t : i \in Nat
  BY <1>1
<1>4. \A i \in DOMAIN s : \A k \in Elements(s[i].calls) : k # NoCall
  <2>1. ASSUME NEW i \in DOMAIN s PROVE s[i].calls \in Seq(Call)
    <3>1. s[i] \in Message
      OBVIOUS
    <3>2. QED BY <3>1 DEF Message
  <2>2. QED BY <2>1, NoCallAssumption DEF Elements
<1>5. ASSUME NEW i \in DOMAIN s, NEW k \in Elements(s[i].calls), Done(s, i, k) PROVE Done(t, i, k)
  <2>1. PICK j \in DOMAIN s :
          /\ j > i /\ s[j].of = k
          /\ \A m \in DOMAIN s : i < m /\ m <= j => s[m].kind \in ResultKinds
          /\ \A m \in DOMAIN s : s[m].of = k => m = j
    BY <1>5 DEF Done
  <2>2. j \in DOMAIN t /\ t[j].of = k
    BY <1>1, <1>2, <2>1
  <2>3. ASSUME NEW m \in DOMAIN t, i < m, m <= j PROVE t[m].kind \in ResultKinds
    <3>1. m \in DOMAIN s
      BY <1>1, <1>2, <1>3, <2>3
    <3>2. QED BY <1>1, <2>1, <2>3, <3>1
  <2>4. ASSUME NEW m \in DOMAIN t, t[m].of = k PROVE m = j
    <3>1. CASE m \in DOMAIN s
      BY <1>1, <2>1, <2>4, <3>1
    <3>2. CASE m \notin DOMAIN s
      <4>1. m - L \in DOMAIN w /\ w[m - L].of = k
        BY <1>1, <2>4, <3>2
      <4>2. k # NoCall
        BY <1>4
      <4>3. QED BY <2>1, <4>1, <4>2
    <3>3. QED BY <3>1, <3>2
  <2>5. QED BY <2>1, <2>2, <2>3, <2>4 DEF Done
<1>6. ASSUME NEW i \in DOMAIN s, NEW k \in Elements(s[i].calls), Waits(s, i, k), NEW p \in DOMAIN w,
             w[p].of = k, \A q \in DOMAIN w : q <= p => w[q].kind \in ResultKinds
      PROVE  Done(t, i, k)
  <2> DEFINE j == L + p
  <2>1. p \in Nat /\ p >= 1 /\ p <= Len(w)
    BY <1>1
  <2>2. j \in DOMAIN t /\ j > i /\ t[j].of = k
    BY <1>1, <1>2, <1>6, <2>1
  <2>3. ASSUME NEW m \in DOMAIN t, i < m, m <= j PROVE t[m].kind \in ResultKinds
    <3>1. CASE m \in DOMAIN s
      BY <1>1, <1>6, <2>3, <3>1 DEF Waits
    <3>2. CASE m \notin DOMAIN s
      <4>1. m - L \in DOMAIN w /\ t[m] = w[m - L]
        BY <1>1, <3>2
      <4>2. m - L <= p
        BY <1>1, <1>3, <2>1, <2>3
      <4>3. QED BY <1>6, <4>1, <4>2
    <3>3. QED BY <3>1, <3>2
  <2>4. ASSUME NEW m \in DOMAIN t, t[m].of = k PROVE m = j
    <3>1. m \notin DOMAIN s
      BY <1>1, <1>6, <2>4 DEF Waits
    <3>2. m - L \in DOMAIN w /\ w[m - L].of = w[p].of
      BY <1>1, <1>6, <2>4, <3>1
    <3>3. k # NoCall
      BY <1>4
    <3>4. m - L = p
      BY <1>6, <3>2, <3>3
    <3>5. QED BY <1>1, <1>3, <2>1, <3>4
  <2> HIDE DEF j
  <2>5. QED BY <2>2, <2>3, <2>4 DEF Done
<1>7. ASSUME NEW i \in DOMAIN s, NEW k, Waits(s, i, k),
             \A q \in DOMAIN w : w[q].of # k /\ w[q].kind \in ResultKinds
      PROVE  Waits(t, i, k)
  <2>1. ASSUME NEW m \in DOMAIN t PROVE t[m].of # k /\ (m > i => t[m].kind \in ResultKinds)
    <3>1. CASE m \in DOMAIN s
      BY <1>1, <1>7, <3>1 DEF Waits
    <3>2. CASE m \notin DOMAIN s
      BY <1>1, <1>7, <3>2
    <3>3. QED BY <3>1, <3>2
  <2>2. QED BY <2>1 DEF Waits
<1>8. ASSUME NEW i \in DOMAIN t, i >= n, NEW k \in Elements(t[i].calls)
      PROVE  Done(t, i, k) \/ (k \in Y /\ Waits(t, i, k))
  <2>1. CASE i \in DOMAIN s
    <3>1. k \in Elements(s[i].calls)
      BY <1>1, <1>8, <2>1
    <3>2. Done(s, i, k) \/ (k \in X /\ Waits(s, i, k))
      BY <1>8, <2>1, <3>1 DEF Answered
    <3>3. QED BY <1>5, <1>6, <1>7, <2>1, <3>1, <3>2
  <2>2. CASE i \notin DOMAIN s
    <3>1. i > L /\ i - L \in DOMAIN w /\ t[i] = w[i - L]
      BY <1>1, <2>2
    <3>2. k \in Elements(w[i - L].calls)
      BY <1>8, <3>1
    <3>3. ASSUME NEW m \in DOMAIN t PROVE t[m].of # k /\ (m > i => t[m].kind \in ResultKinds)
      <4>1. CASE m \in DOMAIN s
        <5>1. t[m].of # k
          BY <1>1, <3>1, <3>2, <4>1
        <5>2. ~(m > i)
          BY <1>1, <1>2, <1>3, <3>1, <4>1
        <5>3. QED BY <5>1, <5>2
      <4>2. CASE m \notin DOMAIN s
        <5>1. m - L \in DOMAIN w /\ t[m] = w[m - L]
          BY <1>1, <4>2
        <5>2. m > i => m - L > i - L
          BY <1>1, <1>3
        <5>3. w[m - L].of # k /\ (m - L > i - L => w[m - L].kind \in ResultKinds)
          BY <3>1, <3>2, <5>1
        <5>4. QED BY <5>1, <5>2, <5>3
      <4>3. QED BY <4>1, <4>2
    <3>4. k \in Y
      BY <3>1, <3>2
    <3>5. QED BY <3>3, <3>4 DEF Waits
  <2>3. QED BY <2>1, <2>2
<1>9. Answered(t, n, Y)
  BY <1>8 DEF Answered
<1>10. QED BY <1>9 DEF t

\* In what a request shows of an answered log, every call has its one result, right behind it.
LEMMA ShownAnswered ==
  ASSUME NEW s \in Seq(Message), NEW ms \in Seq(Message), NEW n \in Nat \ {0}, Shows(ms, s, n),
         Answered(s, n, {})
  PROVE  \A i \in DOMAIN ms : \A k \in Elements(ms[i].calls) :
           \E j \in DOMAIN ms :
             /\ ms[j].of = k
             /\ \A m \in i+1..j : ms[m].kind \in ResultKinds
             /\ \A m \in DOMAIN ms : ms[m].of = k => m = j
<1>1. /\ Len(ms) + n = Len(s) + 1 /\ Len(ms) \in Nat /\ Len(s) \in Nat
      /\ DOMAIN ms = 1..Len(ms) /\ DOMAIN s = 1..Len(s)
      /\ \A i \in DOMAIN ms : n + i - 1 \in DOMAIN s /\ ms[i] = s[n + i - 1]
  BY DEF Shows
<1>2. ASSUME NEW i \in DOMAIN ms, NEW k \in Elements(ms[i].calls)
      PROVE  \E j \in DOMAIN ms :
               /\ ms[j].of = k
               /\ \A m \in i+1..j : ms[m].kind \in ResultKinds
               /\ \A m \in DOMAIN ms : ms[m].of = k => m = j
  <2> DEFINE a == n + i - 1
  <2>1. a \in DOMAIN s /\ ms[i] = s[a] /\ a \in Nat /\ a >= n /\ i \in Nat
    BY <1>1
  <2>2. Done(s, a, k)
    BY <1>2, <2>1 DEF Answered
  <2>3. PICK b \in DOMAIN s :
          /\ b > a /\ s[b].of = k
          /\ \A m \in DOMAIN s : a < m /\ m <= b => s[m].kind \in ResultKinds
          /\ \A m \in DOMAIN s : s[m].of = k => m = b
    BY <2>2 DEF Done
  <2> DEFINE j == b - n + 1
  <2>4. b \in Nat /\ b <= Len(s) /\ b > a
    BY <1>1, <2>3
  <2>5. j \in 1..Len(ms) /\ n + j - 1 = b
    BY <1>1, <2>1, <2>4
  <2>6. j \in DOMAIN ms /\ ms[j] = s[b]
    BY <1>1, <2>5
  <2> HIDE DEF a, j
  <2>7. ASSUME NEW m \in i+1..j PROVE ms[m].kind \in ResultKinds
    <3>1. m \in 1..Len(ms) /\ m > i /\ m <= j /\ m \in Nat
      BY <1>1, <2>1, <2>5
    <3>2. n + m - 1 \in DOMAIN s /\ ms[m] = s[n + m - 1]
      BY <1>1, <3>1
    <3>3. a < n + m - 1 /\ n + m - 1 <= b
      BY <2>1, <2>5, <3>1 DEF a
    <3>4. QED BY <2>3, <3>2, <3>3
  <2>8. ASSUME NEW m \in DOMAIN ms, ms[m].of = k PROVE m = j
    <3>1. n + m - 1 = b
      BY <1>1, <2>3, <2>8
    <3>2. m \in Nat /\ j \in Nat
      BY <1>1, <2>5
    <3>3. QED BY <2>5, <3>1, <3>2
  <2>9. QED BY <2>3, <2>6, <2>7, <2>8
<1>3. QED BY <1>2

-----------------------------------------------------------------------------
(* What a request answers, and where the window of the model starts.       *)

\* Calls that a request answers in what it is about to store, and those it has taken on.
Answers(r) == {writes[r][i].of : i \in DOMAIN writes[r]} \ {NoCall}
Owed(r) == Answers(r) \cup (Held(r) \ Pending(r))

\* In a conversation in which requests came one at a time, one request is replying.
Sole == \A r, s \in Requests :
  pc[r] \in Live /\ pc[s] \in Live /\ cv[r] = cv[s] /\ cv[r] \notin overlapped => r = s

\* A request takes each call on once, and stores its results before anything else.
Duties(r) ==
  /\ Distinct(todo[r]) /\ shown[r] \notin Elements(todo[r])
  /\ Answers(r) \cap Held(r) = {}
  /\ Pending(r) # {} => Held(r) = Pending(r)
  /\ Held(r) # {} /\ Pending(r) = {} => \A i \in DOMAIN writes[r] : writes[r][i].kind \in ResultKinds
  /\ \A i, j \in DOMAIN writes[r] :
       writes[r][i].of # NoCall /\ writes[r][j].of = writes[r][i].of => i = j
  /\ \A i \in DOMAIN writes[r] : i < Len(writes[r]) => writes[r][i].kind \in ResultKinds

\* From where the request reads the log, what has no result yet is what the request owes.
Turn(r) == \E n \in Nat \ {0} :
  /\ n <= Start(log[cv[r]]) /\ Answered(log[cv[r]], n, Owed(r))
  /\ Replying(r) => Shows(messages[r], log[cv[r]], n)
Unresolved(r) == \A k \in Answers(r) \cup Held(r) : \A j \in DOMAIN log[cv[r]] : log[cv[r]][j].of # k
InTurn(r) == pc[r] \in Live /\ cv[r] \notin overlapped => Turn(r) /\ Unresolved(r)

\* Whatever was cut off, what has no result is at the end, where the next request finds it.
Settled(c) == c \notin overlapped => Answered(log[c], Start(log[c]), Call)
Whole == /\ Sole
         /\ \A c \in Requests : Settled(c)
         /\ \A r \in Requests : Duties(r) /\ InTurn(r)

Same(s) == Alone(s) /\ messages'[s] = messages[s]

LEMMA SameWhole ==
  ASSUME Whole, NEW s \in Requests, Same(s), overlapped \subseteq overlapped',
         pc[s] \in Live /\ cv[s] \notin overlapped' => log'[cv[s]] = log[cv[s]]
  PROVE  Duties(s)' /\ InTurn(s)'
<1>1. /\ pc'[s] = pc[s] /\ cv'[s] = cv[s] /\ writes'[s] = writes[s] /\ messages'[s] = messages[s]
      /\ todo'[s] = todo[s] /\ shown'[s] = shown[s] /\ after'[s] = after[s]
  BY DEF Same, Alone
<1>2. Answers(s)' = Answers(s) /\ Held(s)' = Held(s) /\ Pending(s)' = Pending(s) /\ Owed(s)' = Owed(s)
  BY <1>1 DEF Answers, Held, Pending, Owed
<1>3. Duties(s) /\ InTurn(s)
  BY DEF Whole
<1>4. Duties(s)'
  BY <1>1, <1>2, <1>3 DEF Duties
<1>5. InTurn(s)'
  <2> SUFFICES ASSUME pc'[s] \in Live, cv'[s] \notin overlapped' PROVE Turn(s)' /\ Unresolved(s)'
    BY DEF InTurn
  <2>1. Turn(s) /\ Unresolved(s) /\ log'[cv'[s]] = log[cv[s]]
    BY <1>1, <1>3 DEF InTurn
  <2>2. Replying(s)' => Replying(s)
    BY <1>1 DEF Replying
  <2>3. Turn(s)'
    BY <1>1, <1>2, <2>1, <2>2 DEF Turn
  <2>4. Unresolved(s)'
    BY <1>1, <1>2, <2>1 DEF Unresolved
  <2>5. QED BY <2>3, <2>4
<1>6. QED BY <1>4, <1>5

\* A step of one request that stores nothing.
LEMMA QuietWhole ==
  ASSUME Whole, NEW r \in Requests, log' = log, overlapped' = overlapped,
         \A s \in Requests \ {r} : Same(s), pc'[r] \in Live => pc[r] \in Live /\ cv'[r] = cv[r],
         Duties(r)', InTurn(r)'
  PROVE  Whole'
<1>1. \A c \in Requests : Settled(c)'
  BY DEF Whole, Settled
<1>2. ASSUME NEW s \in Requests PROVE Duties(s)' /\ InTurn(s)'
  <2>1. CASE s = r
    BY <2>1
  <2>2. CASE s # r
    BY <2>2, SameWhole
  <2>3. QED BY <2>1, <2>2
<1>3. \A s \in Requests : pc'[s] \in Live => pc[s] \in Live /\ cv'[s] = cv[s]
  BY DEF Same, Alone
<1>4. Sole'
  BY <1>3 DEF Whole, Sole
<1>5. QED BY <1>1, <1>2, <1>4 DEF Whole

LEMMA EndState ==
  ASSUME Typed, NEW r \in Requests, NEW how \in Ended, End(r, how)
  PROVE  /\ writes'[r] = <<>> /\ todo'[r] = <<>> /\ shown'[r] = NoCall /\ pc'[r] \notin Live
         /\ Duties(r)' /\ InTurn(r)'
         /\ \A s \in Requests \ {r} : Same(s)
<1>1. /\ writes'[r] = <<>> /\ todo'[r] = <<>> /\ shown'[r] = NoCall /\ pc'[r] = how
      /\ \A s \in Requests \ {r} : Same(s)
  BY DEF Typed, Own, End, Same, Alone
<1>2. pc'[r] \notin Live
  BY <1>1 DEF Ended, Live, InHandler
<1>3. Duties(r)'
  <2>1. Answers(r)' = {} /\ Held(r)' = {} /\ Pending(r)' = {} /\ Distinct(todo[r])' /\ Elements(todo[r])' = {}
    BY <1>1 DEF Answers, Held, Pending, Distinct, Elements
  <2>2. QED BY <1>1, <2>1 DEF Duties
<1>4. InTurn(r)'
  BY <1>2 DEF InTurn
<1>5. QED BY <1>1, <1>2, <1>3, <1>4

LEMMA EndWhole ==
  ASSUME Typed, Whole, NEW r \in Requests, NEW how \in Ended, End(r, how), log' = log,
         overlapped' = overlapped
  PROVE  Whole'
  BY EndState, QuietWhole

\* The request goes on with what it has.
LEMMA StillWhole ==
  ASSUME Whole, NEW r \in Requests, log' = log, overlapped' = overlapped, \A s \in Requests \ {r} : Same(s),
         pc[r] \in Live, cv'[r] = cv[r], writes'[r] = writes[r], messages'[r] = messages[r],
         Held(r)' = Held(r), Replying(r)' => Replying(r),
         Distinct(todo'[r]), shown'[r] \notin Elements(todo'[r])
  PROVE  Whole'
<1>1. Answers(r)' = Answers(r) /\ Pending(r)' = Pending(r) /\ Owed(r)' = Owed(r)
  BY DEF Answers, Pending, Owed
<1>2. Duties(r) /\ InTurn(r)
  BY DEF Whole
<1>3. Duties(r)'
  BY <1>1, <1>2 DEF Duties
<1>4. InTurn(r)'
  <2> SUFFICES ASSUME cv'[r] \notin overlapped' PROVE Turn(r)' /\ Unresolved(r)'
    BY DEF InTurn
  <2>1. Turn(r) /\ Unresolved(r) /\ log'[cv'[r]] = log[cv[r]]
    BY <1>2 DEF InTurn
  <2>2. Turn(r)'
    BY <1>1, <2>1 DEF Turn
  <2>3. Unresolved(r)'
    BY <1>1, <2>1 DEF Unresolved
  <2>4. QED BY <2>2, <2>3
<1>5. QED BY <1>3, <1>4, QuietWhole

LEMMA TailFacts ==
  ASSUME NEW S, NEW s \in Seq(S), s # <<>>
  PROVE  /\ Elements(s) = Elements(Tail(s)) \cup {Head(s)}
         /\ Distinct(s) => Distinct(Tail(s)) /\ Head(s) \notin Elements(Tail(s))
<1> DEFINE t == Tail(s)
<1>1. /\ Len(s) \in Nat /\ Len(s) >= 1 /\ DOMAIN s = 1..Len(s) /\ DOMAIN t = 1..(Len(s) - 1)
      /\ Head(s) = s[1] /\ \A i \in 1..(Len(s) - 1) : t[i] = s[i + 1]
  OBVIOUS
<1> HIDE DEF t
<1>2. \A i \in DOMAIN t : i + 1 \in DOMAIN s /\ i + 1 # 1 /\ t[i] = s[i + 1] /\ i \in Nat
  BY <1>1
<1>3. \A i \in DOMAIN s : i = 1 \/ (i - 1 \in DOMAIN t /\ t[i - 1] = s[i])
  <2>1. ASSUME NEW i \in DOMAIN s, i # 1 PROVE i - 1 \in DOMAIN t /\ t[i - 1] = s[i]
    <3>1. i - 1 \in 1..(Len(s) - 1) /\ (i - 1) + 1 = i
      BY <1>1, <2>1
    <3>2. QED BY <1>1, <3>1
  <2>2. QED BY <2>1
<1>4. 1 \in DOMAIN s
  BY <1>1
<1>5. Elements(s) = Elements(t) \cup {Head(s)}
  BY <1>1, <1>2, <1>3, <1>4 DEF Elements
<1>6. ASSUME Distinct(s) PROVE Distinct(t) /\ Head(s) \notin Elements(t)
  <2>1. ASSUME NEW i \in DOMAIN t, NEW j \in DOMAIN t, t[i] = t[j] PROVE i = j
    <3>1. i + 1 = j + 1
      BY <1>2, <1>6, <2>1 DEF Distinct
    <3>2. QED BY <1>2, <3>1
  <2>2. ASSUME NEW i \in DOMAIN t, t[i] = Head(s) PROVE FALSE
    <3>1. s[i + 1] = s[1] /\ i + 1 \in DOMAIN s /\ i + 1 # 1
      BY <1>1, <1>2, <2>2
    <3>2. QED BY <1>4, <1>6, <3>1 DEF Distinct
  <2>3. QED BY <2>1, <2>2 DEF Distinct, Elements
<1>7. QED BY <1>5, <1>6 DEF t

\* What the log of a conversation becomes when the request that is alone in it commits.
LEMMA CommitAnswered ==
  ASSUME Typed, Dialogue, NEW r \in Requests, Duties(r), Unresolved(r), NEW n \in Nat \ {0},
         Answered(log[cv[r]], n, Owed(r))
  PROVE  /\ Answered(log[cv[r]] \o writes[r], n, Held(r))
         /\ \A k \in Held(r) : \A j \in DOMAIN (log[cv[r]] \o writes[r]) : (log[cv[r]] \o writes[r])[j].of # k
<1> DEFINE s == log[cv[r]]
           w == writes[r]
<1>1. cv[r] \in Requests /\ s \in Seq(Message) /\ w \in Seq(Message)
  BY DEF Typed, Own, Common
<1>2. \A i \in DOMAIN w : w[i] \in Message /\ w[i].calls \in Seq(Call)
  <2>1. \A i \in DOMAIN w : w[i] \in Message
    BY <1>1
  <2>2. \A m \in Message : m.calls \in Seq(Call)
    BY DEF Message
  <2>3. QED BY <2>1, <2>2
<1>3. \A i \in DOMAIN w : Formed(w[i])
  BY DEF Dialogue, WritesFormed
<1>4. \A i \in DOMAIN w : w[i].of # NoCall => w[i].of \in Answers(r)
  BY DEF Answers
<1>5. \A k \in Answers(r) : k # NoCall /\ \E i \in DOMAIN w : w[i].of = k
  BY DEF Answers
<1>6. \A i \in DOMAIN w : \A k \in Elements(w[i].calls) : k \in Pending(r)
  <2>1. \A i \in DOMAIN w : Elements(w[i].calls) \subseteq Call
    BY <1>2 DEF Elements
  <2>2. QED BY <2>1 DEF Pending
<1>7. \A k \in Answers(r) \cup Held(r) : \A j \in DOMAIN s : s[j].of # k
  BY DEF Unresolved
<1>8. /\ Pending(r) # {} => Held(r) = Pending(r) /\ Len(w) = 1
      /\ Answers(r) \cap Held(r) = {}
      /\ Held(r) # {} /\ Pending(r) = {} => \A i \in DOMAIN w : w[i].kind \in ResultKinds
      /\ \A i, j \in DOMAIN w : w[i].of # NoCall /\ w[j].of = w[i].of => i = j
      /\ \A i \in DOMAIN w : i < Len(w) => w[i].kind \in ResultKinds
  BY DEF Duties, Dialogue, WritesFormed
<1>9. DOMAIN w = 1..Len(w) /\ Len(w) \in Nat
  BY <1>1
<1>10. Answered(s, n, Owed(r)) /\ n \in Nat
  OBVIOUS
<1>11. \A k \in Held(r) : k # NoCall
  <2>1. todo[r] \in Seq(Call) /\ NoCall \notin Call
    BY NoCallAssumption DEF Typed, Own
  <2>2. NoCall \notin Elements(todo[r])
    BY <2>1 DEF Elements
  <2>3. QED BY <2>2 DEF Held
<1> HIDE DEF s, w
<1>12. ASSUME NEW i \in DOMAIN w, w[i].of # NoCall
       PROVE  /\ \A j \in DOMAIN s : s[j].of # w[i].of
              /\ \A j \in DOMAIN w : w[j].of = w[i].of => i = j
  BY <1>4, <1>7, <1>8, <1>12
<1>13. ASSUME NEW k \in Owed(r)
       PROVE  \/ \E p \in DOMAIN w : w[p].of = k /\ \A q \in DOMAIN w : q <= p => w[q].kind \in ResultKinds
              \/ k \in Held(r) /\ \A q \in DOMAIN w : w[q].of # k /\ w[q].kind \in ResultKinds
  <2>1. CASE k \in Answers(r)
    <3>1. PICK p \in DOMAIN w : w[p].of = k /\ k # NoCall
      BY <1>5, <2>1
    <3>2. w[p].kind \in ResultKinds
      BY <1>3, <3>1 DEF Formed
    <3>3. ASSUME NEW q \in DOMAIN w, q <= p PROVE w[q].kind \in ResultKinds
      <4>1. q = p \/ q < Len(w)
        BY <1>9, <3>3
      <4>2. QED BY <1>8, <3>2, <4>1
    <3>4. QED BY <3>1, <3>3
  <2>2. CASE k \notin Answers(r)
    <3>1. k \in Held(r) /\ k \notin Pending(r)
      BY <2>2 DEF Owed
    <3>2. Pending(r) = {}
      BY <1>8, <3>1
    <3>3. \A q \in DOMAIN w : w[q].kind \in ResultKinds
      BY <1>8, <3>1, <3>2
    <3>4. \A q \in DOMAIN w : w[q].of # k
      BY <1>4, <1>11, <2>2, <3>1
    <3>5. QED BY <3>1, <3>3, <3>4
  <2>3. QED BY <2>1, <2>2
<1>14. ASSUME NEW i \in DOMAIN w, NEW k \in Elements(w[i].calls)
       PROVE  /\ k \in Held(r) /\ \A j \in DOMAIN s : s[j].of # k
              /\ \A j \in DOMAIN w : w[j].of # k /\ (j > i => w[j].kind \in ResultKinds)
  <2>1. k \in Pending(r)
    BY <1>6
  <2>2. k \in Held(r) /\ Len(w) = 1
    BY <1>8, <2>1
  <2>3. \A j \in DOMAIN w : w[j].of # k
    BY <1>4, <1>8, <1>11, <2>2
  <2>4. \A j \in DOMAIN w : ~(j > i)
    BY <1>9, <2>2
  <2>5. QED BY <1>7, <2>2, <2>3, <2>4
<1>15. Answered(s \o w, n, Held(r))
  BY <1>1, <1>10, <1>12, <1>13, <1>14, AnsweredMore
<1>16. ASSUME NEW k \in Held(r), NEW j \in DOMAIN (s \o w) PROVE (s \o w)[j].of # k
  <2>1. \/ j \in DOMAIN s /\ (s \o w)[j] = s[j]
        \/ j - Len(s) \in DOMAIN w /\ (s \o w)[j] = w[j - Len(s)]
    BY <1>1, ConcatParts
  <2>2. \A i \in DOMAIN w : w[i].of # k
    BY <1>4, <1>8, <1>11
  <2>3. QED BY <1>7, <2>1, <2>2
<1>17. QED BY <1>15, <1>16 DEF s, w

LEMMA CommitWhole ==
  ASSUME Typed, Names, Dialogue, Whole, NEW r \in Requests, Commit(r)
  PROVE  Whole'
<1> DEFINE c == cv[r]
           t == log[cv[r]] \o writes[r]
<1>1. /\ pc[r] = "commit" /\ pc[r] \in Live /\ c \in Requests /\ overlapped' = overlapped
      /\ log[c] \in Seq(Message) /\ writes[r] \in Seq(Message) /\ messages[r] \in Seq(Message)
  BY DEF Commit, Live, InHandler, Typed, Own, Common
<1>2. log'[c] = t /\ \A d \in Requests : d # c => log'[d] = log[d]
  BY CommitGrows
<1>3. /\ \A s \in Requests \ {r} : Same(s)
      /\ \/ pc'[r] \notin Live /\ Duties(r)' /\ InTurn(r)'
         \/ /\ pc'[r] = after[r] /\ after[r] \in {"open", "tools"} /\ cv'[r] = c /\ writes'[r] = <<>>
            /\ messages'[r] = messages[r] \o writes[r]
            /\ todo'[r] = todo[r] /\ shown'[r] = shown[r] /\ after'[r] = after[r]
  <2>1. CASE after[r] = "done"
    <3>1. End(r, "done") /\ "done" \in Ended
      BY <2>1 DEF Commit, Ended
    <3>2. QED BY <3>1, EndState
  <2>2. CASE after[r] # "done"
    BY <2>2 DEF Commit, Typed, Own, Same, Alone
  <2>3. QED BY <2>1, <2>2
<1>4. Duties(r) /\ InTurn(r) /\ Settled(c)
  BY <1>1 DEF Whole
<1>5. Held(r) \subseteq Call
  BY DEF Held, Elements, Typed, Own
<1>6. ASSUME c \notin overlapped
      PROVE  \E n \in Nat \ {0} :
               /\ n <= Start(log[c]) /\ Answered(t, n, Held(r))
               /\ \A k \in Held(r) : \A j \in DOMAIN t : t[j].of # k
               /\ Replying(r) => Shows(messages[r] \o writes[r], t, n)
  <2>1. Unresolved(r) /\ Turn(r)
    BY <1>1, <1>4, <1>6 DEF InTurn
  <2>2. PICK n \in Nat \ {0} : n <= Start(log[c]) /\ Answered(log[c], n, Owed(r))
                               /\ (Replying(r) => Shows(messages[r], log[c], n))
    BY <2>1 DEF Turn
  <2>3. Answered(t, n, Held(r)) /\ \A k \in Held(r) : \A j \in DOMAIN t : t[j].of # k
    BY <1>4, <2>1, <2>2, CommitAnswered
  <2>4. Replying(r) => Shows(messages[r] \o writes[r], t, n)
    BY <1>1, <2>2, ShowsMore
  <2>5. QED BY <2>2, <2>3, <2>4
<1>7. Start(log[c]) \in Nat /\ Start(t) \in Nat /\ Start(log[c]) <= Start(t) /\ t \in Seq(Message)
  <2>1. t \in Seq(Message)
    BY <1>1, ConcatParts
  <2>2. QED BY <1>1, <2>1, StartFacts
<1> HIDE DEF c, t
<1>8. ASSUME NEW d \in Requests PROVE Settled(d)'
  <2>1. CASE d = c /\ c \notin overlapped
    <3>1. PICK n \in Nat \ {0} : n <= Start(log[c]) /\ Answered(t, n, Held(r))
      BY <1>6, <2>1
    <3>2. n <= Start(t)
      BY <1>7, <3>1
    <3>3. Answered(t, Start(t), Call)
      BY <1>5, <1>7, <3>1, <3>2, AnsweredWeaker
    <3>4. QED BY <1>2, <2>1, <3>3 DEF Settled
  <2>2. CASE d = c /\ c \in overlapped
    BY <1>1, <2>2 DEF Settled
  <2>3. CASE d # c
    BY <1>1, <1>2, <2>3 DEF Whole, Settled
  <2>4. QED BY <2>1, <2>2, <2>3
<1>9. ASSUME NEW s \in Requests, s # r PROVE Duties(s)' /\ InTurn(s)'
  <2>1. ASSUME pc[s] \in Live, cv[s] \notin overlapped' PROVE log'[cv[s]] = log[cv[s]]
    <3>1. cv[s] # c /\ cv[s] \in Requests
      BY <1>1, <1>9, <2>1 DEF Whole, Sole, c, Typed, Own
    <3>2. QED BY <1>2, <3>1
  <2>2. QED BY <1>1, <1>3, <1>9, <2>1, SameWhole
<1>10. Duties(r)' /\ InTurn(r)'
  <2>1. CASE pc'[r] \notin Live /\ Duties(r)' /\ InTurn(r)'
    BY <2>1
  <2>2. CASE /\ pc'[r] = after[r] /\ after[r] \in {"open", "tools"} /\ cv'[r] = c /\ writes'[r] = <<>>
             /\ messages'[r] = messages[r] \o writes[r]
             /\ todo'[r] = todo[r] /\ shown'[r] = shown[r] /\ after'[r] = after[r]
    <3>1. Held(r)' = Held(r) /\ Answers(r)' = {} /\ Pending(r)' = {}
      BY <2>2 DEF Held, Answers, Pending
    <3>2. Owed(r)' = Held(r)
      BY <3>1 DEF Owed
    <3>3. Duties(r)'
      BY <1>4, <2>2, <3>1 DEF Duties
    <3>4. Replying(r)' => Replying(r)
      BY <1>1, <2>2 DEF Replying
    <3>5. ASSUME c \notin overlapped PROVE Turn(r)' /\ Unresolved(r)'
      <4>1. PICK n \in Nat \ {0} :
               /\ n <= Start(log[c]) /\ Answered(t, n, Held(r))
               /\ \A k \in Held(r) : \A j \in DOMAIN t : t[j].of # k
               /\ Replying(r) => Shows(messages[r] \o writes[r], t, n)
        BY <1>6, <3>5
      <4>2. n <= Start(t)
        BY <1>7, <4>1
      <4>3. log'[cv'[r]] = t
        BY <1>2, <2>2
      <4>4. Turn(r)'
        BY <2>2, <3>2, <3>4, <4>1, <4>2, <4>3 DEF Turn
      <4>5. Unresolved(r)'
        BY <3>1, <4>1, <4>3 DEF Unresolved
      <4>6. QED BY <4>4, <4>5
    <3>6. InTurn(r)'
      BY <1>1, <2>2, <3>5 DEF InTurn
    <3>7. QED BY <3>3, <3>6
  <2>3. QED BY <1>3, <2>1, <2>2
<1>11. Sole'
  <2>1. \A s \in Requests : pc'[s] \in Live => pc[s] \in Live /\ cv'[s] = cv[s]
    BY <1>1, <1>3 DEF Same, Alone, c
  <2>2. QED BY <1>1, <2>1 DEF Whole, Sole
<1>12. QED BY <1>8, <1>9, <1>10, <1>11 DEF Whole

\* The next request finds every call that waits within the window.
LEMMA OpenFound ==
  ASSUME Typed, Dialogue, NEW c \in Requests, NEW i \in DOMAIN log[c], i >= Start(log[c]),
         NEW k \in Elements(log[c][i].calls), Waits(log[c], i, k)
  PROVE  k \in Elements(Unanswered(Recent(log[c])))
<1> DEFINE s == log[c]
           recent == Recent(s)
           n == Start(s)
           m == i - n + 1
<1>1. s \in Seq(Message) /\ Len(s) \in Nat /\ DOMAIN s = 1..Len(s) /\ Formed(s[i])
  BY DEF Typed, Common, Dialogue, LogFormed
<1>2. n \in Nat \ {0} /\ recent \in Seq(Message) /\ Shows(recent, s, n)
  BY <1>1, StartFacts
<1>3. i \in DOMAIN s /\ i >= n /\ k \in Elements(s[i].calls)
      /\ \A j \in DOMAIN s : s[j].of # k /\ (j > i => s[j].kind \in ResultKinds)
  BY DEF Waits
<1> HIDE DEF s, recent, n
<1>4. /\ Len(recent) + n = Len(s) + 1 /\ Len(recent) \in Nat /\ DOMAIN recent = 1..Len(recent)
      /\ \A j \in DOMAIN recent : n + j - 1 \in DOMAIN s /\ recent[j] = s[n + j - 1]
  BY <1>2 DEF Shows
<1>5. m \in DOMAIN recent /\ recent[m] = s[i]
  <2>1. m \in 1..Len(recent) /\ n + m - 1 = i
    BY <1>1, <1>2, <1>3, <1>4
  <2>2. QED BY <1>4, <2>1
<1>6. recent[m].kind = "calls"
  <2>1. s[i].calls # <<>>
    BY <1>3 DEF Elements
  <2>2. QED BY <1>1, <1>5, <2>1 DEF Formed
<1>7. PICK last \in DOMAIN recent :
        /\ recent[last].kind \in {"user", "calls"}
        /\ \A j \in DOMAIN recent : j > last => recent[j].kind \notin {"user", "calls"}
        /\ Elements(Unanswered(recent)) =
             Elements(recent[last].calls) \ {recent[j].of : j \in {j \in DOMAIN recent : j > last}}
  <2>1. ~(\A j \in DOMAIN recent : recent[j].kind \notin {"user", "calls"})
    BY <1>5, <1>6
  <2>2. QED BY <1>2, <2>1, UnansweredFacts
<1>8. last = m
  <2>1. ~(m > last)
    BY <1>5, <1>6, <1>7
  <2>2. ~(last > m)
    <3>1. ASSUME last > m PROVE n + last - 1 > i
      BY <1>1, <1>2, <1>3, <1>4, <3>1
    <3>2. ASSUME last > m PROVE FALSE
      <4>1. n + last - 1 \in DOMAIN s /\ recent[last] = s[n + last - 1] /\ n + last - 1 > i
        BY <1>4, <3>1, <3>2
      <4>2. recent[last].kind \in ResultKinds
        BY <1>3, <4>1
      <4>3. QED BY <1>7, <4>2 DEF ResultKinds
    <3>3. QED BY <3>2
  <2>3. last \in Nat /\ m \in Nat
    BY <1>4, <1>5, <1>7
  <2>4. QED BY <2>1, <2>2, <2>3
<1>9. k \in Elements(recent[last].calls)
  BY <1>3, <1>5, <1>8
<1>10. k \notin {recent[j].of : j \in {j \in DOMAIN recent : j > last}}
  BY <1>3, <1>4
<1>11. QED BY <1>7, <1>9, <1>10 DEF s, recent

\* The replies answer every open call, each once, and come before the message of the user.
LEMMA ReplyOrder ==
  ASSUME NEW open \in Seq(Call), Distinct(open), NEW k \in Call \cup {NoCall}
  PROVE  /\ \A q \in Elements(open) : \E p \in DOMAIN Replies(open, k) : Replies(open, k)[p].of = q
         /\ \A i, j \in DOMAIN Replies(open, k) :
              Replies(open, k)[i].of # NoCall /\ Replies(open, k)[j].of = Replies(open, k)[i].of => i = j
         /\ \A i \in DOMAIN Replies(open, k) :
              i < Len(Replies(open, k)) => Replies(open, k)[i].kind \in ResultKinds
<1> DEFINE ms == Replies(open, k)
           others == Unless(open, {k})
           own == IF k = NoCall THEN UserText ELSE ResultOf(k, "saved")
<1>1. /\ ms \in Seq(Message) /\ Len(ms) = Len(others) + 1 /\ Len(others) \in Nat /\ others \in Seq(Call)
      /\ ms[Len(ms)] = own
      /\ \A i \in DOMAIN others : ms[i] = ResultOf(others[i], "skipped")
  BY RepliesFacts
<1>2. Elements(others) = Elements(open) \ {k} /\ Distinct(others)
  BY UnlessFacts
<1>3. own.of = k
  BY DEF UserText, ResultOf
<1> HIDE DEF ms, others, own
<1>4. DOMAIN ms = 1..(Len(others) + 1) /\ DOMAIN others = 1..Len(others) /\ Len(ms) \in DOMAIN ms
  BY <1>1
<1>5. \A i \in DOMAIN others : i \in DOMAIN ms /\ ms[i].of = others[i] /\ ms[i].kind \in ResultKinds
                               /\ others[i] \in Elements(open) /\ others[i] # k
  <2>1. \A q : ResultOf(q, "skipped").of = q /\ ResultOf(q, "skipped").kind \in ResultKinds
    BY DEF ResultOf, ResultKinds
  <2>2. \A i \in DOMAIN others : others[i] \in Elements(others) /\ i \in DOMAIN ms
    BY <1>4 DEF Elements
  <2>3. QED BY <1>1, <1>2, <2>1, <2>2
<1>6. \A i \in DOMAIN ms : i \in DOMAIN others \/ (i = Len(ms) /\ ms[i].of = k)
  BY <1>1, <1>3, <1>4
<1>7. ASSUME NEW q \in Elements(open) PROVE \E p \in DOMAIN ms : ms[p].of = q
  <2>1. CASE q = k
    BY <1>1, <1>3, <1>4, <2>1
  <2>2. CASE q # k
    <3>1. PICK p \in DOMAIN others : others[p] = q
      BY <1>2, <2>2 DEF Elements
    <3>2. QED BY <1>5, <3>1
  <2>3. QED BY <2>1, <2>2
<1>8. ASSUME NEW i \in DOMAIN ms, NEW j \in DOMAIN ms, ms[j].of = ms[i].of PROVE i = j
  BY <1>2, <1>5, <1>6, <1>8 DEF Distinct
<1>9. ASSUME NEW i \in DOMAIN ms, i < Len(ms) PROVE ms[i].kind \in ResultKinds
  <2>1. i # Len(ms)
    BY <1>1, <1>4, <1>9
  <2>2. QED BY <1>5, <1>6, <2>1
<1>10. QED BY <1>7, <1>8, <1>9 DEF ms

LEMMA AskWhole ==
  ASSUME Typed, Names, Dialogue, Whole, NEW r \in Requests, Ask(r)
  PROVE  Whole'
<1>1. PICK c \in Lookup(r), k \in {NoCall} \cup delivered :
        /\ k = NoCall \/ k \in Elements(Unanswered(Recent(log[c])))
        /\ cv' = [cv EXCEPT ![r] = c]
        /\ Insert(r, Replies(Unanswered(Recent(log[c])), k), "open")
        /\ overlapped' = overlapped \cup {d \in {c} : \E s \in Requests : cv[s] = d /\ pc[s] \in Live}
  BY DEF Ask
<1> DEFINE open == Unanswered(Recent(log[c]))
           ms == Replies(open, k)
<1>2. c \in Requests /\ k \in Call \cup {NoCall}
  BY DEF Lookup, Typed, Common
<1>3. /\ open \in Seq(Call) /\ Distinct(open)
      /\ \A q \in Elements(open) : \A j \in DOMAIN log[c] : log[c][j].of # q
  BY <1>2, OpenFacts
<1>4. /\ writes'[r] = ms /\ cv'[r] = c /\ after'[r] = "open" /\ pc[r] = "new" /\ pc'[r] = "flush"
      /\ log' = log /\ todo' = todo /\ shown' = shown
      /\ \A s \in Requests \ {r} : Same(s)
  BY <1>1 DEF Ask, Insert, Typed, Own, tables, streamVars, Same, Alone
<1>5. k = NoCall \/ k \in Elements(open)
  BY <1>1
<1>6. ASSUME c \notin overlapped, NEW i \in DOMAIN log[c], i >= Start(log[c]),
             NEW q \in Elements(log[c][i].calls)
      PROVE  Done(log[c], i, q) \/ (q \in Elements(open) /\ Waits(log[c], i, q))
  <2>1. Answered(log[c], Start(log[c]), Call)
    BY <1>2, <1>6 DEF Whole, Settled
  <2>2. Done(log[c], i, q) \/ Waits(log[c], i, q)
    BY <1>6, <2>1 DEF Answered
  <2>3. QED BY <1>2, <1>6, <2>2, OpenFound
<1> HIDE DEF open
<1>7. /\ \A i \in DOMAIN ms : ms[i].calls = <<>> /\ (ms[i].of # NoCall => ms[i].of \in Elements(open))
      /\ \A q \in Elements(open) : q # NoCall /\ \E p \in DOMAIN ms : ms[p].of = q
      /\ \A i, j \in DOMAIN ms : ms[i].of # NoCall /\ ms[j].of = ms[i].of => i = j
      /\ \A i \in DOMAIN ms : i < Len(ms) => ms[i].kind \in ResultKinds
  <2>1. \A i \in DOMAIN ms : ms[i].calls = <<>> /\ (ms[i].of # NoCall => ms[i].of \in Elements(open))
    BY <1>2, <1>3, <1>5, ReplyFormed, RepliesAskNothing
  <2>2. NoCall \notin Elements(open)
    BY <1>3, NoCallAssumption DEF Elements
  <2>3. QED BY <1>2, <1>3, <2>1, <2>2, ReplyOrder
<1> HIDE DEF ms
<1>8. Answers(r)' = Elements(open)
  BY <1>4, <1>7 DEF Answers
<1>9. Pending(r)' = {} /\ Held(r)' = {}
  <2>1. Pending(r)' = {}
    BY <1>4, <1>7 DEF Pending, Elements
  <2>2. Held(r) = {}
    BY <1>4 DEF Names, Replying
  <2>3. QED BY <1>4, <2>1, <2>2 DEF Held
<1>10. Owed(r)' = Elements(open)
  BY <1>8, <1>9 DEF Owed
<1>11. Duties(r)'
  <2>1. Distinct(todo[r]) /\ shown[r] \notin Elements(todo[r])
    BY DEF Whole, Duties
  <2>2. QED BY <1>4, <1>7, <1>9, <2>1 DEF Duties
<1>12. InTurn(r)'
  <2> SUFFICES ASSUME c \notin overlapped' PROVE Turn(r)' /\ Unresolved(r)'
    BY <1>4 DEF InTurn
  <2>1. c \notin overlapped
    BY <1>1
  <2>2. Start(log[c]) \in Nat \ {0} /\ Start(log[c]) <= Start(log[c])
    <3>1. log[c] \in Seq(Message)
      BY <1>2 DEF Typed, Common
    <3>2. Start(log[c]) \in Nat \ {0}
      BY <3>1, StartFacts
    <3>3. QED BY <3>2
  <2>3. Answered(log[c], Start(log[c]), Elements(open))
    BY <1>6, <2>1 DEF Answered
  <2>4. ~Replying(r)'
    BY <1>4 DEF Replying
  <2>5. log'[cv'[r]] = log[c]
    BY <1>4
  <2>6. Turn(r)'
    BY <1>10, <2>2, <2>3, <2>4, <2>5 DEF Turn
  <2>7. Unresolved(r)'
    BY <1>3, <1>8, <1>9, <2>5 DEF Unresolved
  <2>8. QED BY <2>6, <2>7
<1>13. overlapped \subseteq overlapped' /\ (\A s \in Requests : cv[s] = c /\ pc[s] \in Live => c \in overlapped')
  BY <1>1
<1>14. \A d \in Requests : Settled(d)'
  BY <1>4, <1>13 DEF Whole, Settled
<1>15. ASSUME NEW s \in Requests PROVE Duties(s)' /\ InTurn(s)'
  <2>1. CASE s = r
    BY <1>11, <1>12, <2>1
  <2>2. CASE s # r
    BY <1>4, <1>13, <2>2, SameWhole
  <2>3. QED BY <2>1, <2>2
<1>16. Sole'
  <2>1. \A s \in Requests \ {r} : pc'[s] = pc[s] /\ cv'[s] = cv[s]
    BY <1>4 DEF Same, Alone
  <2>2. QED BY <1>4, <1>13, <2>1 DEF Whole, Sole
<1>17. QED BY <1>14, <1>15, <1>16 DEF Whole

\* A request that is replying starts to write one message.
LEMMA InsertWhole ==
  ASSUME Typed, Whole, NEW r \in Requests, NEW next \in {"tools", "done"}, \E ms : Insert(r, ms, next),
         pc[r] \in {"streaming", "tools"}, writes[r] = <<>>,
         UNCHANGED <<log, cv, overlapped, messages, round, shown>>,
         \A s \in Requests \ {r} : todo'[s] = todo[s],
         NEW m, writes'[r] = <<m>>, m.of # NoCall => m.of \in Held(r),
         m.of # NoCall => m.kind \in ResultKinds,
         Held(r) = {} \/ Held(r) = Held(r)' \cup {m.of},
         Distinct(todo'[r]), shown'[r] \notin Elements(todo'[r]), m.of \notin Held(r)',
         Pending(r)' # {} => Held(r)' = Pending(r)' /\ Held(r) = {},
         Held(r)' # {} /\ Pending(r)' = {} => m.of # NoCall,
         \A k \in Held(r)' : k \in Held(r) \/ \A j \in DOMAIN log[cv[r]] : log[cv[r]][j].of # k
  PROVE  Whole'
<1>1. /\ pc'[r] = "flush" /\ after'[r] = next
      /\ \A s \in Requests \ {r} : pc'[s] = pc[s] /\ after'[s] = after[s] /\ writes'[s] = writes[s]
  BY DEF Insert, Typed, Own
<1>2. \A s \in Requests \ {r} : Same(s)
  BY <1>1 DEF Same, Alone
<1>3. Answers(r) = {} /\ Pending(r) = {} /\ Owed(r) = Held(r)
  BY DEF Answers, Pending, Owed
<1>4. Answers(r)' = {m.of} \ {NoCall}
  BY DEF Answers
<1>5. Duties(r)'
  BY <1>4 DEF Duties
<1>6. Replying(r) /\ Replying(r)' /\ pc[r] \in Live
  BY <1>1 DEF Replying, Live
<1>7. Held(r) \subseteq Owed(r)'
  <2>1. NoCall \notin Held(r)
    <3>1. NoCall \notin Elements(todo[r])
      BY NoCallAssumption DEF Typed, Own, Elements
    <3>2. QED BY <3>1 DEF Held
  <2>2. CASE Held(r) # {}
    <3>1. Held(r) = Held(r)' \cup {m.of} /\ Pending(r)' = {}
      BY <2>2
    <3>2. QED BY <1>4, <2>1, <3>1 DEF Owed
  <2>3. QED BY <2>2
<1>8. InTurn(r)'
  <2> SUFFICES ASSUME cv[r] \notin overlapped PROVE Turn(r)' /\ Unresolved(r)'
    BY DEF InTurn
  <2>1. Turn(r) /\ Unresolved(r)
    BY <1>6 DEF Whole, InTurn
  <2>2. PICK n \in Nat \ {0} : /\ n <= Start(log[cv[r]]) /\ Answered(log[cv[r]], n, Held(r))
                               /\ Shows(messages[r], log[cv[r]], n)
    BY <1>3, <1>6, <2>1 DEF Turn
  <2>3. log[cv[r]] \in Seq(Message) /\ n <= n
    BY DEF Typed, Own, Common
  <2>4. Answered(log[cv[r]], n, Owed(r)')
    BY <1>7, <2>2, <2>3, AnsweredWeaker
  <2>5. log'[cv'[r]] = log[cv[r]] /\ messages'[r] = messages[r]
    OBVIOUS
  <2>6. Turn(r)'
    BY <2>2, <2>4, <2>5 DEF Turn
  <2>7. \A k \in Answers(r)' \cup Held(r)' : \A j \in DOMAIN log[cv[r]] : log[cv[r]][j].of # k
    BY <1>4, <2>1 DEF Unresolved
  <2>8. Unresolved(r)'
    BY <2>5, <2>7 DEF Unresolved
  <2>9. QED BY <2>6, <2>8
<1>9. QED BY <1>2, <1>5, <1>6, <1>8, QuietWhole

LEMMA GeneratorWhole ==
  ASSUME Typed, Names, Dialogue, Whole, NEW r \in Requests, ModelAnswers(r) \/ ModelCalls(r) \/ RunTool(r)
  PROVE  Whole'
<1> USE DEF tables, streamVars, requestVars, clientVars
<1>1. PICK next \in {"tools", "done"} : \E ms : Insert(r, ms, next)
  BY DEF ModelAnswers, ModelCalls, RunTool
<1>2. /\ UNCHANGED <<log, cv, overlapped, messages, round, shown>>
      /\ pc[r] \in {"streaming", "tools"}
      /\ \A s \in Requests \ {r} : todo'[s] = todo[s]
  BY <1>1 DEF ModelAnswers, ModelCalls, RunTool, Typed, Own
<1>3. writes[r] = <<>>
  BY <1>2 DEF Names, Writing
<1>4. Distinct(todo[r]) /\ shown[r] \notin Elements(todo[r]) /\ todo[r] \in Seq(Call)
  BY DEF Whole, Duties, Typed, Own
<1>5. CASE ModelAnswers(r)
  <2>1. writes'[r] = <<AssistantText>> /\ todo'[r] = todo[r] /\ pc[r] = "streaming"
    BY <1>5 DEF ModelAnswers, Insert, Typed, Own
  <2>2. AssistantText.of = NoCall /\ AssistantText.calls = <<>>
    BY DEF AssistantText
  <2>3. Held(r) = {}
    BY <2>1 DEF Names
  <2>4. Held(r)' = {} /\ Pending(r)' = {}
    <3>1. Held(r)' = Held(r)
      BY <1>2, <2>1 DEF Held
    <3>2. Elements(AssistantText.calls) = {}
      BY <2>2 DEF Elements
    <3>3. DOMAIN writes'[r] = {1} /\ writes'[r][1] = AssistantText
      BY <2>1
    <3>4. Pending(r)' = {}
      BY <3>2, <3>3 DEF Pending
    <3>5. QED BY <2>3, <3>1, <3>4
  <2>5. QED BY <1>1, <1>2, <1>3, <1>4, <2>1, <2>2, <2>3, <2>4, InsertWhole
<1>6. CASE ModelCalls(r)
  <2>1. PICK shape \in Shapes : Insert(r, <<Asking(Named(r, shape))>>, "tools")
                                /\ todo' = [todo EXCEPT ![r] = Named(r, shape)]
    BY <1>6 DEF ModelCalls, Named
  <2> DEFINE ks == Named(r, shape)
  <2>2. pc[r] = "streaming" /\ Replying(r) /\ pc[r] \notin Ended
    BY <1>6 DEF ModelCalls, Replying, Ended
  <2>3. ks \in Seq(Call)
    <3>1. round[r] # 0
      BY <2>2 DEF Typed, Own
    <3>2. QED BY <3>1, NamedTyped
  <2>4. Distinct(ks) /\ \A k \in Elements(ks) : k \in Call /\ k.by = r /\ k.round = round[r]
    <3>1. \A i \in DOMAIN ks : ks[i].by = r /\ ks[i].round = round[r] /\ ks[i].place = i
      BY DEF Named
    <3>2. QED BY <2>3, <3>1 DEF Elements, Distinct
  <2>5. ASSUME NEW k \in Elements(ks), NEW j \in DOMAIN log[cv[r]], log[cv[r]][j].of = k PROVE FALSE
    <3>1. cv[r] \in Requests /\ k # NoCall /\ k \in Call
      BY <2>4, NoCallAssumption DEF Typed, Own
    <3>2. \E i \in DOMAIN log[cv[r]] : k \in Elements(log[cv[r]][i].calls)
      BY <2>5, <3>1 DEF Dialogue, LogFormed, Behind
    <3>3. k \in CallsOf(cv[r])
      BY <3>1, <3>2 DEF CallsOf
    <3>4. Past(k)
      BY <3>1, <3>3 DEF Names
    <3>5. QED BY <2>2, <2>4, <3>4 DEF Past
  <2> HIDE DEF ks
  <2>6. writes'[r] = <<Asking(ks)>> /\ todo'[r] = ks
    BY <2>1 DEF Insert, Typed, Own, ks
  <2>7. Asking(ks).of = NoCall /\ Asking(ks).calls = ks
    BY DEF Asking
  <2>8. Held(r) = {}
    BY <2>2 DEF Names
  <2>9. shown[r] = NoCall
    BY <2>8 DEF Held
  <2>10. Held(r)' = Elements(ks) /\ Pending(r)' = Elements(ks)
    BY <1>2, <2>4, <2>6, <2>7, <2>9 DEF Held, Pending
  <2>11. NoCall \notin Elements(ks)
    BY <2>4, NoCallAssumption
  <2>12. QED BY <1>1, <1>2, <1>3, <2>4, <2>5, <2>6, <2>7, <2>8, <2>9, <2>10, <2>11, InsertWhole
<1>7. CASE RunTool(r)
  <2>1. /\ todo[r] # <<>> /\ writes'[r] = <<ResultOf(Head(todo[r]), "result")>>
        /\ todo'[r] = Tail(todo[r])
    BY <1>7 DEF RunTool, Insert, Typed, Own
  <2> DEFINE k == Head(todo[r])
  <2>2. /\ Elements(todo[r]) = Elements(todo'[r]) \cup {k}
        /\ Distinct(todo'[r]) /\ k \notin Elements(todo'[r])
    BY <1>4, <2>1, TailFacts
  <2>3. k \in Call /\ k # NoCall /\ k # shown[r]
    <3>1. k \in Elements(todo[r])
      BY <2>2
    <3>2. k \in Call
      BY <1>4, <3>1 DEF Elements
    <3>3. QED BY <1>4, <3>1, <3>2, NoCallAssumption
  <2> HIDE DEF k
  <2>4. Held(r) = Held(r)' \cup {k} /\ k \notin Held(r)'
    BY <1>2, <2>2, <2>3 DEF Held
  <2>5. ResultOf(k, "result").of = k /\ ResultOf(k, "result").kind \in ResultKinds
        /\ ResultOf(k, "result").calls = <<>>
    BY DEF ResultOf, ResultKinds
  <2>6. writes'[r] = <<ResultOf(k, "result")>>
    BY <2>1 DEF k
  <2>7. Pending(r)' = {}
    BY <2>5, <2>6 DEF Pending, Elements
  <2>8. shown'[r] \notin Elements(todo'[r])
    BY <1>2, <1>4, <2>2
  <2>9. QED BY <1>1, <1>2, <1>3, <2>2, <2>3, <2>4, <2>5, <2>6, <2>7, <2>8, InsertWhole
<1>8. QED BY <1>5, <1>6, <1>7

LEMMA OpenWhole ==
  ASSUME Typed, Names, Whole, NEW r \in Requests, Open(r)
  PROVE  Whole'
<1>1. /\ pc[r] = "open" /\ pc'[r] = "streaming" /\ pc[r] \in Live /\ messages'[r] = Recent(log[cv[r]])
      /\ UNCHANGED <<log, cv, overlapped, writes, todo, shown>>
      /\ \A s \in Requests \ {r} : Same(s)
  BY DEF Open, Typed, Own, Same, Alone, requestVars, tables, Live, InHandler
<1>2. Held(r) = {} /\ writes[r] = <<>>
  BY <1>1 DEF Names, Writing, Replying
<1>3. Owed(r) = {} /\ Owed(r)' = {} /\ Answers(r)' = Answers(r) /\ Held(r)' = Held(r) /\ Pending(r)' = Pending(r)
  BY <1>1, <1>2 DEF Owed, Answers, Pending, Held
<1>4. Duties(r)'
  BY <1>1, <1>3 DEF Whole, Duties
<1>5. InTurn(r)'
  <2> SUFFICES ASSUME cv[r] \notin overlapped PROVE Turn(r)' /\ Unresolved(r)'
    BY <1>1 DEF InTurn
  <2> DEFINE s == log[cv[r]]
  <2>1. Turn(r) /\ Unresolved(r)
    BY <1>1 DEF Whole, InTurn
  <2>2. s \in Seq(Message)
    BY DEF Typed, Own, Common
  <2>3. Start(s) \in Nat \ {0} /\ Shows(Recent(s), s, Start(s)) /\ Start(s) <= Start(s)
    BY <2>2, StartFacts
  <2>4. Answered(s, Start(s), {})
    <3>1. PICK n \in Nat \ {0} : n <= Start(s) /\ Answered(s, n, {})
      BY <1>3, <2>1 DEF Turn
    <3>2. QED BY <2>2, <2>3, <3>1, AnsweredWeaker
  <2>5. log'[cv'[r]] = s /\ messages'[r] = Recent(s)
    BY <1>1
  <2> HIDE DEF s
  <2>6. Turn(r)'
    BY <1>3, <2>3, <2>4, <2>5 DEF Turn
  <2>7. Unresolved(r)'
    <3>1. \A k \in Answers(r)' \cup Held(r)' : \A j \in DOMAIN s : s[j].of # k
      BY <1>3, <2>1 DEF Unresolved, s
    <3>2. QED BY <2>5, <3>1 DEF Unresolved
  <2>8. QED BY <2>6, <2>7
<1>6. QED BY <1>1, <1>4, <1>5, QuietWhole

LEMMA WholeStep == Typed /\ Names /\ Dialogue /\ Whole /\ [Next]_vars => Whole'
<1> SUFFICES ASSUME Typed, Names, Dialogue, Whole, [Next]_vars PROVE Whole'
  OBVIOUS
<1> USE DEF tables, streamVars, requestVars, clientVars
<1>ended. "done" \in Ended /\ "refused" \in Ended
  BY DEF Ended
<1>1. ASSUME NEW r \in Requests,
             Refuse(r) \/ Break(r) \/ FlushRejected(r) \/ OpenRejected(r) \/ ModelIsSilent(r) \/ StreamFails(r)
      PROVE  Whole'
  <2>1. log' = log /\ overlapped' = overlapped /\ \E how \in Ended : End(r, how)
    BY <1>1, <1>ended DEF Refuse, Break, FlushRejected, OpenRejected, ModelIsSilent, StreamFails
  <2>2. QED BY <2>1, EndWhole
<1>own. \A r \in Requests : Distinct(todo[r]) /\ shown[r] \notin Elements(todo[r])
  BY DEF Whole, Duties
<1>2. ASSUME NEW r \in Requests, Flush(r) PROVE Whole'
  <2>1. /\ pc[r] = "flush" /\ pc'[r] = "commit" /\ \A s \in Requests \ {r} : Same(s)
        /\ UNCHANGED <<log, overlapped, cv, after, writes, messages, todo, shown>>
    BY <1>2 DEF Flush, Typed, Own, Same, Alone
  <2>2. Replying(r)' => Replying(r)
    BY <2>1 DEF Replying
  <2>3. Held(r)' = Held(r) /\ pc[r] \in Live
    BY <2>1 DEF Held, Live, InHandler
  <2>4. QED BY <1>own, <2>1, <2>2, <2>3, StillWhole
<1>3. ASSUME NEW r \in Requests, ShowCard(r) PROVE Whole'
  <2>1. /\ pc[r] = "tools" /\ todo[r] # <<>> /\ todo[r] \in Seq(Call) /\ shown[r] = NoCall
        /\ shown'[r] = Head(todo[r]) /\ todo'[r] = Tail(todo[r])
        /\ \A s \in Requests \ {r} : Same(s)
        /\ UNCHANGED <<log, overlapped, pc, cv, after, writes, messages>>
    BY <1>3 DEF ShowCard, Typed, Own, Same, Alone
  <2>2. /\ Elements(todo[r]) = Elements(todo'[r]) \cup {Head(todo[r])}
        /\ Distinct(todo'[r]) /\ Head(todo[r]) \notin Elements(todo'[r])
    BY <1>own, <2>1, TailFacts
  <2>3. Head(todo[r]) # NoCall
    <3>1. NoCall \notin Elements(todo[r])
      BY <2>1, NoCallAssumption DEF Elements
    <3>2. QED BY <2>2, <3>1
  <2>4. Held(r)' = Held(r)
    BY <2>1, <2>2, <2>3 DEF Held
  <2>5. Replying(r)' => Replying(r)
    BY <2>1 DEF Replying
  <2>6. pc[r] \in Live
    BY <2>1 DEF Live
  <2>7. QED BY <2>1, <2>2, <2>4, <2>5, <2>6, StillWhole
<1>4. ASSUME NEW r \in Requests, EndRound(r) PROVE Whole'
  <2>1. CASE End(r, "done")
    BY <1>4, <1>ended, <2>1, EndWhole DEF EndRound
  <2>2. CASE ~End(r, "done")
    <3>1. /\ pc[r] = "tools" /\ \A s \in Requests \ {r} : Same(s)
          /\ UNCHANGED <<log, overlapped, cv, after, writes, messages, todo, shown>>
      BY <1>4, <2>2 DEF EndRound, Typed, Own, Same, Alone
    <3>2. Replying(r) /\ pc[r] \in Live /\ Held(r)' = Held(r)
      BY <3>1 DEF Replying, Live, Held
    <3>3. QED BY <1>own, <3>1, <3>2, StillWhole
  <2>3. QED BY <2>1, <2>2
<1>5. ASSUME UNCHANGED <<log, pc, cv, after, writes, messages, round, todo, shown, overlapped>> PROVE Whole'
  <2>1. \A s \in Requests : Same(s)
    BY <1>5 DEF Same, Alone
  <2>2. \A s \in Requests : Duties(s)' /\ InTurn(s)'
    BY <1>5, <2>1, SameWhole
  <2>3. Sole' /\ \A c \in Requests : Settled(c)'
    BY <1>5 DEF Whole, Sole, Settled
  <2>4. QED BY <2>2, <2>3 DEF Whole
<1>6. ASSUME NEW i \in Instances, NewChat(i) PROVE Whole'
  BY <1>5, <1>6 DEF NewChat
<1>7. ASSUME NEW c \in Requests, CloseOrDelete(c) PROVE Whole'
  BY <1>5, <1>7 DEF CloseOrDelete
<1>8. CASE UNCHANGED vars
  BY <1>5, <1>8 DEF vars
<1>9. ASSUME NEW r \in Requests, ServerStep(r) PROVE Whole'
  BY <1>1, <1>2, <1>3, <1>4, <1>9, CommitWhole, GeneratorWhole, OpenWhole DEF ServerStep
<1>10. QED BY <1>1, <1>6, <1>7, <1>8, <1>9, AskWhole DEF Next, Finished

LEMMA WholeInit == Init => Whole
<1> SUFFICES ASSUME Init PROVE Whole
  OBVIOUS
<1>1. \A r \in Requests : pc[r] \notin Live
  BY DEF Init, Live, InHandler
<1>2. \A r \in Requests : Duties(r)
  <2>1. \A r \in Requests : Answers(r) = {} /\ Held(r) = {} /\ Pending(r) = {} /\ Elements(todo[r]) = {}
    BY DEF Init, Answers, Held, Pending, Elements
  <2>2. QED BY <2>1 DEF Init, Duties, Distinct
<1>3. \A c \in Requests : Settled(c)
  BY DEF Init, Settled, Answered
<1>4. QED BY <1>1, <1>2, <1>3 DEF Whole, Sole, InTurn

-----------------------------------------------------------------------------
(* Results follow their call.                                              *)

\* Nothing but results came since k was asked for; a result is in the block behind its call.
Recently(s, k) == \A a, m \in DOMAIN s : k \in Elements(s[a].calls) /\ m > a => s[m].kind \in ResultKinds
Blocked(s) == \A a, b, m \in DOMAIN s :
  s[b].of \in Elements(s[a].calls) /\ a < m /\ m <= b => s[m].kind \in ResultKinds

\* What a request owes was asked for last, and only a full window leaves out messages of the log.
Timely(r) == pc[r] \in Live /\ cv[r] \notin overlapped =>
  /\ \A k \in Owed(r) : Recently(log[cv[r]], k)
  /\ Replying(r) => Len(messages[r]) >= Window \/ Len(messages[r]) = Len(log[cv[r]])
Blocks ==
  /\ \A c \in Requests : c \notin overlapped => Blocked(log[c])
  /\ \A r \in Requests : Timely(r)

LEMMA SameTimely ==
  ASSUME Blocks, NEW s \in Requests, Same(s), overlapped \subseteq overlapped',
         pc[s] \in Live /\ cv[s] \notin overlapped' => log'[cv[s]] = log[cv[s]]
  PROVE  Timely(s)'
<1>1. /\ pc'[s] = pc[s] /\ cv'[s] = cv[s] /\ writes'[s] = writes[s] /\ messages'[s] = messages[s]
      /\ todo'[s] = todo[s] /\ shown'[s] = shown[s] /\ after'[s] = after[s]
  BY DEF Same, Alone
<1>2. Owed(s)' = Owed(s) /\ (Replying(s)' => Replying(s))
  BY <1>1 DEF Answers, Held, Pending, Owed, Replying
<1>3. Timely(s)
  BY DEF Blocks
<1>4. QED BY <1>1, <1>2, <1>3 DEF Timely

\* A step of one request that stores nothing.
LEMMA QuietBlocks ==
  ASSUME Blocks, NEW r \in Requests, log' = log, overlapped' = overlapped,
         \A s \in Requests \ {r} : Same(s), Timely(r)'
  PROVE  Blocks'
<1>1. \A c \in Requests : c \notin overlapped' => Blocked(log'[c])
  BY DEF Blocks
<1>2. ASSUME NEW s \in Requests PROVE Timely(s)'
  BY SameTimely
<1>3. QED BY <1>1, <1>2 DEF Blocks

LEMMA EndBlocks ==
  ASSUME Typed, Blocks, NEW r \in Requests, NEW how \in Ended, End(r, how), log' = log,
         overlapped' = overlapped
  PROVE  Blocks'
<1>1. pc'[r] \notin Live /\ \A s \in Requests \ {r} : Same(s)
  BY EndState
<1>2. Timely(r)'
  BY <1>1 DEF Timely
<1>3. QED BY <1>1, <1>2, QuietBlocks

\* The request goes on, and takes nothing on.
LEMMA StillBlocks ==
  ASSUME Blocks, NEW r \in Requests, log' = log, overlapped' = overlapped, \A s \in Requests \ {r} : Same(s),
         pc[r] \in Live, cv'[r] = cv[r], messages'[r] = messages[r],
         Owed(r)' \subseteq Owed(r), Replying(r)' => Replying(r)
  PROVE  Blocks'
<1>1. Timely(r)
  BY DEF Blocks
<1>2. Timely(r)'
  BY <1>1 DEF Timely
<1>3. QED BY <1>2, QuietBlocks

LEMMA GeneratorBlocks ==
  ASSUME Typed, Names, Whole, Blocks, NEW r \in Requests, ModelAnswers(r) \/ ModelCalls(r) \/ RunTool(r)
  PROVE  Blocks'
<1> USE DEF tables, streamVars, requestVars, clientVars
<1>1. /\ log' = log /\ overlapped' = overlapped /\ cv' = cv /\ messages' = messages /\ shown' = shown
      /\ pc[r] \in {"streaming", "tools"}
      /\ \A s \in Requests \ {r} : Same(s)
  <2>1. PICK ms, next : Insert(r, ms, next)
    BY DEF ModelAnswers, ModelCalls, RunTool
  <2>2. \A s \in Requests \ {r} : pc'[s] = pc[s] /\ after'[s] = after[s] /\ writes'[s] = writes[s]
    BY <2>1 DEF Insert, Typed, Own
  <2>3. /\ log' = log /\ overlapped' = overlapped /\ cv' = cv /\ messages' = messages /\ shown' = shown
        /\ round' = round /\ pc[r] \in {"streaming", "tools"}
    BY DEF ModelAnswers, ModelCalls, RunTool
  <2>4. \A s \in Requests \ {r} : todo'[s] = todo[s]
    BY DEF ModelAnswers, ModelCalls, RunTool, Typed, Own
  <2>5. QED BY <2>2, <2>3, <2>4 DEF Same, Alone
<1>2. writes[r] = <<>> /\ pc[r] \in Live /\ Replying(r)
  BY <1>1 DEF Names, Writing, Live, Replying
<1>3. Owed(r) = Held(r)
  BY <1>2 DEF Owed, Answers, Pending
<1>4. CASE ModelAnswers(r)
  <2>1. writes'[r] = <<AssistantText>> /\ todo'[r] = todo[r] /\ pc[r] = "streaming"
    BY <1>4 DEF ModelAnswers, Insert, Typed, Own
  <2>2. Held(r)' = Held(r) /\ AssistantText.of = NoCall
    BY <1>1, <2>1 DEF Held, AssistantText
  <2>3. Held(r) = {}
    BY <2>1 DEF Names
  <2>4. Answers(r)' = {}
    BY <2>1, <2>2 DEF Answers
  <2>5. Owed(r)' = {}
    BY <2>2, <2>3, <2>4 DEF Owed
  <2>6. QED BY <1>1, <1>2, <2>5, StillBlocks
<1>5. CASE ModelCalls(r)
  <2>1. PICK shape \in Shapes : Insert(r, <<Asking(Named(r, shape))>>, "tools")
                                /\ todo' = [todo EXCEPT ![r] = Named(r, shape)]
    BY <1>5 DEF ModelCalls, Named
  <2> DEFINE ks == Named(r, shape)
  <2>2. pc[r] = "streaming"
    BY <1>5 DEF ModelCalls
  <2>3. ks \in Seq(Call)
    <3>1. round[r] # 0
      BY <1>2 DEF Typed, Own
    <3>2. QED BY <3>1, NamedTyped
  <2> HIDE DEF ks
  <2>4. writes'[r] = <<Asking(ks)>> /\ todo'[r] = ks
    BY <2>1 DEF Insert, Typed, Own, ks
  <2>5. Asking(ks).of = NoCall /\ Asking(ks).calls = ks
    BY DEF Asking
  <2>6. Held(r) = {}
    BY <2>2 DEF Names
  <2>7. shown[r] = NoCall
    BY <2>6 DEF Held
  <2>8. Elements(ks) \subseteq Call
    BY <2>3 DEF Elements
  <2>9. Held(r)' = Elements(ks) /\ Pending(r)' = Elements(ks) /\ Answers(r)' = {}
    BY <1>1, <2>4, <2>5, <2>7, <2>8 DEF Held, Pending, Answers
  <2>10. Owed(r)' = {}
    BY <2>9 DEF Owed
  <2>11. QED BY <1>1, <1>2, <2>10, StillBlocks
<1>6. CASE RunTool(r)
  <2>1. /\ todo[r] # <<>> /\ writes'[r] = <<ResultOf(Head(todo[r]), "result")>>
        /\ todo'[r] = Tail(todo[r]) /\ todo[r] \in Seq(Call)
    BY <1>6 DEF RunTool, Insert, Typed, Own
  <2> DEFINE k == Head(todo[r])
  <2>2. Elements(todo[r]) = Elements(todo'[r]) \cup {k}
    BY <2>1, TailFacts
  <2>3. ResultOf(k, "result").of = k
    BY DEF ResultOf
  <2> HIDE DEF k
  <2>4. Held(r) = Elements(todo[r]) \cup ({shown[r]} \ {NoCall})
        /\ Held(r)' = Elements(todo'[r]) \cup ({shown[r]} \ {NoCall})
    BY <1>1 DEF Held
  <2>5. writes'[r] = <<ResultOf(k, "result")>>
    BY <2>1 DEF k
  <2>6. Answers(r)' \subseteq {k}
    BY <2>3, <2>5 DEF Answers
  <2>7. Owed(r)' \subseteq Held(r)
    BY <2>2, <2>4, <2>6 DEF Owed
  <2>8. QED BY <1>1, <1>2, <1>3, <2>7, StillBlocks
<1>7. QED BY <1>4, <1>5, <1>6

LEMMA OpenBlocks ==
  ASSUME Typed, Names, Blocks, NEW r \in Requests, Open(r)
  PROVE  Blocks'
<1>1. /\ pc[r] = "open" /\ messages'[r] = Recent(log[cv[r]])
      /\ UNCHANGED <<log, cv, overlapped, writes, todo, shown>>
      /\ \A s \in Requests \ {r} : Same(s)
  BY DEF Open, Typed, Own, Same, Alone, requestVars, tables
<1>2. Held(r) = {} /\ writes[r] = <<>>
  BY <1>1 DEF Names, Writing, Replying
<1>3. Owed(r)' = {}
  BY <1>1, <1>2 DEF Owed, Answers, Held
<1> DEFINE s == log[cv[r]]
<1>4. s \in Seq(Message) /\ Len(s) \in Nat /\ Window \in Nat \ {0}
  BY BoundsAssumption DEF Typed, Own, Common
<1>5. Len(Recent(s)) + Start(s) = Len(s) + 1 /\ Len(Recent(s)) \in Nat
  BY <1>4, StartFacts DEF Shows
<1>6. Len(Recent(s)) >= Window \/ Len(Recent(s)) = Len(s)
  <2> DEFINE l == Len(s)
             m == Len(Recent(s))
             n == Start(s)
  <2>1. l \in Nat /\ m \in Nat /\ Window \in Nat /\ m + n = l + 1
    BY <1>4, <1>5
  <2>2. n = l - Window + 1 \/ n = 1
    BY DEF Start
  <2> HIDE DEF l, m, n, s
  <2>3. m >= Window \/ m = l
    BY <2>1, <2>2
  <2>4. QED BY <2>3 DEF l, m
<1>7. log'[cv'[r]] = s
  BY <1>1
<1>8. Timely(r)'
  BY <1>1, <1>3, <1>6, <1>7 DEF Timely
<1>9. QED BY <1>1, <1>8, QuietBlocks

\* What the next request finds open was asked for last.
LEMMA FoundRecently ==
  ASSUME Typed, Dialogue, NEW c \in Requests, Answered(log[c], Start(log[c]), Call),
         NEW k \in Elements(Unanswered(Recent(log[c])))
  PROVE  Recently(log[c], k)
<1> DEFINE s == log[c]
           recent == Recent(s)
           n == Start(s)
<1>1. s \in Seq(Message) /\ Len(s) \in Nat /\ DOMAIN s = 1..Len(s)
      /\ \A i, j \in DOMAIN s : \A q \in Elements(s[i].calls) : q \in Elements(s[j].calls) => i = j
  <2>1. s \in Seq(Message)
    BY DEF Typed, Common
  <2>2. Once(c)
    BY DEF Dialogue, LogFormed
  <2>3. Len(s) \in Nat /\ DOMAIN s = 1..Len(s)
    BY <2>1
  <2>4. QED BY <2>1, <2>2, <2>3 DEF Once
<1>2. n \in Nat \ {0} /\ recent \in Seq(Message) /\ Shows(recent, s, n)
  BY <1>1, StartFacts
<1>3. Answered(s, n, Call)
  OBVIOUS
<1>4. k \in Elements(Unanswered(recent))
  OBVIOUS
<1> HIDE DEF s, recent, n
<1>5. /\ Len(recent) + n = Len(s) + 1 /\ Len(recent) \in Nat /\ DOMAIN recent = 1..Len(recent)
      /\ \A j \in DOMAIN recent : n + j - 1 \in DOMAIN s /\ recent[j] = s[n + j - 1]
  BY <1>2 DEF Shows
<1>6. PICK last \in DOMAIN recent :
        Elements(Unanswered(recent)) =
           Elements(recent[last].calls) \ {recent[j].of : j \in {j \in DOMAIN recent : j > last}}
  <2>1. Elements(<<>>) = {}
    BY DEF Elements
  <2>2. QED BY <1>2, <1>4, <2>1, UnansweredFacts
<1> DEFINE p == n + last - 1
<1>7. p \in DOMAIN s /\ recent[last] = s[p] /\ p \in Nat /\ p >= n /\ last \in Nat
  BY <1>1, <1>2, <1>5
<1>8. k \in Elements(s[p].calls) /\ \A j \in DOMAIN recent : j > last => recent[j].of # k
  BY <1>4, <1>6, <1>7
<1>9. ~Done(s, p, k)
  <2> SUFFICES ASSUME NEW b \in DOMAIN s, b > p, s[b].of = k PROVE FALSE
    BY DEF Done
  <2> DEFINE j == b - n + 1
  <2>1. j \in 1..Len(recent) /\ j > last /\ n + j - 1 = b
    BY <1>1, <1>2, <1>5, <1>7
  <2>2. recent[j] = s[b] /\ j \in DOMAIN recent
    BY <1>5, <2>1
  <2>3. QED BY <1>8, <2>1, <2>2
<1> HIDE DEF p
<1>10. Waits(s, p, k)
  BY <1>3, <1>7, <1>8, <1>9 DEF Answered
<1>11. ASSUME NEW a \in DOMAIN s, NEW m \in DOMAIN s, k \in Elements(s[a].calls), m > a
       PROVE  s[m].kind \in ResultKinds
  <2>1. a = p
    BY <1>1, <1>7, <1>8, <1>11
  <2>2. QED BY <1>10, <1>11, <2>1 DEF Waits
<1>12. QED BY <1>11 DEF Recently, s

LEMMA AskBlocks ==
  ASSUME Typed, Names, Dialogue, Whole, Blocks, NEW r \in Requests, Ask(r)
  PROVE  Blocks'
<1>1. PICK c \in Lookup(r), k \in {NoCall} \cup delivered :
        /\ k = NoCall \/ k \in Elements(Unanswered(Recent(log[c])))
        /\ cv' = [cv EXCEPT ![r] = c]
        /\ Insert(r, Replies(Unanswered(Recent(log[c])), k), "open")
        /\ overlapped \subseteq overlapped'
  BY DEF Ask
<1> DEFINE open == Unanswered(Recent(log[c]))
           ms == Replies(open, k)
<1>2. c \in Requests /\ k \in Call \cup {NoCall}
  BY DEF Lookup, Typed, Common
<1>3. open \in Seq(Call) /\ Distinct(open)
  BY <1>2, OpenFacts
<1>4. /\ writes'[r] = ms /\ cv'[r] = c /\ after'[r] = "open" /\ pc[r] = "new" /\ pc'[r] = "flush"
      /\ log' = log /\ todo' = todo /\ shown' = shown
      /\ \A s \in Requests \ {r} : Same(s)
  BY <1>1 DEF Ask, Insert, Typed, Own, tables, streamVars, Same, Alone
<1>5. k = NoCall \/ k \in Elements(open)
  BY <1>1
<1>6. ASSUME c \notin overlapped, NEW q \in Elements(open) PROVE Recently(log[c], q)
  <2>1. Answered(log[c], Start(log[c]), Call)
    BY <1>2, <1>6 DEF Whole, Settled
  <2>2. QED BY <1>2, <1>6, <2>1, FoundRecently
<1> HIDE DEF open
<1>7. \A i \in DOMAIN ms : ms[i].of # NoCall => ms[i].of \in Elements(open)
  BY <1>2, <1>3, <1>5, ReplyFormed
<1> HIDE DEF ms
<1>8. Held(r)' = {}
  <2>1. Held(r) = {}
    BY <1>4 DEF Names, Replying
  <2>2. QED BY <1>4, <2>1 DEF Held
<1>9. Owed(r)' \subseteq Elements(open)
  BY <1>4, <1>7, <1>8 DEF Owed, Answers
<1>10. Timely(r)'
  <2>1. ~Replying(r)'
    BY <1>4 DEF Replying
  <2>2. log'[cv'[r]] = log[c]
    BY <1>4
  <2>3. QED BY <1>1, <1>4, <1>6, <1>9, <2>1, <2>2 DEF Timely
<1>11. \A s \in Requests : Timely(s)'
  BY <1>1, <1>4, <1>10, SameTimely
<1>12. \A d \in Requests : d \notin overlapped' => Blocked(log'[d])
  BY <1>1, <1>4 DEF Blocks
<1>13. QED BY <1>11, <1>12 DEF Blocks

\* Results of what was asked for last are added, or one message that asks.
LEMMA BlockedMore ==
  ASSUME NEW s \in Seq(Message), NEW w \in Seq(Message), Blocked(s),
         \A i \in DOMAIN w : w[i].of # NoCall =>
            Recently(s, w[i].of) /\ \A j \in DOMAIN w : j <= i => w[j].kind \in ResultKinds,
         \A i \in DOMAIN w : w[i].calls = <<>> \/ Len(w) = 1
  PROVE  Blocked(s \o w)
<1> DEFINE t == s \o w
           L == Len(s)
<1>1. /\ L \in Nat /\ DOMAIN s = 1..L /\ DOMAIN w = 1..Len(w) /\ DOMAIN t = 1..(L + Len(w))
      /\ Len(w) \in Nat
      /\ \A i \in DOMAIN s : t[i] = s[i]
      /\ \A i \in DOMAIN t : i \in DOMAIN s \/ (i > L /\ i - L \in DOMAIN w /\ t[i] = w[i - L])
  BY ConcatParts
<1> HIDE DEF t, L
<1>2. ASSUME NEW a \in DOMAIN t, NEW b \in DOMAIN t, NEW m \in DOMAIN t,
             t[b].of \in Elements(t[a].calls), a < m, m <= b
      PROVE  t[m].kind \in ResultKinds
  <2>1. a \in Nat /\ b \in Nat /\ m \in Nat
    BY <1>1
  <2>2. CASE b \in DOMAIN s
    <3>1. a \in DOMAIN s /\ m \in DOMAIN s
      BY <1>1, <1>2, <2>1, <2>2
    <3>2. QED BY <1>1, <1>2, <2>2, <3>1 DEF Blocked
  <2>3. CASE b \notin DOMAIN s /\ a \in DOMAIN s
    <3> DEFINE i == b - L
    <3>1. i \in DOMAIN w /\ t[b] = w[i]
      BY <1>1, <2>3
    <3>2. s[a].calls \in Seq(Call) /\ t[a] = s[a]
      <4>1. s[a] \in Message
        BY <2>3
      <4>2. QED BY <1>1, <2>3, <4>1 DEF Message
    <3>3. w[i].of # NoCall /\ w[i].of \in Elements(s[a].calls)
      BY <1>2, <3>1, <3>2, NoCallAssumption DEF Elements
    <3>4. CASE m \in DOMAIN s
      <4>1. Recently(s, w[i].of)
        BY <3>1, <3>3
      <4>2. s[m].kind \in ResultKinds
        BY <1>2, <2>3, <3>3, <3>4, <4>1 DEF Recently
      <4>3. QED BY <1>1, <3>4, <4>2
    <3>5. CASE m \notin DOMAIN s
      <4>1. m - L \in DOMAIN w /\ t[m] = w[m - L]
        BY <1>1, <3>5
      <4>2. m - L <= i
        BY <1>1, <1>2, <2>1
      <4>3. QED BY <3>1, <3>3, <4>1, <4>2
    <3>6. QED BY <3>4, <3>5
  <2>4. CASE b \notin DOMAIN s /\ a \notin DOMAIN s
    <3>1. a - L \in DOMAIN w /\ b - L \in DOMAIN w /\ t[a] = w[a - L]
      BY <1>1, <2>4
    <3>2. a # b
      BY <1>2, <2>1
    <3>3. Len(w) # 1
      BY <1>1, <2>1, <3>1, <3>2
    <3>4. w[a - L].calls = <<>>
      BY <3>1, <3>3
    <3>5. QED BY <1>2, <3>1, <3>4 DEF Elements
  <2>5. QED BY <2>2, <2>3, <2>4
<1>3. QED BY <1>2 DEF Blocked, t

LEMMA RecentlyMore ==
  ASSUME NEW s \in Seq(Message), NEW w \in Seq(Message), NEW k,
         \/ Recently(s, k) /\ \A i \in DOMAIN w : w[i].kind \in ResultKinds
         \/ Len(w) = 1 /\ \A a \in DOMAIN s : k \notin Elements(s[a].calls)
  PROVE  Recently(s \o w, k)
<1> DEFINE t == s \o w
           L == Len(s)
<1>1. /\ L \in Nat /\ DOMAIN s = 1..L /\ DOMAIN w = 1..Len(w) /\ DOMAIN t = 1..(L + Len(w))
      /\ Len(w) \in Nat
      /\ \A i \in DOMAIN s : t[i] = s[i]
      /\ \A i \in DOMAIN t : i \in DOMAIN s \/ (i > L /\ i - L \in DOMAIN w /\ t[i] = w[i - L])
  BY ConcatParts
<1> HIDE DEF t, L
<1>2. ASSUME NEW a \in DOMAIN t, NEW m \in DOMAIN t, k \in Elements(t[a].calls), m > a
      PROVE  t[m].kind \in ResultKinds
  <2>1. a \in Nat /\ m \in Nat
    BY <1>1
  <2>2. CASE m \in DOMAIN s
    <3>1. a \in DOMAIN s
      BY <1>1, <1>2, <2>1, <2>2
    <3>2. t[a] = s[a] /\ t[m] = s[m]
      BY <1>1, <2>2, <3>1
    <3>3. Recently(s, k)
      BY <1>2, <3>1, <3>2
    <3>4. QED BY <1>2, <2>2, <3>1, <3>2, <3>3 DEF Recently
  <2>3. CASE m \notin DOMAIN s
    <3>1. m - L \in DOMAIN w /\ t[m] = w[m - L]
      BY <1>1, <2>3
    <3>2. CASE Len(w) = 1 /\ \A i \in DOMAIN s : k \notin Elements(s[i].calls)
      <4>1. a \notin DOMAIN s
        BY <1>1, <1>2, <3>2
      <4>2. a = m
        BY <1>1, <2>1, <2>3, <3>2, <4>1
      <4>3. QED BY <1>2, <2>1, <4>2
    <3>3. QED BY <3>1, <3>2
  <2>4. QED BY <2>2, <2>3
<1>3. QED BY <1>2 DEF Recently, t

LEMMA CommitBlocks ==
  ASSUME Typed, Names, Dialogue, Whole, Blocks, NEW r \in Requests, Commit(r)
  PROVE  Blocks'
<1> DEFINE c == cv[r]
           s == log[c]
           w == writes[r]
<1>1. /\ pc[r] = "commit" /\ pc[r] \in Live /\ c \in Requests /\ overlapped' = overlapped
      /\ s \in Seq(Message) /\ w \in Seq(Message) /\ messages[r] \in Seq(Message)
  BY DEF Commit, Live, InHandler, Typed, Own, Common
<1>2. log'[c] = s \o w /\ \A d \in Requests : d # c => log'[d] = log[d]
  BY CommitGrows
<1>3. /\ \A q \in Requests \ {r} : Same(q)
      /\ \/ pc'[r] \notin Live
         \/ /\ after[r] \in {"open", "tools"} /\ cv'[r] = c /\ writes'[r] = <<>> /\ pc'[r] = after[r]
            /\ messages'[r] = messages[r] \o w /\ todo'[r] = todo[r] /\ shown'[r] = shown[r]
            /\ after'[r] = after[r]
  <2>1. CASE after[r] = "done"
    <3>1. End(r, "done") /\ "done" \in Ended
      BY <2>1 DEF Commit, Ended
    <3>2. QED BY <3>1, EndState
  <2>2. CASE after[r] # "done"
    BY <2>2 DEF Commit, Typed, Own, Same, Alone
  <2>3. QED BY <2>1, <2>2
<1>4. /\ Duties(r) /\ Timely(r) /\ (c \notin overlapped => Blocked(s))
      /\ \A i \in DOMAIN w : Formed(w[i])
      /\ Pending(r) # {} => Len(w) = 1
  BY <1>1 DEF Whole, Blocks, Dialogue, WritesFormed
<1>5. /\ Pending(r) # {} => Held(r) = Pending(r)
      /\ Held(r) # {} /\ Pending(r) = {} => \A i \in DOMAIN w : w[i].kind \in ResultKinds
      /\ \A i \in DOMAIN w : i < Len(w) => w[i].kind \in ResultKinds
  BY <1>4 DEF Duties
<1>6. \A i \in DOMAIN w : w[i].of # NoCall => w[i].of \in Owed(r)
  BY DEF Owed, Answers
<1>7. \A i \in DOMAIN w : w[i].calls = <<>> \/ Len(w) = 1
  <2> SUFFICES ASSUME NEW i \in DOMAIN w, w[i].calls # <<>> PROVE Pending(r) # {}
    BY <1>4
  <2>1. w[i] \in Message
    BY <1>1
  <2>2. w[i].calls \in Seq(Call)
    BY <2>1 DEF Message
  <2>3. 1 \in DOMAIN w[i].calls /\ w[i].calls[1] \in Call
    BY <2>2
  <2>4. w[i].calls[1] \in Pending(r)
    BY <2>3 DEF Pending, Elements
  <2>5. QED BY <2>4
<1>8. \A k \in Pending(r) : \A a \in DOMAIN s : k \notin Elements(s[a].calls)
  <2>1. \A k \in Pending(r) : k \in Call /\ k \notin CallsOf(c)
    BY <1>1, PendingIsNew DEF Pending
  <2>2. QED BY <2>1 DEF CallsOf
<1>9. DOMAIN w = 1..Len(w) /\ Len(w) \in Nat
  BY <1>1
<1> HIDE DEF s, w, c
<1>10. ASSUME c \notin overlapped PROVE Blocked(s \o w)
  <2>1. \A k \in Owed(r) : Recently(s, k)
    BY <1>1, <1>4, <1>10 DEF Timely, s, c
  <2>2. ASSUME NEW i \in DOMAIN w, w[i].of # NoCall
        PROVE  Recently(s, w[i].of) /\ \A j \in DOMAIN w : j <= i => w[j].kind \in ResultKinds
    <3>1. w[i].kind \in ResultKinds
      BY <1>4, <2>2 DEF Formed
    <3>2. ASSUME NEW j \in DOMAIN w, j <= i PROVE w[j].kind \in ResultKinds
      <4>1. j = i \/ j < Len(w)
        BY <1>9, <3>2
      <4>2. QED BY <1>5, <3>1, <4>1
    <3>3. QED BY <1>6, <2>1, <2>2, <3>2
  <2>3. Blocked(s)
    BY <1>4, <1>10
  <2>4. QED BY <1>1, <1>7, <2>2, <2>3, BlockedMore
<1>11. ASSUME c \notin overlapped, NEW k \in Held(r) PROVE Recently(s \o w, k)
  <2>1. CASE Pending(r) # {}
    BY <1>1, <1>4, <1>5, <1>8, <1>11, <2>1, RecentlyMore
  <2>2. CASE Pending(r) = {}
    <3>1. k \in Owed(r)
      BY <1>11, <2>2 DEF Owed
    <3>2. Recently(s, k)
      BY <1>1, <1>4, <1>11, <3>1 DEF Timely, s, c
    <3>3. \A i \in DOMAIN w : w[i].kind \in ResultKinds
      BY <1>5, <1>11, <2>2
    <3>4. QED BY <1>1, <3>2, <3>3, RecentlyMore
  <2>3. QED BY <2>1, <2>2
<1>12. Timely(r)'
  <2> SUFFICES ASSUME pc'[r] \in Live, cv'[r] \notin overlapped'
               PROVE  /\ \A k \in Owed(r)' : Recently(log'[cv'[r]], k)
                      /\ Replying(r)' => Len(messages'[r]) >= Window \/ Len(messages'[r]) = Len(log'[cv'[r]])
    BY DEF Timely
  <2>1. /\ after[r] \in {"open", "tools"} /\ cv'[r] = c /\ writes'[r] = <<>> /\ pc'[r] = after[r]
        /\ messages'[r] = messages[r] \o w /\ todo'[r] = todo[r] /\ shown'[r] = shown[r]
        /\ after'[r] = after[r]
    BY <1>3
  <2>2. c \notin overlapped /\ log'[cv'[r]] = s \o w
    BY <1>1, <1>2, <2>1
  <2>3. Owed(r)' \subseteq Held(r)
    BY <2>1 DEF Owed, Answers, Held
  <2>4. ASSUME Replying(r)' PROVE Len(messages'[r]) >= Window \/ Len(messages'[r]) = Len(log'[cv'[r]])
    <3>1. Replying(r)
      BY <1>1, <2>1, <2>4 DEF Replying
    <3>2. Len(messages[r]) >= Window \/ Len(messages[r]) = Len(s)
      BY <1>1, <1>4, <2>2, <3>1 DEF Timely, s, c
    <3>3. Len(messages'[r]) = Len(messages[r]) + Len(w) /\ Len(log'[cv'[r]]) = Len(s) + Len(w)
          /\ Len(messages[r]) \in Nat /\ Len(s) \in Nat
      BY <1>1, <2>1, <2>2, ConcatParts
    <3>4. Window \in Nat
      BY BoundsAssumption
    <3>5. QED BY <1>9, <3>2, <3>3, <3>4
  <2>5. QED BY <1>11, <2>2, <2>3, <2>4
<1>13. ASSUME NEW q \in Requests PROVE Timely(q)'
  <2>1. CASE q = r
    BY <1>12, <2>1
  <2>2. CASE q # r
    <3>1. ASSUME pc[q] \in Live, cv[q] \notin overlapped' PROVE log'[cv[q]] = log[cv[q]]
      <4>1. cv[q] # c /\ cv[q] \in Requests
        BY <1>1, <2>2, <3>1 DEF Whole, Sole, c, Typed, Own
      <4>2. QED BY <1>2, <4>1
    <3>2. QED BY <1>1, <1>3, <2>2, <3>1, SameTimely
  <2>3. QED BY <2>1, <2>2
<1>14. ASSUME NEW d \in Requests, d \notin overlapped' PROVE Blocked(log'[d])
  <2>1. CASE d = c
    BY <1>1, <1>2, <1>10, <1>14, <2>1
  <2>2. CASE d # c
    BY <1>1, <1>2, <1>14, <2>2 DEF Blocks
  <2>3. QED BY <2>1, <2>2
<1>15. QED BY <1>13, <1>14 DEF Blocks

LEMMA BlocksStep == Typed /\ Names /\ Dialogue /\ Whole /\ Blocks /\ [Next]_vars => Blocks'
<1> SUFFICES ASSUME Typed, Names, Dialogue, Whole, Blocks, [Next]_vars PROVE Blocks'
  OBVIOUS
<1> USE DEF tables, streamVars, requestVars, clientVars
<1>ended. "done" \in Ended /\ "refused" \in Ended
  BY DEF Ended
<1>1. ASSUME NEW r \in Requests,
             Refuse(r) \/ Break(r) \/ FlushRejected(r) \/ OpenRejected(r) \/ ModelIsSilent(r) \/ StreamFails(r)
      PROVE  Blocks'
  <2>1. log' = log /\ overlapped' = overlapped /\ \E how \in Ended : End(r, how)
    BY <1>1, <1>ended DEF Refuse, Break, FlushRejected, OpenRejected, ModelIsSilent, StreamFails
  <2>2. QED BY <2>1, EndBlocks
<1>2. ASSUME NEW r \in Requests, Flush(r) PROVE Blocks'
  <2>1. /\ pc[r] = "flush" /\ pc'[r] = "commit" /\ \A s \in Requests \ {r} : Same(s)
        /\ UNCHANGED <<log, overlapped, cv, after, writes, messages, todo, shown>>
    BY <1>2 DEF Flush, Typed, Own, Same, Alone
  <2>2. (Replying(r)' => Replying(r)) /\ Owed(r)' = Owed(r) /\ pc[r] \in Live
    BY <2>1 DEF Replying, Owed, Answers, Held, Pending, Live, InHandler
  <2>3. QED BY <2>1, <2>2, StillBlocks
<1>3. ASSUME NEW r \in Requests, ShowCard(r) PROVE Blocks'
  <2>1. /\ pc[r] = "tools" /\ todo[r] # <<>> /\ todo[r] \in Seq(Call)
        /\ shown'[r] = Head(todo[r]) /\ todo'[r] = Tail(todo[r])
        /\ \A s \in Requests \ {r} : Same(s)
        /\ UNCHANGED <<log, overlapped, pc, cv, after, writes, messages>>
    BY <1>3 DEF ShowCard, Typed, Own, Same, Alone
  <2>2. Elements(todo[r]) = Elements(todo'[r]) \cup {Head(todo[r])}
    BY <2>1, TailFacts
  <2>3. Held(r)' \subseteq Held(r) /\ Answers(r)' = Answers(r) /\ Pending(r)' = Pending(r)
    BY <2>1, <2>2 DEF Held, Answers, Pending
  <2>4. Owed(r)' \subseteq Owed(r)
    BY <2>3 DEF Owed
  <2>5. (Replying(r)' => Replying(r)) /\ pc[r] \in Live
    BY <2>1 DEF Replying, Live
  <2>6. QED BY <2>1, <2>4, <2>5, StillBlocks
<1>4. ASSUME NEW r \in Requests, EndRound(r) PROVE Blocks'
  <2>1. CASE End(r, "done")
    BY <1>4, <1>ended, <2>1, EndBlocks DEF EndRound
  <2>2. CASE ~End(r, "done")
    <3>1. /\ pc[r] = "tools" /\ \A s \in Requests \ {r} : Same(s)
          /\ UNCHANGED <<log, overlapped, cv, after, writes, messages, todo, shown>>
      BY <1>4, <2>2 DEF EndRound, Typed, Own, Same, Alone
    <3>2. Replying(r) /\ pc[r] \in Live /\ Owed(r)' = Owed(r)
      BY <3>1 DEF Replying, Live, Owed, Answers, Held, Pending
    <3>3. QED BY <3>1, <3>2, StillBlocks
  <2>3. QED BY <2>1, <2>2
<1>5. ASSUME UNCHANGED <<log, pc, cv, after, writes, messages, round, todo, shown, overlapped>> PROVE Blocks'
  <2>1. \A s \in Requests : Same(s)
    BY <1>5 DEF Same, Alone
  <2>2. \A s \in Requests : Timely(s)'
    BY <1>5, <2>1, SameTimely
  <2>3. QED BY <1>5, <2>2 DEF Blocks
<1>6. ASSUME NEW i \in Instances, NewChat(i) PROVE Blocks'
  BY <1>5, <1>6 DEF NewChat
<1>7. ASSUME NEW c \in Requests, CloseOrDelete(c) PROVE Blocks'
  BY <1>5, <1>7 DEF CloseOrDelete
<1>8. CASE UNCHANGED vars
  BY <1>5, <1>8 DEF vars
<1>9. ASSUME NEW r \in Requests, ServerStep(r) PROVE Blocks'
  BY <1>1, <1>2, <1>3, <1>4, <1>9, CommitBlocks, GeneratorBlocks, OpenBlocks DEF ServerStep
<1>10. QED BY <1>1, <1>6, <1>7, <1>8, <1>9, AskBlocks DEF Next, Finished

LEMMA BlocksInit == Init => Blocks
<1> SUFFICES ASSUME Init PROVE Blocks
  OBVIOUS
<1>1. \A r \in Requests : pc[r] \notin Live
  BY DEF Init, Live, InHandler
<1>2. QED BY <1>1 DEF Init, Blocks, Blocked, Timely

\* A request that shows a log from n on, all of it or a full window, shows results whose call
\* came before, or that start the window.
LEMMA ShownResults ==
  ASSUME NEW c \in Requests, NEW s \in Seq(Message), s = log[c], NEW ms \in Seq(Message), NEW n \in Nat \ {0},
         Shows(ms, s, n), Blocked(s), Behind(c), Len(ms) >= Window \/ Len(ms) = Len(s),
         NEW j \in DOMAIN ms, ms[j].of # NoCall
  PROVE  \/ \E i \in 1..j-1 : ms[j].of \in Elements(ms[i].calls)
         \/ Len(ms) >= Window /\ \A m \in 1..j : ms[m].kind \in ResultKinds
<1>1. /\ Len(ms) + n = Len(s) + 1 /\ Len(ms) \in Nat /\ Len(s) \in Nat
      /\ DOMAIN ms = 1..Len(ms) /\ DOMAIN s = 1..Len(s)
      /\ \A i \in DOMAIN ms : n + i - 1 \in DOMAIN s /\ ms[i] = s[n + i - 1]
  BY DEF Shows
<1> DEFINE b == n + j - 1
<1>2. b \in DOMAIN s /\ ms[j] = s[b] /\ b \in Nat /\ j \in Nat /\ j >= 1
  BY <1>1
<1>3. PICK a \in DOMAIN s : a < b /\ s[b].of \in Elements(s[a].calls)
  BY <1>2 DEF Behind
<1>4. a \in Nat /\ a >= 1
  BY <1>1
<1>5. CASE a >= n
  <2> DEFINE i == a - n + 1
  <2>1. i \in 1..j-1 /\ n + i - 1 = a /\ i \in DOMAIN ms
    BY <1>1, <1>2, <1>3, <1>4, <1>5
  <2>2. ms[i] = s[a]
    BY <1>1, <2>1
  <2>3. QED BY <1>2, <1>3, <2>1, <2>2
<1>6. CASE ~(a >= n)
  <2>1. Len(ms) # Len(s)
    BY <1>1, <1>4, <1>6
  <2>2. ASSUME NEW m \in 1..j PROVE ms[m].kind \in ResultKinds
    <3>1. m \in DOMAIN ms /\ a < n + m - 1 /\ n + m - 1 <= b
      BY <1>1, <1>2, <1>4, <1>6
    <3>2. n + m - 1 \in DOMAIN s /\ ms[m] = s[n + m - 1]
      BY <1>1, <3>1
    <3>3. QED BY <1>2, <1>3, <3>1, <3>2 DEF Blocked
  <2>3. QED BY <2>1, <2>2
<1>7. QED BY <1>5, <1>6

\* What the model is sent is a well-formed dialogue in every conversation in which requests came
\* one at a time, on any number of instances, whatever was cut off, failed or was ignored before:
\* every call in it has one result, right behind the message that asks, and every result its call,
\* but for the results at the start of a full window (_get_recent_context_messages takes the last
\* CHAT_CONTEXT_WINDOW_SIZE messages wherever that cuts).
THEOREM DialoguesComplete == Spec => []ContextComplete
<1>1. ASSUME Typed, Names, Dialogue, Whole, Blocks PROVE ContextComplete
  <2> SUFFICES ASSUME NEW r \in Requests, pc[r] = "streaming", cv[r] \notin overlapped
               PROVE  WellAnswered(messages[r])
    BY DEF ContextComplete
  <2>1. Replying(r) /\ pc[r] \in Live /\ Held(r) = {} /\ writes[r] = <<>>
    BY <1>1 DEF Replying, Live, Names, Writing
  <2>2. Turn(r) /\ Timely(r)
    BY <1>1, <2>1 DEF Whole, InTurn, Blocks
  <2>3. Owed(r) = {}
    BY <2>1 DEF Owed, Answers
  <2>4. PICK n \in Nat \ {0} : Answered(log[cv[r]], n, {}) /\ Shows(messages[r], log[cv[r]], n)
    BY <2>1, <2>2, <2>3 DEF Turn
  <2>5. log[cv[r]] \in Seq(Message) /\ messages[r] \in Seq(Message) /\ cv[r] \in Requests
    BY <1>1 DEF Typed, Own, Common
  <2>6. /\ Blocked(log[cv[r]]) /\ Behind(cv[r])
        /\ Len(messages[r]) >= Window \/ Len(messages[r]) = Len(log[cv[r]])
    BY <1>1, <2>1, <2>2, <2>5 DEF Blocks, Timely, Dialogue, LogFormed
  <2>7. \A i \in DOMAIN messages[r] : \A k \in Elements(messages[r][i].calls) :
          \E j \in DOMAIN messages[r] :
            /\ messages[r][j].of = k
            /\ \A m \in i+1..j : messages[r][m].kind \in ResultKinds
            /\ \A m \in DOMAIN messages[r] : messages[r][m].of = k => m = j
    BY <2>4, <2>5, ShownAnswered
  <2>8. \A j \in DOMAIN messages[r] : messages[r][j].of # NoCall =>
          \/ \E i \in 1..j-1 : messages[r][j].of \in Elements(messages[r][i].calls)
          \/ Len(messages[r]) >= Window /\ \A m \in 1..j : messages[r][m].kind \in ResultKinds
    BY <2>4, <2>5, <2>6, ShownResults
  <2>9. QED BY <2>7, <2>8 DEF WellAnswered
<1>2. QED
  BY <1>1, TypedInit, TypedStep, NamesInit, NamesStep, DialogueInit, DialogueStep, WholeInit, WholeStep,
     BlocksInit, BlocksStep, PTL DEF Spec

=============================================================================
