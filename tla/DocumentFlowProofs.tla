------------------------- MODULE DocumentFlowProofs -------------------------
(***************************************************************************)
(* Proofs about the documents in one open wallet, for any documents, any   *)
(* number of visits, uploads, verifications and deletions, and any faults. *)
(***************************************************************************)
EXTENDS DocumentFlow, SequenceFacts, FiniteSetTheorems

-----------------------------------------------------------------------------
(* The invariant behind TypeOK.                                            *)

Lists == [Docs -> Statuses]
Drops ==
  [origin : {"hub", "wizard"}, status : {"IDLE", "UPLOADING", "PROCESSING", "SUCCESS", "ERROR"},
   file : BOOLEAN, request : {"none", "application", "file"} \cup Docs, doc : Docs \cup {NoDoc},
   timers : SUBSET {"processing", "success"}]
Reviews ==
  [doc : Docs \cup {NoDoc}, origin : {"hub", "wizard"}, data : {"none", "loading", "empty", "ocr", "user"},
   editing : BOOLEAN, submitting : BOOLEAN]
Calls ==
  [by : {"hook", "dropzone", "review"}, docs : Seq(Docs) \ {<<>>},
   at : {"extract", "verify", "applied", "refused"},
   data : {"empty", "ocr", "user"}, meant : BOOLEAN, live : BOOLEAN]
Deletions ==
  [at : {"none", "sent", "gone", "refused"}, exit : {"stay", "documents", "overview"}]

\* The list, the server, the deletions; a deletion that is under way can be rolled back.
Outside ==
  /\ server \in [Docs -> Statuses \cup {"deleted"}] /\ text \in [Docs -> {"empty", "ocr", "user"}]
  /\ list \in Lists /\ fetch \in {NoFetch, Asked} \cup Lists
  /\ notes \subseteq Docs /\ toast \in Docs \cup {NoDoc} /\ blacklist \subseteq Docs
  /\ dels \in [Docs -> Deletions] /\ before \in [Docs -> {NoFetch} \cup Lists]
  /\ \A d \in Docs : dels[d].at # "none" => before[d] \in Lists

\* Timers, requests and files belong to the state of an upload screen that is open.
DropFits(d) ==
  /\ d.status = "UPLOADING" <=> d.request # "none"
  /\ d.status = "PROCESSING" <=> "processing" \in d.timers
  /\ "success" \in d.timers => d.status = "SUCCESS"
  /\ d.status \in {"PROCESSING", "SUCCESS"} => d.doc \in Docs

\* A review is of a document while it is open, and nothing otherwise.
ReviewFits ==
  IF view = "review" THEN review.doc \in Docs /\ review.data # "none" ELSE review = NoReview

Counted(c) == c.by # "dropzone" /\ c.live
Single(cs) ==
  \A i, j \in DOMAIN cs : Counted(cs[i]) /\ Counted(cs[j]) /\ cs[i].by = cs[j].by => i = j
Submitting(cs) == \E i \in DOMAIN cs : cs[i].by = "review" /\ cs[i].live

\* Every call is one that there was, stopped or answered or not, or one that has read nothing
\* yet, or the user's own.
Same(c, b) ==
  /\ c.by = b.by /\ c.docs = b.docs /\ c.data = b.data /\ c.meant = b.meant
  /\ c.at \in {"extract", "verify"} => b.at = c.at
Harmless(c) ==
  IF c.by = "review" THEN c.at # "extract" /\ (c.meant => c.data = "user") ELSE c.at # "verify"
Grown(new, old) ==
  \A i \in DOMAIN new : Harmless(new[i]) \/ \E j \in DOMAIN old : Same(new[i], old[j])

ScreensFit ==
  /\ view \in Views /\ strays \in Nat /\ drop \in Drops /\ review \in Reviews
  /\ calls \in Seq(Calls)
  /\ DropFits(drop) /\ (drop.status # "IDLE" \/ drop.file => view = "dropzone")
  /\ ReviewFits
  /\ Single(calls) /\ (review.submitting <=> Submitting(calls))

TypeInv == Outside /\ ScreensFit

-----------------------------------------------------------------------------
(* The calls.                                                              *)

LEMMA StopFacts ==
  ASSUME NEW cs \in Seq(Calls), NEW by
  PROVE  /\ Stop(cs, by) \in Seq(Calls) /\ DOMAIN Stop(cs, by) = DOMAIN cs
         /\ \A i \in DOMAIN cs : /\ Same(Stop(cs, by)[i], cs[i])
                                 /\ Stop(cs, by)[i].live <=> cs[i].live /\ cs[i].by # by
<1>1. \A i \in DOMAIN cs : cs[i] \in Calls
  OBVIOUS
<1>2. \A i \in DOMAIN cs :
        LET c == [cs[i] EXCEPT !.live = @ /\ cs[i].by # by]
        IN  c \in Calls /\ Same(c, cs[i]) /\ (c.live <=> cs[i].live /\ cs[i].by # by)
  BY <1>1 DEF Calls, Same
<1>3. DOMAIN cs = 1..Len(cs) /\ Len(cs) \in Nat
  OBVIOUS
<1>4. Stop(cs, by) \in [1..Len(cs) -> Calls]
  BY <1>2, <1>3 DEF Stop
<1>5. Stop(cs, by) \in Seq(Calls)
  BY <1>3, <1>4
<1>6. QED BY <1>2, <1>3, <1>5 DEF Stop

\* The documents of a set, one after the other.
LEMMA SetToSeqFacts ==
  ASSUME NEW S, S \subseteq Docs, S # {}
  PROVE  SetToSeq(S) \in Seq(Docs) \ {<<>>}
<1>1. IsFiniteSet(S)
  BY DocsAssumption, FS_Subset
<1> DEFINE n == Cardinality(S)
<1>2. n \in Nat /\ n # 0
  BY <1>1, FS_CardinalityType, FS_EmptySet
<1>3. \E f \in [1..n -> S] : IsInjective(f)
  <2>1. ExistsBijection(1..n, S)
    BY <1>1, FS_CardinalityType
  <2>2. QED BY <2>1 DEF ExistsBijection, Bijection, Injection, IsInjective
<1>4. SetToSeq(S) \in [1..n -> S]
  BY <1>3 DEF SetToSeq
<1>5. SetToSeq(S) \in [1..n -> Docs]
  BY <1>4
<1>6. SetToSeq(S) \in Seq(Docs) /\ Len(SetToSeq(S)) = n
  BY <1>2, <1>5
<1>7. QED BY <1>2, <1>6

LEMMA NewCall ==
  ASSUME NEW by \in {"hook", "dropzone", "review"}, NEW docs \in Seq(Docs) \ {<<>>},
         NEW at \in {"extract", "verify", "applied", "refused"},
         NEW data \in {"empty", "ocr", "user"}, NEW meant \in BOOLEAN
  PROVE  /\ Call(by, docs, at, data, meant) \in Calls
         /\ Call(by, docs, at, data, meant).by = by /\ Call(by, docs, at, data, meant).docs = docs
         /\ Call(by, docs, at, data, meant).at = at /\ Call(by, docs, at, data, meant).live
         /\ Call(by, docs, at, data, meant).data = data
         /\ Call(by, docs, at, data, meant).meant = meant
  BY DEF Call, Calls

LEMMA RunFacts ==
  ASSUME NEW l, NEW v
  PROVE  /\ RunAutoVerify(l, v) \in Seq(Calls) /\ Len(RunAutoVerify(l, v)) <= 1
         /\ \A i \in DOMAIN RunAutoVerify(l, v) :
              RunAutoVerify(l, v)[i].by = "hook" /\ RunAutoVerify(l, v)[i].at = "extract"
<1>1. CASE v \notin {"overview", "questionnaire"} \/ Pending(l, v) = {}
  <2>1. RunAutoVerify(l, v) = <<>>
    BY <1>1 DEF RunAutoVerify
  <2>2. QED BY <2>1
<1>2. CASE ~(v \notin {"overview", "questionnaire"} \/ Pending(l, v) = {})
  <2> DEFINE c == Call("hook", SetToSeq(Pending(l, v)), "extract", "ocr", FALSE)
  <2>1. RunAutoVerify(l, v) = <<c>>
    BY <1>2 DEF RunAutoVerify
  <2>2. SetToSeq(Pending(l, v)) \in Seq(Docs) \ {<<>>}
    BY <1>2, SetToSeqFacts DEF Pending
  <2>3. c \in Calls /\ c.by = "hook" /\ c.at = "extract"
    BY <2>2 DEF Call, Calls
  <2> HIDE DEF c
  <2>4. QED BY <2>1, <2>3
<1>3. QED BY <1>1, <1>2

\* The calls that go on, and those of an effect that runs anew.
LEMMA RunAnew ==
  ASSUME NEW cs \in Seq(Calls), \A i \in DOMAIN cs : ~(cs[i].by = "hook" /\ cs[i].live),
         Single(cs), NEW l, NEW v
  PROVE  /\ cs \o RunAutoVerify(l, v) \in Seq(Calls) /\ Single(cs \o RunAutoVerify(l, v))
         /\ Submitting(cs \o RunAutoVerify(l, v)) <=> Submitting(cs)
         /\ Grown(cs \o RunAutoVerify(l, v), cs)
<1> DEFINE r == RunAutoVerify(l, v)
           all == cs \o r
<1>1. /\ r \in Seq(Calls) /\ Len(r) \in {0, 1}
      /\ \A i \in DOMAIN r : r[i].by = "hook" /\ r[i].at = "extract"
  <2>1. r \in Seq(Calls) /\ Len(r) <= 1 /\ Len(r) \in Nat
    BY RunFacts
  <2>2. QED BY <2>1, RunFacts
<1> HIDE DEF r
<1>2. /\ all \in Seq(Calls) /\ Len(all) = Len(cs) + Len(r)
      /\ \A i \in 1..Len(cs) + Len(r) :
           all[i] = IF i <= Len(cs) THEN cs[i] ELSE r[i - Len(cs)]
  BY <1>1, ConcatProperties
<1>3. DOMAIN cs = 1..Len(cs) /\ DOMAIN all = 1..(Len(cs) + Len(r)) /\ Len(cs) \in Nat
  BY <1>1, <1>2
<1> HIDE DEF all
<1>4. /\ \A i \in DOMAIN cs : i \in DOMAIN all /\ all[i] = cs[i]
      /\ \A i \in DOMAIN all : i \in DOMAIN cs \/ (i = Len(cs) + 1 /\ 1 \in DOMAIN r /\ all[i] = r[1])
  <2>1. ASSUME NEW i \in DOMAIN cs PROVE i \in DOMAIN all /\ all[i] = cs[i]
    BY <1>1, <1>2, <1>3
  <2>2. ASSUME NEW i \in DOMAIN all, i \notin DOMAIN cs
        PROVE  i = Len(cs) + 1 /\ 1 \in DOMAIN r /\ all[i] = r[1]
    <3>1. Len(r) = 1 /\ i = Len(cs) + 1
      BY <1>1, <1>3, <2>2
    <3>2. i \in 1..(Len(cs) + Len(r)) /\ ~(i <= Len(cs)) /\ i - Len(cs) = 1
      BY <1>3, <3>1
    <3>3. 1 \in DOMAIN r
      BY <1>1, <3>1
    <3>4. QED BY <1>2, <3>1, <3>2, <3>3
  <2>3. QED BY <2>1, <2>2
<1>5. \A i \in DOMAIN all : i \notin DOMAIN cs => all[i].by = "hook" /\ all[i].at = "extract"
  BY <1>1, <1>4
<1>6. Single(all)
  BY <1>4, <1>5 DEF Single, Counted
<1>7. Submitting(all) <=> Submitting(cs)
  BY <1>4, <1>5 DEF Submitting
<1>8. Grown(all, cs)
  BY <1>4, <1>5 DEF Grown, Same, Harmless
<1>9. QED BY <1>2, <1>6, <1>7, <1>8 DEF all, r

-----------------------------------------------------------------------------
(* What the screens do.                                                    *)

LEMMA DropSeesFacts ==
  ASSUME NEW d \in Drops, DropFits(d), NEW l
  PROVE  /\ DropSees(d, l) \in Drops /\ DropFits(DropSees(d, l))
         /\ DropSees(d, l).status # "IDLE" \/ DropSees(d, l).file => d.status # "IDLE" \/ d.file
<1>1. CASE d.status = "PROCESSING" /\ l[d.doc] = "ready"
  BY <1>1 DEF DropSees, Drops, DropFits
<1>2. CASE d.status = "PROCESSING" /\ l[d.doc] = "failed"
  BY <1>2 DEF DropSees, Drops, DropFits
<1>3. CASE ~(d.status = "PROCESSING" /\ l[d.doc] \in {"ready", "failed"})
  <2>1. DropSees(d, l) = d
    BY <1>3 DEF DropSees
  <2>2. QED BY <2>1
<1>4. QED BY <1>1, <1>2, <1>3

\* A new list is shown: the effects run anew.
LEMMA ShowFacts ==
  ASSUME TypeInv, NEW l \in Lists, Show(l, calls)
  PROVE  /\ list' = l /\ drop' \in Drops /\ DropFits(drop')
         /\ drop'.status # "IDLE" \/ drop'.file => view = "dropzone"
         /\ calls' \in Seq(Calls) /\ Single(calls') /\ Grown(calls', calls)
         /\ review.submitting <=> Submitting(calls')
<1>1. list' = l /\ drop' \in Drops /\ DropFits(drop')
      /\ (drop'.status # "IDLE" \/ drop'.file => view = "dropzone")
  BY DropSeesFacts DEF TypeInv, Outside, ScreensFit, Show
<1>2. CASE l = list
  BY <1>1, <1>2 DEF Show, TypeInv, Outside, ScreensFit, Grown, Same
<1>3. CASE l # list
  <2> DEFINE cs == Stop(calls, "hook")
  <2>1. calls' = cs \o RunAutoVerify(l, view)
    BY <1>3 DEF Show
  <2>2. /\ cs \in Seq(Calls) /\ DOMAIN cs = DOMAIN calls
        /\ \A i \in DOMAIN calls : Same(cs[i], calls[i]) /\ (cs[i].live <=> calls[i].live /\ calls[i].by # "hook")
    BY StopFacts DEF TypeInv, Outside, ScreensFit
  <2> HIDE DEF cs
  <2>3. Single(cs) /\ \A i \in DOMAIN cs : ~(cs[i].by = "hook" /\ cs[i].live)
    BY <2>2 DEF TypeInv, ScreensFit, Single, Counted, Same
  <2>4. Submitting(cs) <=> Submitting(calls)
    BY <2>2 DEF Submitting, Same
  <2>5. calls' \in Seq(Calls) /\ Single(calls') /\ Grown(calls', cs) /\ (Submitting(calls') <=> Submitting(cs))
    BY <2>1, <2>2, <2>3, RunAnew
  <2>6. Grown(calls', calls)
    BY <2>2, <2>5 DEF Grown, Same, Harmless
  <2>7. QED BY <1>1, <2>4, <2>5, <2>6 DEF TypeInv, ScreensFit
<1>4. QED BY <1>2, <1>3

\* The user arrives at another screen: nothing of the screen that was left goes on.
LEMMA GoFacts ==
  ASSUME TypeInv, NEW v \in Views, NEW d, v = "review" => d \in Docs,
         NEW origin \in {"hub", "wizard"}, NEW cs \in Seq(Calls), Go(v, d, origin, cs)
  PROVE  /\ view' \in Views /\ strays' \in Nat /\ drop' \in Drops /\ DropFits(drop')
         /\ drop'.status = "IDLE" /\ ~drop'.file /\ review' \in Reviews /\ ReviewFits'
         /\ calls' \in Seq(Calls) /\ Single(calls') /\ Grown(calls', cs)
         /\ ~review'.submitting /\ ~Submitting(calls')
<1>1. drop' \in Drops /\ DropFits(drop') /\ drop'.status = "IDLE" /\ ~drop'.file
  BY DEF Go, EmptyDrop, Drops, DropFits
<1>2. view' \in Views /\ strays' \in Nat
  BY DEF Go, TypeInv, ScreensFit
<1>3. review' \in Reviews /\ ReviewFits' /\ ~review'.submitting
  <2>1. CASE v = "review"
    BY <2>1 DEF Go, ReviewOf, Reviews, ReviewFits
  <2>2. CASE v # "review"
    BY <2>2 DEF Go, ReviewOf, NoReview, Reviews, ReviewFits
  <2>3. QED BY <2>1, <2>2
<1>4. calls' \in Seq(Calls) /\ Single(calls') /\ Grown(calls', cs) /\ ~Submitting(calls')
  <2> DEFINE hushed == Stop(cs, "hook")
             silent == Stop(hushed, "review")
  <2>1. calls' = silent \o RunAutoVerify(list, v)
    BY DEF Go
  <2>2. /\ hushed \in Seq(Calls) /\ DOMAIN hushed = DOMAIN cs
        /\ \A i \in DOMAIN cs : Same(hushed[i], cs[i]) /\ (hushed[i].live <=> cs[i].live /\ cs[i].by # "hook")
    BY StopFacts
  <2>3. /\ silent \in Seq(Calls) /\ DOMAIN silent = DOMAIN hushed
        /\ \A i \in DOMAIN hushed :
             Same(silent[i], hushed[i]) /\ (silent[i].live <=> hushed[i].live /\ hushed[i].by # "review")
    BY <2>2, StopFacts
  <2> HIDE DEF hushed, silent
  <2>4. \A i \in DOMAIN silent : ~Counted(silent[i]) /\ Same(silent[i], cs[i])
    <3> SUFFICES ASSUME NEW i \in DOMAIN silent PROVE ~Counted(silent[i]) /\ Same(silent[i], cs[i])
      OBVIOUS
    <3>1. i \in DOMAIN cs /\ i \in DOMAIN hushed
      BY <2>2, <2>3
    <3>2. cs[i] \in Calls
      BY <3>1
    <3>3. cs[i].by \in {"hook", "dropzone", "review"}
      BY <3>2 DEF Calls
    <3>4. Same(silent[i], hushed[i]) /\ Same(hushed[i], cs[i])
      BY <2>2, <2>3, <3>1
    <3>5. QED BY <2>2, <2>3, <3>1, <3>3, <3>4 DEF Same, Counted
  <2>5. Single(silent) /\ ~Submitting(silent)
    BY <2>4 DEF Single, Submitting, Counted
  <2>6. calls' \in Seq(Calls) /\ Single(calls') /\ Grown(calls', silent) /\ ~Submitting(calls')
    <3>1. \A i \in DOMAIN silent : ~(silent[i].by = "hook" /\ silent[i].live)
      BY <2>4 DEF Counted
    <3>2. QED BY <2>1, <2>3, <2>5, <3>1, RunAnew
  <2>7. Grown(calls', cs)
    BY <2>2, <2>3, <2>4, <2>6 DEF Grown, Same, Harmless
  <2>8. QED BY <2>6, <2>7
<1>5. QED BY <1>1, <1>2, <1>3, <1>4

LEMMA ExitRouteFacts ==
  ASSUME NEW origin
  PROVE  ExitRoute(origin) \in {"documents", "overview"} /\ ExitRoute(origin) \in Views \ {"review"}
  BY DEF ExitRoute, Views

LEMMA GoKeeps ==
  ASSUME TypeInv, Outside', NEW v \in Views, NEW d, v = "review" => d \in Docs,
         NEW origin \in {"hub", "wizard"}, NEW cs \in Seq(Calls), Go(v, d, origin, cs)
  PROVE  TypeInv'
  BY GoFacts DEF TypeInv, ScreensFit

-----------------------------------------------------------------------------
(* The steps keep the invariant.                                           *)

LEMMA ListedTyped ==
  ASSUME TypeInv
  PROVE  Listed \in Lists /\ [d \in Docs |-> "none"] \in Lists
  BY DEF TypeInv, Outside, Listed, Lists, Statuses

\* Steps that leave the screens alone.
LEMMA QuietStep ==
  ASSUME TypeInv,
         \/ HideToast \/ Poll \/ Read \/ FetchFails
         \/ \E d \in Docs : Process(d) \/ Notify(d) \/ DeleteDocument(d)
  PROVE  TypeInv'
<1>1. UNCHANGED <<screens, calls>> => ScreensFit'
  BY DEF TypeInv, ScreensFit, ReviewFits, Single, Submitting, screens
<1>2. CASE Poll
  BY <1>1, <1>2 DEF Poll, Invalidate, TypeInv, Outside, socket, database, deletions
<1>3. CASE Read
  BY <1>1, <1>3, ListedTyped DEF Read, TypeInv, Outside, socket, database, deletions
<1>4. CASE FetchFails
  BY <1>1, <1>4 DEF FetchFails, TypeInv, Outside, socket, database, deletions
<1>5. ASSUME NEW d \in Docs, Process(d) PROVE TypeInv'
  <2>1. /\ server' \in [Docs -> Statuses \cup {"deleted"}]
        /\ text' \in [Docs -> {"empty", "ocr", "user"}]
    BY <1>5 DEF Process, TypeInv, Outside, Statuses
  <2>2. QED BY <1>1, <1>5, <2>1 DEF Process, TypeInv, Outside, cache, deletions
<1>6. ASSUME NEW d \in Docs, Notify(d) PROVE TypeInv'
  BY <1>1, <1>6 DEF Notify, Invalidate, TypeInv, Outside, socket, database, deletions
<1>7. ASSUME NEW d \in Docs, DeleteDocument(d) PROVE TypeInv'
  <2>1. dels' \in [Docs -> Deletions] /\ \A e \in Docs : dels'[e].at # "none" => dels[e].at # "none"
    <3>1. PICK at \in {"gone", "refused"} : dels' = [dels EXCEPT ![d].at = at]
      BY <1>7 DEF DeleteDocument
    <3>2. [dels[d] EXCEPT !.at = at] \in Deletions /\ dels \in [Docs -> Deletions]
      BY <3>1 DEF TypeInv, Outside, Deletions
    <3>3. dels[d].at = "sent"
      BY <1>7 DEF DeleteDocument
    <3>4. QED BY <3>1, <3>2, <3>3
  <2>2. server' \in [Docs -> Statuses \cup {"deleted"}]
    BY <1>7 DEF DeleteDocument, TypeInv, Outside
  <2>3. UNCHANGED <<text, cache, socket, screens, calls, before, blacklist>>
    BY <1>7 DEF DeleteDocument
  <2>4. \A e \in Docs : dels'[e].at # "none" => before'[e] \in Lists
    BY <2>1, <2>3 DEF TypeInv, Outside
  <2>5. Outside'
    BY <2>1, <2>2, <2>3, <2>4 DEF TypeInv, Outside, socket, cache
  <2>6. QED BY <1>1, <2>3, <2>5 DEF TypeInv
<1>8. CASE HideToast
  BY <1>1, <1>8 DEF HideToast, TypeInv, Outside, database, cache, deletions
<1>9. QED BY <1>2, <1>3, <1>4, <1>5, <1>6, <1>7, <1>8

\* An upload that was aborted on its way.
LEMMA StrayStep ==
  ASSUME TypeInv, StraySettles
  PROVE  TypeInv'
<1>1. strays' \in Nat /\ UNCHANGED <<view, drop, review, calls>>
  BY DEF StraySettles, TypeInv, ScreensFit
<1>2. ScreensFit'
  BY <1>1 DEF TypeInv, ScreensFit, ReviewFits, Single, Submitting
<1>3. server' \in [Docs -> Statuses \cup {"deleted"}] /\ UNCHANGED text
  BY DEF StraySettles, Store, Free, TypeInv, Outside, socket, database, Statuses
<1>4. Outside'
  BY <1>3 DEF StraySettles, TypeInv, Outside, socket, cache, deletions
<1>5. QED BY <1>2, <1>4 DEF TypeInv

\* Steps that put another list on the screen.
LEMMA ShowStep ==
  ASSUME TypeInv, Arrive \/ \E d \in Docs : Delete(d) \/ DeleteFails(d)
  PROVE  TypeInv'
<1>1. ASSUME NEW l \in Lists, Show(l, calls), UNCHANGED <<view, strays, review>>
      PROVE  ScreensFit' /\ list' \in Lists
  BY <1>1, ShowFacts DEF TypeInv, ScreensFit, ReviewFits
<1>2. CASE Arrive
  <2>1. fetch \in Lists
    BY <1>2 DEF Arrive, TypeInv, Outside
  <2>2. QED BY <1>1, <1>2, <2>1 DEF Arrive, TypeInv, Outside, socket, database, deletions
<1>3. ASSUME NEW d \in Docs, Delete(d) PROVE TypeInv'
  <2>1. [list EXCEPT ![d] = "none"] \in Lists
    BY DEF TypeInv, Outside, Lists, Statuses
  <2>2. PICK exit \in {"stay", "documents", "overview"} :
          dels' = [dels EXCEPT ![d] = [at |-> "sent", exit |-> exit]]
    BY <1>3, ExitRouteFacts DEF Delete
  <2>4. [at |-> "sent", exit |-> exit] \in Deletions
    BY DEF Deletions
  <2>5. /\ dels' \in [Docs -> Deletions] /\ before' \in [Docs -> {NoFetch} \cup Lists]
        /\ \A e \in Docs : dels'[e].at # "none" => before'[e] \in Lists
    BY <1>3, <2>2, <2>4 DEF Delete, TypeInv, Outside
  <2>3. QED BY <1>1, <1>3, <2>1, <2>5 DEF Delete, TypeInv, Outside, socket, database
<1>4. ASSUME NEW d \in Docs, DeleteFails(d) PROVE TypeInv'
  <2>1. before[d] \in Lists
    BY <1>4 DEF DeleteFails, TypeInv, Outside
  <2>2. /\ dels' \in [Docs -> Deletions] /\ before' \in [Docs -> {NoFetch} \cup Lists]
        /\ \A e \in Docs : dels'[e].at # "none" => before'[e] \in Lists
    BY <1>4 DEF DeleteFails, TypeInv, Outside, Deletions, Idle
  <2>3. QED BY <1>1, <1>4, <2>1, <2>2 DEF DeleteFails, TypeInv, Outside, socket, database
<1>5. QED BY <1>2, <1>3, <1>4

\* Steps that lead to another screen, but for those that an answered call takes.
LEMMA GoStep ==
  ASSUME TypeInv,
         \/ Leave \/ OpenDropzone \/ OpenReview \/ HandleToastClick \/ ProcessingTimeout
         \/ SuccessTimeout /\ drop.origin = "hub"
         \/ \E d \in Docs : DeleteOk(d)
  PROVE  TypeInv'
<1>0. calls \in Seq(Calls)
  BY DEF TypeInv, ScreensFit
<1>1. ASSUME NEW v \in Views, NEW d, v = "review" => d \in Docs,
             NEW origin \in {"hub", "wizard"}, Visit(v, d, origin), toast' \in {toast, NoDoc}
      PROVE  TypeInv'
  <2>1. Outside'
    BY <1>1 DEF Visit, Mount, TypeInv, Outside, socket, database, deletions
  <2>2. QED BY <1>0, <1>1, <2>1, GoKeeps DEF Visit
<1>2. CASE Leave
  <2>1. PICK v \in {"documents", "overview", "questionnaire"} : Visit(v, NoDoc, "hub")
    BY <1>2 DEF Leave
  <2>2. v \in Views /\ v # "review" /\ toast' = toast
    BY <1>2 DEF Views, Leave
  <2>3. QED BY <1>1, <2>1, <2>2
<1>3. CASE OpenDropzone
  <2>1. "dropzone" \in Views /\ toast' = toast
    BY <1>3 DEF Views, OpenDropzone
  <2>2. PICK o \in {"hub", "wizard"} : Visit("dropzone", NoDoc, o)
    BY <1>3 DEF OpenDropzone
  <2>3. QED BY <1>1, <2>1, <2>2
<1>4. CASE OpenReview
  <2>1. "review" \in Views /\ toast' = toast
    BY <1>4 DEF Views, OpenReview
  <2>2. PICK d \in Docs : Visit("review", d, "hub")
    BY <1>4 DEF OpenReview
  <2>3. QED BY <1>1, <2>1, <2>2
<1>9. CASE HandleToastClick
  <2>1. "review" \in Views /\ toast \in Docs /\ toast' = NoDoc
    BY <1>9 DEF Views, HandleToastClick, TypeInv, Outside
  <2>2. PICK o \in {"hub", "wizard"} : Visit("review", toast, o)
    BY <1>9 DEF HandleToastClick
  <2>3. QED BY <1>1, <2>1, <2>2
<1>5. CASE ProcessingTimeout
  <2>1. Outside'
    BY <1>5 DEF ProcessingTimeout, Mount, TypeInv, Outside, database, deletions
  <2>2. Go(ExitRoute(drop.origin), NoDoc, "hub", calls)
    BY <1>5 DEF ProcessingTimeout
  <2>3. QED BY <1>0, <2>1, <2>2, ExitRouteFacts, GoKeeps
<1>6. CASE SuccessTimeout /\ drop.origin = "hub"
  <2>1. Outside'
    BY <1>6 DEF SuccessTimeout, TypeInv, Outside, socket, database, cache, deletions
  <2>2. drop.doc \in Docs /\ Go("review", drop.doc, "hub", calls)
    BY <1>6 DEF SuccessTimeout, TypeInv, ScreensFit, DropFits
  <2>3. "review" \in Views
    BY DEF Views
  <2>4. QED BY <1>0, <2>1, <2>2, <2>3, GoKeeps
<1>7. ASSUME NEW d \in Docs, DeleteOk(d) PROVE TypeInv'
  <2>1. /\ dels' \in [Docs -> Deletions] /\ before' \in [Docs -> {NoFetch} \cup Lists]
        /\ \A e \in Docs : dels'[e].at # "none" => before'[e] \in Lists
        /\ dels[d].exit \in {"stay", "documents", "overview"}
    BY <1>7 DEF DeleteOk, Deleted, TypeInv, Outside, Deletions, Idle
  <2>2. Outside'
    BY <1>7, <2>1 DEF DeleteOk, Deleted, Invalidate, TypeInv, Outside, socket, database
  <2>3. CASE dels[d].exit # "stay"
    <3>1. Go(dels[d].exit, NoDoc, "hub", calls) /\ dels[d].exit \in Views \ {"review"}
      BY <1>7, <2>1, <2>3 DEF DeleteOk, Deleted, Views
    <3>2. QED BY <1>0, <2>2, <3>1, GoKeeps
  <2>4. CASE dels[d].exit = "stay"
    BY <1>7, <2>2, <2>4
       DEF DeleteOk, Deleted, TypeInv, ScreensFit, ReviewFits, Single, Submitting, screens
  <2>5. QED BY <2>3, <2>4
<1>8. QED BY <1>2, <1>3, <1>4, <1>5, <1>6, <1>7, <1>9

\* Steps of the upload screen that stay on it.
LEMMA DropKeeps ==
  ASSUME TypeInv, Outside', drop' \in Drops, DropFits(drop'), view = "dropzone",
         UNCHANGED <<view, strays, review, calls>>
  PROVE  TypeInv'
  BY DEF TypeInv, ScreensFit, ReviewFits, Single, Submitting

LEMMA DropStep ==
  ASSUME TypeInv, PickFile \/ RemoveFile \/ HandleUpload \/ ApplicationEnsured
  PROVE  TypeInv'
<1>1. drop \in Drops /\ DropFits(drop)
  BY DEF TypeInv, ScreensFit
<1>2. UNCHANGED <<database, cache, socket, deletions, blacklist>> => Outside'
  BY DEF TypeInv, Outside, socket, database, cache, deletions
<1>3. UNCHANGED <<cache, socket, view, review, calls, blacklist>> /\ UNCHANGED <<database, strays>>
      /\ UNCHANGED deletions /\ view = "dropzone"
  BY DEF PickFile, RemoveFile, HandleUpload, ApplicationEnsured, OnlyDrop, Dropzone
<1>4. drop' \in Drops /\ DropFits(drop')
  <2>1. CASE PickFile
    BY <1>1, <2>1 DEF PickFile, Dropzone, Drops, DropFits
  <2>2. CASE RemoveFile
    BY <1>1, <2>2 DEF RemoveFile, Dropzone, Drops, DropFits
  <2>3. CASE HandleUpload
    BY <1>1, <2>3 DEF HandleUpload, Dropzone, Drops, DropFits
  <2>4. CASE ApplicationEnsured
    BY <1>1, <2>4 DEF ApplicationEnsured, UploadError, Dropzone, Drops, DropFits
  <2>5. QED BY <2>1, <2>2, <2>3, <2>4
<1>5. QED BY <1>2, <1>3, <1>4, DropKeeps

LEMMA UploadStepKeeps ==
  ASSUME TypeInv, StoreUpload \/ UploadFails \/ UploadAnswered
  PROVE  TypeInv'
<1>1. drop \in Drops /\ DropFits(drop)
  BY DEF TypeInv, ScreensFit
<1>2. CASE StoreUpload
  <2>1. PICK d \in Docs : Store(d) /\ Dropzone([drop EXCEPT !.request = d])
    BY <1>2 DEF StoreUpload, Free
  <2>2. Outside'
    BY <1>2, <2>1 DEF StoreUpload, OnlyDrop, Store, TypeInv, Outside, socket, cache, deletions, Statuses
  <2>3. drop' \in Drops /\ DropFits(drop') /\ view = "dropzone"
    BY <1>1, <1>2, <2>1, DocsAssumption DEF StoreUpload, Dropzone, Drops, DropFits
  <2>4. QED BY <1>2, <2>2, <2>3, DropKeeps DEF StoreUpload, OnlyDrop
<1>3. CASE UploadFails
  <2>1. Outside'
    BY <1>3 DEF UploadFails, OnlyDrop, TypeInv, Outside, socket, database, cache, deletions
  <2>2. drop' \in Drops /\ DropFits(drop') /\ view = "dropzone"
    BY <1>1, <1>3, DocsAssumption DEF UploadFails, UploadError, Dropzone, Drops, DropFits
  <2>3. QED BY <1>3, <2>1, <2>2, DropKeeps DEF UploadFails, OnlyDrop
<1>4. CASE UploadAnswered
  <2> DEFINE d == [drop EXCEPT !.status = "PROCESSING", !.request = "none", !.doc = drop.request,
                               !.timers = @ \cup {"processing"}]
  <2>1. Outside'
    BY <1>4 DEF UploadAnswered, Invalidate, TypeInv, Outside, socket, database, deletions
  <2>2. d \in Drops /\ DropFits(d)
    BY <1>1, <1>4, DocsAssumption DEF UploadAnswered, Drops, DropFits
  <2>3. drop' = DropSees(d, list) /\ view = "dropzone"
    BY <1>4 DEF UploadAnswered, UploadedDrop, Dropzone
  <2> HIDE DEF d
  <2>4. drop' \in Drops /\ DropFits(drop')
    BY <2>2, <2>3, DropSeesFacts
  <2>5. QED BY <1>4, <2>1, <2>3, <2>4, DropKeeps DEF UploadAnswered
<1>5. QED BY <1>2, <1>3, <1>4

\* The moment that shows the success, when the wizard goes on.
LEMMA WizardStep ==
  ASSUME TypeInv, SuccessTimeout, drop.origin # "hub"
  PROVE  TypeInv'
<1>1. drop \in Drops /\ DropFits(drop) /\ calls \in Seq(Calls)
  BY DEF TypeInv, ScreensFit
<1>2. Outside' /\ UNCHANGED <<view, strays, review>>
  BY DEF SuccessTimeout, TypeInv, Outside, socket, database, cache, deletions
<1>3. drop' \in Drops /\ DropFits(drop')
  BY <1>1 DEF SuccessTimeout, Drops, DropFits
<1>4. drop'.status = drop.status /\ drop'.file = drop.file
  BY <1>1 DEF SuccessTimeout, Drops
<1> DEFINE c == Call("dropzone", <<drop.doc>>, "extract", "ocr", FALSE)
<1>5. calls' = Append(calls, c) /\ c \in Calls /\ c.by = "dropzone"
  <2>1. drop.doc \in Docs
    BY <1>1 DEF SuccessTimeout, DropFits, Drops
  <2>2. QED BY <2>1 DEF SuccessTimeout, Call, Calls
<1> HIDE DEF c
<1>6. /\ calls' \in Seq(Calls)
      /\ \A i \in DOMAIN calls' : calls'[i].by = "dropzone" \/ (i \in DOMAIN calls /\ calls'[i] = calls[i])
      /\ \A i \in DOMAIN calls : i \in DOMAIN calls' /\ calls'[i] = calls[i]
  BY <1>1, <1>5, AppendElements
<1>7. Single(calls') /\ (Submitting(calls') <=> Submitting(calls))
  BY <1>6 DEF TypeInv, ScreensFit, Single, Submitting, Counted
<1>8. QED BY <1>2, <1>3, <1>4, <1>6, <1>7 DEF TypeInv, ScreensFit, ReviewFits

\* Steps of the review.
LEMMA ReviewStep ==
  ASSUME TypeInv, ExtractionsLoaded \/ StartEditing \/ SaveInlineEdit \/ CancelEdit \/ HandleConfirmAll
  PROVE  TypeInv'
<1>1. /\ view = "review" /\ review \in Reviews /\ review.doc \in Docs /\ review.data # "none"
      /\ calls \in Seq(Calls)
      /\ UNCHANGED <<database, cache, socket, view, drop, strays, deletions, blacklist>>
  <2>1. view = "review" /\ UNCHANGED <<database, cache, socket, view, drop, strays, deletions, blacklist>>
    BY DEF ExtractionsLoaded, StartEditing, SaveInlineEdit, CancelEdit, HandleConfirmAll, Reviewing
  <2>2. QED BY <2>1 DEF TypeInv, ScreensFit, ReviewFits
<1>2. Outside'
  BY <1>1 DEF TypeInv, Outside, socket, database, cache, deletions
<1>3. ASSUME review' \in Reviews, review'.doc = review.doc, review'.data # "none",
             review'.submitting = review.submitting,
             UNCHANGED calls
      PROVE  TypeInv'
  BY <1>1, <1>2, <1>3 DEF TypeInv, ScreensFit, ReviewFits, Single, Submitting
<1>4. CASE ExtractionsLoaded
  <2>1. text[review.doc] \in {"empty", "ocr", "user"}
    BY <1>1 DEF TypeInv, Outside
  <2>2. QED BY <1>1, <1>3, <1>4, <2>1 DEF ExtractionsLoaded, Reviewing, Reviews
<1>5. CASE StartEditing
  BY <1>1, <1>3, <1>5 DEF StartEditing, Reviewing, Reviews
<1>6. CASE SaveInlineEdit
  BY <1>1, <1>3, <1>6 DEF SaveInlineEdit, Reviewing, Reviews
<1>7. CASE CancelEdit
  BY <1>1, <1>3, <1>7 DEF CancelEdit, Reviewing, Reviews
<1>8. CASE HandleConfirmAll
  <2> DEFINE c == Call("review", <<review.doc>>, "verify", PayloadData(review),
                       review.editing \/ review.data = "user")
  <2>1. /\ review' \in Reviews /\ review'.doc = review.doc /\ review'.data = review.data
        /\ review'.submitting /\ review.data # "loading" /\ ~review.submitting
    BY <1>1, <1>8 DEF HandleConfirmAll, Reviewing, Reviews
  <2>2. calls' = Append(calls, c)
    BY <1>8 DEF HandleConfirmAll
  <2>3. c \in Calls /\ c.by = "review" /\ c.live
    <3>1. PayloadData(review) \in {"empty", "ocr", "user"}
      BY <1>1, <2>1 DEF PayloadData, Reviews
    <3>2. (review.editing \/ review.data = "user") \in BOOLEAN
      OBVIOUS
    <3>3. <<review.doc>> \in Seq(Docs) \ {<<>>}
      BY <1>1
    <3> QED BY <3>1, <3>2, <3>3 DEF Call, Calls
  <2> HIDE DEF c
  <2>4. /\ calls' \in Seq(Calls)
        /\ \A i \in DOMAIN calls' :
             \/ i = Len(calls) + 1 /\ calls'[i] = c
             \/ i \in DOMAIN calls /\ calls'[i] = calls[i]
        /\ Len(calls) + 1 \in DOMAIN calls' /\ calls'[Len(calls) + 1] = c
    <3>1. /\ calls' \in Seq(Calls) /\ Len(calls') = Len(calls) + 1 /\ Len(calls) \in Nat
          /\ calls'[Len(calls) + 1] = c /\ \A i \in DOMAIN calls : calls'[i] = calls[i]
      BY <1>1, <2>2, <2>3, AppendElements
    <3>2. DOMAIN calls = 1..Len(calls) /\ DOMAIN calls' = 1..(Len(calls) + 1)
      BY <1>1, <3>1
    <3>3. \A i \in 1..(Len(calls) + 1) : i = Len(calls) + 1 \/ i \in 1..Len(calls)
      BY <3>1
    <3>4. Len(calls) + 1 \in 1..(Len(calls) + 1)
      BY <3>1
    <3> QED BY <3>1, <3>2, <3>3, <3>4
  <2>5. Submitting(calls')
    BY <2>3, <2>4 DEF Submitting
  <2>6. Single(calls')
    <3>1. ~Submitting(calls) /\ Single(calls)
      BY <2>1 DEF TypeInv, ScreensFit
    <3>2. QED BY <2>3, <2>4, <3>1 DEF Single, Submitting, Counted
  <2>7. QED BY <1>1, <1>2, <2>1, <2>4, <2>5, <2>6 DEF TypeInv, ScreensFit, ReviewFits
<1>9. QED BY <1>4, <1>5, <1>6, <1>7, <1>8

\* A call that is over is taken out.
LEMMA WithoutFacts ==
  ASSUME TypeInv, NEW i \in DOMAIN calls
  PROVE  /\ Without(i) \in Seq(Calls) /\ Single(Without(i)) /\ Grown(Without(i), calls)
         /\ IF calls[i].by = "review" /\ calls[i].live
            THEN ~Submitting(Without(i)) ELSE Submitting(Without(i)) <=> Submitting(calls)
<1> DEFINE w == Without(i)
<1>1. calls \in Seq(Calls) /\ Single(calls) /\ DOMAIN calls = 1..Len(calls) /\ Len(calls) \in Nat
      /\ i \in 1..Len(calls)
  BY DEF TypeInv, ScreensFit
<1>2. /\ w \in Seq(Calls) /\ DOMAIN w = 1..(Len(calls) - 1)
      /\ \A j \in 1..(i - 1) : w[j] = calls[j]
      /\ \A j \in i..(Len(calls) - 1) : w[j] = calls[j + 1]
  BY <1>1, RemoveAtIndices DEF Without
<1> HIDE DEF w
<1> DEFINE at(j) == IF j < i THEN j ELSE j + 1
<1>3. \A j \in DOMAIN w : at(j) \in DOMAIN calls \ {i} /\ w[j] = calls[at(j)]
  <2> SUFFICES ASSUME NEW j \in 1..(Len(calls) - 1)
               PROVE  at(j) \in DOMAIN calls \ {i} /\ w[j] = calls[at(j)]
    BY <1>2
  <2>1. CASE j < i
    <3>1. j \in 1..(i - 1) /\ j \in 1..Len(calls) /\ j # i
      BY <1>1, <2>1
    <3>2. QED BY <1>1, <1>2, <2>1, <3>1
  <2>2. CASE ~(j < i)
    <3>1. j \in i..(Len(calls) - 1) /\ j + 1 \in 1..Len(calls) /\ j + 1 # i
      BY <1>1, <2>2
    <3>2. QED BY <1>1, <1>2, <2>2, <3>1
  <2>3. QED BY <2>1, <2>2
<1>4. \A j, k \in DOMAIN w : at(j) = at(k) => j = k
  BY <1>1, <1>2
<1>5. \A k \in DOMAIN calls \ {i} : \E j \in DOMAIN w : w[j] = calls[k]
  <2> SUFFICES ASSUME NEW k \in 1..Len(calls), k # i PROVE \E j \in DOMAIN w : w[j] = calls[k]
    BY <1>1
  <2>1. CASE k < i
    <3>1. k \in 1..(i - 1) /\ k \in 1..(Len(calls) - 1)
      BY <1>1, <2>1
    <3>2. QED BY <1>2, <3>1
  <2>2. CASE k > i
    <3>1. k - 1 \in i..(Len(calls) - 1) /\ k - 1 \in 1..(Len(calls) - 1) /\ (k - 1) + 1 = k
      BY <1>1, <2>2
    <3>2. QED BY <1>2, <3>1
  <2>3. QED BY <1>1, <2>1, <2>2
<1> HIDE DEF at
<1>6. Single(w)
  BY <1>1, <1>3, <1>4 DEF Single
<1>7. Grown(w, calls)
  BY <1>3 DEF Grown, Same
<1>8. CASE calls[i].by = "review" /\ calls[i].live
  <2>1. ASSUME NEW j \in DOMAIN w, w[j].by = "review", w[j].live PROVE FALSE
    <3>1. at(j) \in DOMAIN calls /\ at(j) # i /\ calls[at(j)].by = "review" /\ calls[at(j)].live
      BY <1>3, <2>1
    <3>2. QED BY <1>1, <1>8, <3>1 DEF Single, Counted
  <2>2. ~Submitting(w)
    BY <2>1 DEF Submitting
  <2>3. QED BY <1>2, <1>6, <1>7, <1>8, <2>2 DEF w
<1>9. CASE ~(calls[i].by = "review" /\ calls[i].live)
  <2>1. Submitting(w) <=> Submitting(calls)
    BY <1>3, <1>5, <1>9 DEF Submitting
  <2>2. QED BY <1>2, <1>6, <1>7, <1>9, <2>1 DEF w
<1>10. QED BY <1>8, <1>9

\* A call that goes on.
LEMMA ReplaceFacts ==
  ASSUME TypeInv, NEW i \in DOMAIN calls, NEW c \in Calls,
         c.by = calls[i].by, c.live = calls[i].live
  PROVE  /\ [calls EXCEPT ![i] = c] \in Seq(Calls) /\ Single([calls EXCEPT ![i] = c])
         /\ Submitting([calls EXCEPT ![i] = c]) <=> Submitting(calls)
<1> DEFINE new == [calls EXCEPT ![i] = c]
<1>1. calls \in Seq(Calls) /\ Single(calls)
  BY DEF TypeInv, ScreensFit
<1>2. /\ new \in Seq(Calls) /\ DOMAIN new = DOMAIN calls
      /\ \A j \in DOMAIN calls : new[j].by = calls[j].by /\ (new[j].live <=> calls[j].live)
  BY <1>1
<1> HIDE DEF new
<1>3. Single(new) /\ (Submitting(new) <=> Submitting(calls))
  BY <1>1, <1>2 DEF Single, Submitting, Counted
<1>4. QED BY <1>2, <1>3 DEF new

\* The hook goes on with a document that has not failed before, or is through.
LEMMA GoOnFacts ==
  ASSUME TypeInv, NEW i \in DOMAIN calls, calls[i].by = "hook", NEW black
  PROVE  /\ GoOn(i, black) \in Seq(Calls) /\ Single(GoOn(i, black))
         /\ Submitting(GoOn(i, black)) <=> Submitting(calls)
         /\ Grown(GoOn(i, black), calls)
<1> DEFINE docs == calls[i].docs
           open == {j \in 2..Len(docs) : docs[j] \notin black}
<1>1. calls \in Seq(Calls) /\ calls[i] \in Calls
  BY DEF TypeInv, ScreensFit
<1>2. docs \in Seq(Docs)
  BY <1>1 DEF Calls
<1>3. CASE open = {}
  <2>1. GoOn(i, black) = Without(i)
    BY <1>3 DEF GoOn
  <2>2. QED BY <2>1, WithoutFacts
<1>4. CASE open # {}
  <2> DEFINE n == Min(open)
             c == [calls[i] EXCEPT !.docs = SubSeq(docs, n, Len(docs)), !.at = "extract"]
  <2>1. GoOn(i, black) = [calls EXCEPT ![i] = c]
    BY <1>4 DEF GoOn
  <2>2. n \in 2..Len(docs)
    <3>1. open \subseteq Nat
      OBVIOUS
    <3>2. PICK m \in open : \A k \in open : m <= k
      BY <1>4, <3>1, LeastElement
    <3>3. n \in open
      BY <3>2 DEF Min
    <3> QED BY <3>3
  <2>3. SubSeq(docs, n, Len(docs)) \in Seq(Docs) \ {<<>>}
    <3>1. n \in Int /\ Len(docs) \in Int /\ n <= Len(docs)
      BY <1>2, <2>2
    <3>2. \A k \in n..Len(docs) : docs[k] \in Docs
      BY <1>2, <2>2
    <3> DEFINE rest == SubSeq(docs, n, Len(docs))
    <3>3. rest \in Seq(Docs) /\ Len(rest) = Len(docs) - n + 1
      BY <3>1, <3>2, SubSeqProperties
    <3> HIDE DEF rest
    <3>4. Len(rest) # 0
      BY <3>1, <3>3
    <3>5. rest # <<>>
      BY <3>4
    <3> QED BY <3>3, <3>5 DEF rest
  <2> HIDE DEF n
  <2>4. c \in Calls /\ c.by = "hook" /\ c.live = calls[i].live /\ c.at = "extract"
    BY <1>1, <2>3 DEF Calls
  <2> HIDE DEF c
  <2>5. Grown([calls EXCEPT ![i] = c], calls)
    BY <1>1, <2>4 DEF Grown, Same, Harmless
  <2>6. QED BY <2>1, <2>4, <2>5, ReplaceFacts
<1>5. QED BY <1>3, <1>4

LEMMA DocOfTyped ==
  ASSUME TypeInv, NEW i \in DOMAIN calls
  PROVE  calls[i] \in Calls /\ DocOf(i) \in Docs
<1>1. calls[i] \in Calls
  BY DEF TypeInv, ScreensFit
<1>2. calls[i].docs \in Seq(Docs) \ {<<>>}
  BY <1>1 DEF Calls
<1>3. QED BY <1>1, <1>2 DEF DocOf

\* A call that goes on, or that was taken out quietly.
LEMMA CallsKeep ==
  ASSUME TypeInv, Outside', UNCHANGED screens, calls' \in Seq(Calls), Single(calls'),
         Submitting(calls') <=> Submitting(calls)
  PROVE  TypeInv'
  BY DEF TypeInv, ScreensFit, ReviewFits, screens

LEMMA CallFailsKeeps ==
  ASSUME TypeInv, NEW i \in DOMAIN calls, CallFails(i),
         UNCHANGED <<database, cache, socket, deletions>>
  PROVE  TypeInv'
<1>1. calls[i] \in Calls /\ DocOf(i) \in Docs /\ calls[i].by \in {"hook", "dropzone", "review"}
  BY DocOfTyped DEF Calls
<1>2. blacklist' \subseteq Docs
  BY <1>1 DEF CallFails, TypeInv, Outside
<1>3. Outside'
  BY <1>2 DEF TypeInv, Outside, socket, database, cache, deletions
<1>4. CASE calls[i].by = "hook"
  <2>1. calls' = GoOn(i, blacklist') /\ UNCHANGED screens
    BY <1>4 DEF CallFails
  <2>2. QED BY <1>3, <1>4, <2>1, GoOnFacts, CallsKeep
<1>5. CASE calls[i].by = "dropzone"
  <2>1. PICK v \in {"questionnaire", "overview"} : Go(v, NoDoc, "hub", Without(i))
    BY <1>5 DEF CallFails
  <2>2. v \in Views /\ v # "review" /\ Without(i) \in Seq(Calls)
    BY WithoutFacts DEF Views
  <2>3. QED BY <1>3, <2>1, <2>2, GoKeeps
<1>6. CASE calls[i].by = "review"
  <2>1. /\ calls' = Without(i) /\ UNCHANGED <<view, drop, strays>>
        /\ review' = IF calls[i].live THEN [review EXCEPT !.submitting = FALSE] ELSE review
    BY <1>6 DEF CallFails
  <2>2. CASE calls[i].live
    <3>1. Submitting(calls)
      BY <1>6, <2>2 DEF Submitting
    <3>2. view = "review" /\ review \in Reviews /\ review.doc \in Docs /\ review.data # "none"
      BY <3>1 DEF TypeInv, ScreensFit, ReviewFits, NoReview, ReviewOf
    <3>3. review' \in Reviews /\ review'.doc \in Docs /\ review'.data # "none" /\ ~review'.submitting
      BY <2>1, <2>2, <3>2 DEF Reviews
    <3>4. calls' \in Seq(Calls) /\ Single(calls') /\ ~Submitting(calls')
      BY <1>6, <2>1, <2>2, WithoutFacts
    <3>5. QED BY <1>3, <2>1, <3>2, <3>3, <3>4 DEF TypeInv, ScreensFit, ReviewFits
  <2>3. CASE ~calls[i].live
    <3>1. calls' \in Seq(Calls) /\ Single(calls') /\ (Submitting(calls') <=> Submitting(calls))
      BY <2>1, <2>3, WithoutFacts
    <3>2. UNCHANGED screens
      BY <2>1, <2>3 DEF screens
    <3>3. QED BY <1>3, <3>1, <3>2, CallsKeep
  <2>4. QED BY <2>2, <2>3
<1>7. QED BY <1>1, <1>4, <1>5, <1>6

LEMMA ExtractStep ==
  ASSUME TypeInv, NEW i \in DOMAIN calls, Extract(i)
  PROVE  TypeInv'
<1>1. CASE ExtractOk(i)
  <2>1. calls[i] \in Calls /\ DocOf(i) \in Docs
    BY DocOfTyped
  <2>2. Outside'
    BY <1>1 DEF Extract, ExtractOk, TypeInv, Outside, socket, database, cache, deletions
  <2>3. CASE calls[i].by = "hook" /\ ~calls[i].live
    <3>1. calls' = Without(i) /\ UNCHANGED screens
      BY <1>1, <2>3 DEF ExtractOk
    <3>2. QED BY <2>2, <2>3, <3>1, WithoutFacts, CallsKeep
  <2>4. CASE ~(calls[i].by = "hook" /\ ~calls[i].live)
    <3> DEFINE c == [calls[i] EXCEPT !.at = "verify", !.data = text[DocOf(i)]]
    <3>1. calls' = [calls EXCEPT ![i] = c] /\ UNCHANGED screens
      BY <1>1, <2>4 DEF ExtractOk
    <3>2. c \in Calls /\ c.by = calls[i].by /\ c.live = calls[i].live
      BY <2>1 DEF Calls, TypeInv, Outside
    <3> HIDE DEF c
    <3>3. QED BY <2>2, <3>1, <3>2, ReplaceFacts, CallsKeep
  <2>5. QED BY <2>3, <2>4
<1>2. CASE CallFails(i)
  BY <1>2, CallFailsKeeps DEF Extract
<1>3. QED BY <1>1, <1>2 DEF Extract

LEMMA VerifyStep ==
  ASSUME TypeInv, NEW i \in DOMAIN calls, Verify(i)
  PROVE  TypeInv'
<1>1. calls[i] \in Calls /\ DocOf(i) \in Docs
  BY DocOfTyped
<1>2. ASSUME NEW at \in {"applied", "refused"}, calls' = [calls EXCEPT ![i].at = at], Outside'
      PROVE  TypeInv'
  <2> DEFINE c == [calls[i] EXCEPT !.at = at]
  <2>1. calls' = [calls EXCEPT ![i] = c]
    BY <1>2
  <2>2. c \in Calls /\ c.by = calls[i].by /\ c.live = calls[i].live
    BY <1>1, <1>2 DEF Calls
  <2> HIDE DEF c
  <2>3. UNCHANGED screens
    BY DEF Verify
  <2>4. calls' \in Seq(Calls) /\ Single(calls') /\ (Submitting(calls') <=> Submitting(calls))
    BY <2>1, <2>2, ReplaceFacts
  <2>5. QED BY <1>2, <2>3, <2>4, CallsKeep
<1>3. UNCHANGED <<cache, socket, deletions, blacklist>>
  BY DEF Verify
<1>4. CASE calls' = [calls EXCEPT ![i].at = "refused"] /\ UNCHANGED database
  <2>1. Outside'
    BY <1>3, <1>4 DEF TypeInv, Outside, socket, database, cache, deletions
  <2>2. QED BY <1>2, <1>4, <2>1
<1>5. CASE /\ calls' = [calls EXCEPT ![i].at = "applied"]
           /\ server' = [server EXCEPT ![DocOf(i)] = "verified"]
           /\ text' = IF calls[i].data = "empty" THEN text
                      ELSE [text EXCEPT ![DocOf(i)] = calls[i].data]
           /\ calls[i].at = "verify"
  <2>1. server' \in [Docs -> Statuses \cup {"deleted"}]
    BY <1>1, <1>5 DEF TypeInv, Outside, Statuses
  <2>2. text' \in [Docs -> {"empty", "ocr", "user"}]
    BY <1>1, <1>5 DEF TypeInv, Outside, Calls
  <2>3. Outside'
    BY <1>3, <2>1, <2>2 DEF TypeInv, Outside, socket, cache, deletions
  <2>4. QED BY <1>2, <1>5, <2>3
<1>6. QED BY <1>4, <1>5 DEF Verify

LEMMA AnsweredStep ==
  ASSUME TypeInv, NEW i \in DOMAIN calls, VerifyAnswered(i)
  PROVE  TypeInv'
<1>1. calls[i] \in Calls /\ DocOf(i) \in Docs /\ calls[i].by \in {"hook", "dropzone", "review"}
  BY DocOfTyped DEF Calls
<1>2. Without(i) \in Seq(Calls)
  BY WithoutFacts
<1>3. UNCHANGED <<database, socket, deletions>>
  BY DEF VerifyAnswered
<1>4. CASE VerifyFails(i)
  BY <1>3, <1>4, CallFailsKeeps DEF VerifyFails
<1>5. CASE VerifyOk(i)
  <2>1. Invalidate \/ UNCHANGED cache
    BY <1>1, <1>5 DEF VerifyOk
  <2>2. Outside'
    BY <1>3, <1>5, <2>1 DEF VerifyOk, Invalidate, TypeInv, Outside, socket, database, cache, deletions
  <2>3. CASE calls[i].by = "hook"
    <3>1. UNCHANGED screens /\ calls' \in {GoOn(i, blacklist), Without(i)}
      BY <1>5, <2>3 DEF VerifyOk
    <3>2. calls' \in Seq(Calls) /\ Single(calls') /\ (Submitting(calls') <=> Submitting(calls))
      BY <2>3, <3>1, GoOnFacts, WithoutFacts
    <3>3. QED BY <2>2, <3>1, <3>2, CallsKeep
  <2>4. CASE calls[i].by = "dropzone"
    <3>1. PICK v \in {"questionnaire", "overview"} : Go(v, NoDoc, "hub", Without(i))
      BY <1>5, <2>4 DEF VerifyOk
    <3>2. v \in Views /\ v # "review"
      BY DEF Views
    <3>3. QED BY <1>2, <2>2, <3>1, <3>2, GoKeeps
  <2>5. CASE calls[i].by = "review"
    <3>1. Go("success", DocOf(i), "hub", Without(i)) /\ "success" \in Views
      BY <1>5, <2>5 DEF VerifyOk, Views
    <3>2. QED BY <1>2, <2>2, <3>1, GoKeeps
  <2>6. QED BY <1>1, <2>3, <2>4, <2>5
<1>6. QED BY <1>4, <1>5 DEF VerifyAnswered

LEMMA InitTyped == Init => TypeInv
<1> SUFFICES ASSUME Init PROVE TypeInv
  OBVIOUS
<1>1. Outside
  <2>1. server \in [Docs -> Statuses \cup {"deleted"}] /\ text \in [Docs -> {"empty", "ocr", "user"}]
    BY DocsAssumption DEF Init, Statuses
  <2>2. list \in Lists
    BY <2>1 DEF Init, Listed, Lists, Statuses
  <2>3. dels \in [Docs -> Deletions] /\ (\A d \in Docs : dels[d].at = "none")
    BY DEF Init, Idle, Deletions
  <2>4. before \in [Docs -> {NoFetch} \cup Lists]
    BY DEF Init
  <2>5. QED BY <2>1, <2>2, <2>3, <2>4 DEF Init, Outside
<1>2. ScreensFit
  <2>1. drop \in Drops /\ DropFits(drop) /\ drop.status = "IDLE" /\ ~drop.file
    BY DEF Init, EmptyDrop, Drops, DropFits
  <2>2. review \in Reviews /\ ~review.submitting /\ review = NoReview
    BY DEF Init, NoReview, ReviewOf, Reviews
  <2>3. calls \in Seq(Calls) /\ DOMAIN calls = {}
    BY DEF Init
  <2>4. Single(calls) /\ ~Submitting(calls)
    BY <2>3 DEF Single, Submitting
  <2>5. view = "documents" /\ strays = 0
    BY DEF Init
  <2>6. QED BY <2>1, <2>2, <2>3, <2>4, <2>5 DEF ScreensFit, ReviewFits, Views
<1>3. QED BY <1>1, <1>2 DEF TypeInv

LEMMA StepTyped == TypeInv /\ [Next]_vars => TypeInv'
<1> SUFFICES ASSUME TypeInv, [Next]_vars PROVE TypeInv'
  OBVIOUS
<1>1. CASE UserStep
  BY <1>1, GoStep, QuietStep, DropStep, ReviewStep, ShowStep DEF UserStep
<1>2. CASE UploadStep
  BY <1>2, DropStep, UploadStepKeeps DEF UploadStep
<1>3. CASE Timer
  BY <1>3, GoStep, WizardStep DEF Timer
<1>4. CASE StraySettles \/ ExtractionsLoaded
  BY <1>4, StrayStep, ReviewStep
<1>5. CASE CallStep
  BY <1>5, ExtractStep, VerifyStep, AnsweredStep DEF CallStep
<1>6. CASE Poll \/ Read \/ Arrive \/ FetchFails
  BY <1>6, QuietStep, ShowStep
<1>7. CASE \E d \in Docs : Process(d) \/ Notify(d) \/ DeleteDocument(d) \/ DeleteOk(d) \/ DeleteFails(d)
  BY <1>7, QuietStep, ShowStep, GoStep
<1>8. CASE UNCHANGED vars
  BY <1>8 DEF vars, database, cache, socket, screens, deletions, TypeInv, Outside, ScreensFit,
              ReviewFits, Single, Submitting
<1>9. QED BY <1>1, <1>2, <1>3, <1>4, <1>5, <1>6, <1>7, <1>8 DEF Next

LEMMA TypeInvHolds == Spec => []TypeInv
<1>1. QED BY InitTyped, StepTyped, PTL DEF Spec

\* The state is well formed: an upload screen has a timer or a request exactly in the state it
\* belongs to and no such state once it was left, a review waits for an answer exactly while
\* its call is on its way, and of the hook and of the review at most one call is live,
\* whatever is answered, shown, left or deleted in between (DocumentDropzone.tsx,
\* DocumentReviewView.tsx, useAutoVerification.ts).
THEOREM DocumentFlowTyped == Spec => []TypeOK
<1>1. TypeInv => TypeOK
  BY DEF TypeInv, Outside, ScreensFit, TypeOK, Lists, Drops, DropFits, Single, Counted, Submitting
<1>2. QED BY <1>1, TypeInvHolds, PTL

-----------------------------------------------------------------------------
(* What the user corrected stays.                                          *)

\* Whatever would verify a corrected document now has read the correction, but for what was on
\* its way when the correction was stored.
Kept ==
  /\ \A i \in DOMAIN calls : calls[i].by = "review" => Harmless(calls[i])
  /\ \A d \in corrected \ raced :
        /\ text[d] = "user"
        /\ \A i \in DOMAIN calls :
              calls[i].by # "review" /\ calls[i].at = "verify" /\ DocOf(i) = d => calls[i].data = "user"

LEMMA GrownKeeps ==
  ASSUME Kept, Grown(calls', calls), UNCHANGED <<corrected, raced>>,
         \A d \in corrected : text'[d] = text[d]
  PROVE  Kept'
<1>1. \A i \in DOMAIN calls' :
        \/ Harmless(calls'[i])
        \/ \E j \in DOMAIN calls : Same(calls'[i], calls[j]) /\ DocOf(i)' = DocOf(j)
  BY DEF Grown, Same, DocOf
<1>2. ASSUME NEW i \in DOMAIN calls', calls'[i].by = "review"
      PROVE  Harmless(calls'[i])
  BY <1>1, <1>2 DEF Kept, Harmless, Same
<1>3. ASSUME NEW d \in corrected \ raced, NEW i \in DOMAIN calls',
             calls'[i].by # "review", calls'[i].at = "verify", DocOf(i)' = d
      PROVE  calls'[i].data = "user"
  BY <1>1, <1>3 DEF Kept, Harmless, Same
<1>4. ASSUME NEW d \in corrected \ raced PROVE text'[d] = "user"
  BY DEF Kept
<1>5. QED BY <1>2, <1>3, <1>4 DEF Kept

LEMMA SameCallsGrown == Grown(calls, calls)
  BY DEF Grown, Same

LEMMA GrownBeyond ==
  ASSUME NEW new, NEW cs, Grown(new, cs), Grown(cs, calls)
  PROVE  Grown(new, calls)
<1> SUFFICES ASSUME NEW i \in DOMAIN new, ~Harmless(new[i])
             PROVE  \E j \in DOMAIN calls : Same(new[i], calls[j])
  BY DEF Grown
<1>1. PICK k \in DOMAIN cs : Same(new[i], cs[k])
  BY DEF Grown
<1>2. ~Harmless(cs[k])
  BY <1>1 DEF Harmless, Same
<1>3. PICK j \in DOMAIN calls : Same(cs[k], calls[j])
  BY <1>2 DEF Grown
<1>4. QED BY <1>1, <1>3 DEF Same

\* Another screen: the calls of the one that was left are stopped.
LEMMA GoGrows ==
  ASSUME TypeInv, NEW v \in Views, NEW d, v = "review" => d \in Docs,
         NEW origin \in {"hub", "wizard"}, NEW cs \in Seq(Calls), Grown(cs, calls),
         Go(v, d, origin, cs)
  PROVE  Grown(calls', calls)
<1>1. Grown(calls', cs)
  BY GoFacts
<1>2. QED BY <1>1, GrownBeyond

\* A call is answered, or fails.
LEMMA FailureGrows ==
  ASSUME TypeInv, NEW i \in DOMAIN calls, CallFails(i)
  PROVE  Grown(calls', calls)
<1>1. calls[i].by \in {"hook", "dropzone", "review"}
  BY DocOfTyped DEF Calls
<1>2. CASE calls[i].by = "hook"
  BY <1>2, GoOnFacts DEF CallFails
<1>3. CASE calls[i].by = "dropzone"
  <2>1. PICK v \in {"questionnaire", "overview"} : Go(v, NoDoc, "hub", Without(i))
    BY <1>3 DEF CallFails
  <2>2. v \in Views /\ v # "review"
    BY DEF Views
  <2>3. QED BY <2>1, <2>2, WithoutFacts, GoGrows
<1>4. CASE calls[i].by = "review"
  BY <1>4, WithoutFacts DEF CallFails
<1>5. QED BY <1>1, <1>2, <1>3, <1>4

LEMMA AnswerGrows ==
  ASSUME TypeInv, NEW i \in DOMAIN calls, VerifyAnswered(i)
  PROVE  Grown(calls', calls)
<1>1. calls[i].by \in {"hook", "dropzone", "review"} /\ DocOf(i) \in Docs
  BY DocOfTyped DEF Calls
<1>2. Without(i) \in Seq(Calls) /\ Grown(Without(i), calls)
  BY WithoutFacts
<1>3. CASE VerifyFails(i)
  BY <1>3, FailureGrows DEF VerifyFails
<1>4. CASE VerifyOk(i) /\ calls[i].by = "hook"
  <2>1. calls' = GoOn(i, blacklist) \/ calls' = Without(i)
    BY <1>4 DEF VerifyOk
  <2>2. QED BY <1>2, <1>4, <2>1, GoOnFacts
<1>5. CASE VerifyOk(i) /\ calls[i].by = "dropzone"
  <2>1. PICK v \in {"questionnaire", "overview"} : Go(v, NoDoc, "hub", Without(i))
    BY <1>5 DEF VerifyOk
  <2>2. v \in Views /\ v # "review"
    BY DEF Views
  <2>3. QED BY <1>2, <2>1, <2>2, GoGrows
<1>6. CASE VerifyOk(i) /\ calls[i].by = "review"
  <2>1. Go("success", DocOf(i), "hub", Without(i)) /\ "success" \in Views
    BY <1>6 DEF VerifyOk, Views
  <2>2. QED BY <1>2, <2>1, GoGrows
<1>7. QED BY <1>1, <1>3, <1>4, <1>5, <1>6 DEF VerifyAnswered

\* The user's own steps and the timers.
LEMMA ScreenGrows ==
  ASSUME TypeInv,
         \/ Leave \/ OpenDropzone \/ OpenReview \/ HandleToastClick \/ Timer
         \/ HandleConfirmAll \/ Arrive
         \/ \E d \in Docs : Delete(d) \/ DeleteOk(d) \/ DeleteFails(d)
  PROVE  Grown(calls', calls)
<1>0. calls \in Seq(Calls) /\ Grown(calls, calls)
  BY SameCallsGrown DEF TypeInv, ScreensFit
<1>1. ASSUME NEW v \in Views, NEW d, v = "review" => d \in Docs,
             NEW origin \in {"hub", "wizard"}, Go(v, d, origin, calls)
      PROVE  Grown(calls', calls)
  BY <1>0, <1>1, GoGrows
<1>2. CASE Leave
  <2>1. PICK v \in {"documents", "overview", "questionnaire"} : Go(v, NoDoc, "hub", calls)
    BY <1>2 DEF Leave, Visit
  <2>2. v \in Views /\ v # "review"
    BY DEF Views
  <2>3. QED BY <1>1, <2>1, <2>2
<1>3. CASE OpenDropzone
  <2>1. PICK o \in {"hub", "wizard"} : Go("dropzone", NoDoc, o, calls)
    BY <1>3 DEF OpenDropzone, Visit
  <2>2. "dropzone" \in Views
    BY DEF Views
  <2>3. QED BY <1>1, <2>1, <2>2
<1>4. CASE OpenReview
  <2>1. PICK d \in Docs : Go("review", d, "hub", calls)
    BY <1>4 DEF OpenReview, Visit
  <2>2. "review" \in Views
    BY DEF Views
  <2>3. QED BY <1>1, <2>1, <2>2
<1>5. CASE ProcessingTimeout
  <2>1. Go(ExitRoute(drop.origin), NoDoc, "hub", calls)
    BY <1>5 DEF ProcessingTimeout
  <2>2. QED BY <1>1, <2>1, ExitRouteFacts
<1>15. CASE HandleToastClick
  <2>1. PICK o \in {"hub", "wizard"} : Go("review", toast, o, calls)
    BY <1>15 DEF HandleToastClick, Visit
  <2>2. "review" \in Views /\ toast \in Docs
    BY <1>15 DEF Views, HandleToastClick, TypeInv, Outside
  <2>3. QED BY <1>1, <2>1, <2>2
<1>6. CASE SuccessTimeout /\ drop.origin = "hub"
  <2>1. drop.doc \in Docs /\ Go("review", drop.doc, "hub", calls)
    BY <1>6 DEF SuccessTimeout, TypeInv, ScreensFit, DropFits
  <2>2. "review" \in Views
    BY DEF Views
  <2>3. QED BY <1>1, <2>1, <2>2
<1>7. CASE SuccessTimeout /\ drop.origin # "hub"
  <2> DEFINE c == Call("dropzone", <<drop.doc>>, "extract", "ocr", FALSE)
  <2>1. calls' = Append(calls, c) /\ c \in Calls /\ Harmless(c)
    <3>1. drop.doc \in Docs
      BY <1>7 DEF SuccessTimeout, DropFits, Drops, TypeInv, ScreensFit
    <3>2. QED BY <1>7, <3>1 DEF SuccessTimeout, Call, Calls, Harmless
  <2> HIDE DEF c
  <2>2. \A i \in DOMAIN calls' : calls'[i] = c \/ (i \in DOMAIN calls /\ calls'[i] = calls[i])
    BY <1>0, <2>1, AppendElements
  <2>3. QED BY <2>1, <2>2 DEF Grown, Same
<1>8. CASE HandleConfirmAll
  <2> DEFINE c == Call("review", <<review.doc>>, "verify", PayloadData(review),
                       review.editing \/ review.data = "user")
  <2>1. calls' = Append(calls, c) /\ c \in Calls /\ Harmless(c)
    <3>1. review \in Reviews /\ review.data \notin {"none", "loading"} /\ review.doc \in Docs
      BY <1>8 DEF HandleConfirmAll, Reviewing, TypeInv, ScreensFit, ReviewFits
    <3>2. PayloadData(review) \in {"empty", "ocr", "user"}
      BY <3>1 DEF PayloadData, Reviews
    <3>3. review.editing \/ review.data = "user" => PayloadData(review) = "user"
      BY <3>1 DEF PayloadData, Reviews
    <3>4. (review.editing \/ review.data = "user") \in BOOLEAN
      OBVIOUS
    <3>5. <<review.doc>> \in Seq(Docs) \ {<<>>}
      BY <3>1
    <3>6. c \in Calls
      BY <3>2, <3>4, <3>5 DEF Call, Calls
    <3>7. Harmless(c)
      BY <3>3 DEF Call, Harmless
    <3>8. QED BY <1>8, <3>6, <3>7 DEF HandleConfirmAll
  <2> HIDE DEF c
  <2>2. \A i \in DOMAIN calls' : calls'[i] = c \/ (i \in DOMAIN calls /\ calls'[i] = calls[i])
    BY <1>0, <2>1, AppendElements
  <2>3. QED BY <2>1, <2>2 DEF Grown, Same
<1>9. ASSUME NEW l \in Lists, Show(l, calls) PROVE Grown(calls', calls)
  BY <1>9, ShowFacts
<1>10. CASE Arrive
  <2>1. fetch \in Lists
    BY <1>10 DEF Arrive, TypeInv, Outside
  <2>2. QED BY <1>9, <1>10, <2>1 DEF Arrive
<1>11. ASSUME NEW d \in Docs, Delete(d) PROVE Grown(calls', calls)
  <2>1. [list EXCEPT ![d] = "none"] \in Lists
    BY DEF TypeInv, Outside, Lists, Statuses
  <2>2. QED BY <1>9, <1>11, <2>1 DEF Delete
<1>12. ASSUME NEW d \in Docs, DeleteFails(d) PROVE Grown(calls', calls)
  <2>1. before[d] \in Lists
    BY <1>12 DEF DeleteFails, TypeInv, Outside
  <2>2. QED BY <1>9, <1>12, <2>1 DEF DeleteFails
<1>13. ASSUME NEW d \in Docs, DeleteOk(d) PROVE Grown(calls', calls)
  <2>1. dels[d] \in Deletions
    BY DEF TypeInv, Outside
  <2>2. \/ UNCHANGED calls
        \/ /\ Go(dels[d].exit, NoDoc, "hub", calls)
           /\ dels[d].exit \in Views \ {"review"}
    BY <1>13, <2>1 DEF DeleteOk, Deleted, Deletions, Views
  <2>3. QED BY <1>0, <1>1, <2>2
<1>14. QED BY <1>2, <1>3, <1>4, <1>5, <1>6, <1>7, <1>8, <1>10, <1>11, <1>12, <1>13, <1>15 DEF Timer

\* Extractions are read after the correction, or their call is among those that raced it.
LEMMA ExtractKeepsText ==
  ASSUME TypeInv, Kept, NEW i \in DOMAIN calls, Extract(i)
  PROVE  Kept'
<1>1. calls \in Seq(Calls) /\ calls[i] \in Calls /\ UNCHANGED <<text, corrected, raced>>
  BY DocOfTyped DEF TypeInv, ScreensFit, Extract, database
<1>2. CASE CallFails(i)
  BY <1>1, <1>2, FailureGrows, GrownKeeps
<1>3. CASE ExtractOk(i) /\ calls' = Without(i)
  BY <1>1, <1>3, WithoutFacts, GrownKeeps
<1>4. CASE ExtractOk(i) /\ calls' # Without(i)
  <2> DEFINE c == [calls[i] EXCEPT !.at = "verify", !.data = text[DocOf(i)]]
  <2>1. calls' = [calls EXCEPT ![i] = c]
    BY <1>4 DEF ExtractOk
  <2>2. c.by = calls[i].by /\ c.docs = calls[i].docs /\ c.data = text[DocOf(i)] /\ c.by # "review"
    BY <1>1 DEF Calls, Extract, Kept, Harmless
  <2> HIDE DEF c
  <2>3. /\ DOMAIN calls' = DOMAIN calls /\ calls'[i] = c
        /\ \A j \in DOMAIN calls : j # i => calls'[j] = calls[j]
    BY <1>1, <2>1
  <2>4. \A j \in DOMAIN calls : DocOf(j)' = DocOf(j)
    BY <2>2, <2>3 DEF DocOf
  <2>5. ASSUME NEW j \in DOMAIN calls', calls'[j].by = "review" PROVE Harmless(calls'[j])
    BY <2>2, <2>3, <2>5 DEF Kept
  <2>6. ASSUME NEW d \in corrected \ raced, NEW j \in DOMAIN calls',
               calls'[j].by # "review", calls'[j].at = "verify", DocOf(j)' = d
        PROVE  calls'[j].data = "user"
    <3>1. CASE j = i
      BY <2>2, <2>3, <2>4, <2>6, <3>1 DEF Kept
    <3>2. CASE j # i
      BY <2>3, <2>4, <2>6, <3>2 DEF Kept
    <3>3. QED BY <3>1, <3>2
  <2>7. \A d \in corrected \ raced : text[d] = "user"
    BY DEF Kept
  <2>8. QED BY <1>1, <2>5, <2>6, <2>7 DEF Kept
<1>5. QED BY <1>2, <1>3, <1>4 DEF Extract

\* A verification stores what it read, the review what the user confirmed.
LEMMA VerifyKeepsText ==
  ASSUME TypeInv, Kept, NEW i \in DOMAIN calls, Verify(i)
  PROVE  Kept'
<1> DEFINE d == DocOf(i)
           older == \E j \in DOMAIN calls \ {i} :
                       DocOf(j) = d /\ calls[j].by # "review" /\ calls[j].at = "verify"
<1>1. calls \in Seq(Calls) /\ calls[i] \in Calls /\ d \in Docs /\ text \in [Docs -> {"empty", "ocr", "user"}]
  BY DocOfTyped DEF TypeInv, ScreensFit, Outside
<1>2. ASSUME NEW at \in {"applied", "refused"}, calls' = [calls EXCEPT ![i].at = at]
      PROVE  /\ DOMAIN calls' = DOMAIN calls
             /\ \A j \in DOMAIN calls : Same(calls'[j], calls[j])
             /\ calls'[i].at = at
  <2> DEFINE c == [calls[i] EXCEPT !.at = at]
  <2>1. calls' = [calls EXCEPT ![i] = c]
    BY <1>2
  <2>2. Same(c, calls[i]) /\ c.at = at
    BY <1>1, <1>2 DEF Same, Calls
  <2> HIDE DEF c
  <2>3. QED BY <1>1, <2>1, <2>2 DEF Same
<1>3. CASE calls' = [calls EXCEPT ![i].at = "refused"] /\ UNCHANGED database
  <2>1. Grown(calls', calls)
    BY <1>2, <1>3 DEF Grown
  <2>2. QED BY <1>3, <2>1, GrownKeeps DEF database
<1>4. ASSUME calls[i].at = "verify", calls' = [calls EXCEPT ![i].at = "applied"],
             text' = IF calls[i].data = "empty" THEN text ELSE [text EXCEPT ![d] = calls[i].data],
             IF calls[i].by = "review"
             THEN /\ corrected' = IF calls[i].meant THEN corrected \cup {d} ELSE corrected \ {d}
                  /\ raced' = IF older THEN raced \cup {d} ELSE raced \ {d}
             ELSE UNCHANGED <<corrected, raced>>
      PROVE  Kept'
  <2>1. /\ DOMAIN calls' = DOMAIN calls /\ calls'[i].at = "applied"
        /\ \A j \in DOMAIN calls : Same(calls'[j], calls[j]) /\ DocOf(j)' = DocOf(j)
    BY <1>2, <1>4 DEF Same, DocOf
  <2>2. ASSUME NEW j \in DOMAIN calls', calls'[j].by = "review" PROVE Harmless(calls'[j])
    BY <2>1, <2>2 DEF Kept, Harmless, Same
  <2>3. \A e \in Docs : e # d => text'[e] = text[e]
    BY <1>1, <1>4
  <2>4. calls[i].data # "empty" => text'[d] = calls[i].data
    BY <1>1, <1>4
  <2>5. ASSUME NEW e \in corrected' \ raced', NEW j \in DOMAIN calls',
               calls'[j].by # "review", calls'[j].at = "verify", DocOf(j)' = e
        PROVE  calls'[j].data = "user"
    <3>1. /\ j # i /\ j \in DOMAIN calls /\ Same(calls'[j], calls[j]) /\ calls[j].by # "review"
          /\ calls[j].at = "verify" /\ DocOf(j) = e
      BY <2>1, <2>5 DEF Same
    <3>2. e \in corrected \ raced
      <4>1. CASE calls[i].by = "review" /\ e = d
        <5>1. older
          BY <3>1, <4>1
        <5>2. QED BY <1>4, <2>5, <4>1, <5>1
      <4>2. CASE ~(calls[i].by = "review" /\ e = d)
        BY <1>4, <2>5, <4>2
      <4>3. QED BY <4>1, <4>2
    <3>3. QED BY <3>1, <3>2 DEF Kept, Same
  <2>6. ASSUME NEW e \in corrected' \ raced' PROVE text'[e] = "user"
    <3>1. CASE calls[i].by = "review" /\ e = d
      <4>1. calls[i].meant
        BY <1>4, <2>6, <3>1
      <4>2. calls[i].data = "user"
        BY <3>1, <4>1 DEF Kept, Harmless
      <4>3. QED BY <2>4, <3>1, <4>2
    <3>2. CASE calls[i].by # "review" /\ e = d
      <4>1. e \in corrected \ raced
        BY <1>4, <2>6, <3>2
      <4>2. calls[i].data = "user"
        BY <1>4, <3>2, <4>1 DEF Kept
      <4>3. QED BY <2>4, <3>2, <4>2
    <3>3. CASE e # d
      <4>1. e \in corrected \ raced
        BY <1>4, <2>6, <3>3
      <4>2. text'[e] = text[e]
        BY <1>1, <1>4, <3>3
      <4>3. QED BY <4>1, <4>2 DEF Kept
    <3>4. QED BY <3>1, <3>2, <3>3
  <2>7. QED BY <2>2, <2>5, <2>6 DEF Kept
<1>5. QED BY <1>3, <1>4 DEF Verify

\* A corrected document is verified, and is not processed any more.
Settled == corrected \subseteq Docs /\ \A d \in corrected : server[d] \in {"verified", "deleted"}

LEMMA StepSettled == TypeInv /\ Settled /\ [Next]_vars => Settled'
<1> SUFFICES ASSUME TypeInv, Settled, [Next]_vars PROVE Settled'
  OBVIOUS
<1>0. server \in [Docs -> Statuses \cup {"deleted"}]
  BY DEF TypeInv, Outside
<1>1. UNCHANGED <<server, corrected>> => Settled'
  BY DEF Settled
<1>2. ASSUME NEW d \in Docs, server[d] \notin {"verified", "deleted"}, NEW s,
             server' = [server EXCEPT ![d] = s], UNCHANGED corrected
      PROVE  Settled'
  BY <1>0, <1>2 DEF Settled
<1>3. CASE UserStep
  BY <1>1, <1>3 DEF UserStep, Leave, OpenDropzone, OpenReview, HandleToastClick, HideToast, Visit,
     PickFile, RemoveFile, HandleUpload, StartEditing, SaveInlineEdit, CancelEdit, HandleConfirmAll,
     Delete, Reviewing, database
<1>4. CASE UploadStep \/ StraySettles
  <2>1. ASSUME NEW d \in Free, Store(d) PROVE Settled'
    BY <1>2, <2>1 DEF Store, Free
  <2>2. QED
    BY <1>1, <1>4, <2>1 DEF UploadStep, ApplicationEnsured, StoreUpload, UploadFails, UploadAnswered,
       OnlyDrop, StraySettles, database
<1>5. CASE Timer \/ ExtractionsLoaded \/ Poll \/ Read \/ Arrive \/ FetchFails
  BY <1>1, <1>5 DEF Timer, ProcessingTimeout, SuccessTimeout, ExtractionsLoaded, Reviewing, Poll, Read,
     Arrive, FetchFails, database
<1>6. ASSUME NEW i \in DOMAIN calls, Extract(i) \/ VerifyAnswered(i)
      PROVE  Settled'
  BY <1>1, <1>6 DEF Extract, VerifyAnswered, database
<1>7. ASSUME NEW i \in DOMAIN calls, Verify(i)
      PROVE  Settled'
  <2>1. DocOf(i) \in Docs
    BY DocOfTyped
  <2>2. CASE UNCHANGED database
    BY <1>1, <2>2 DEF database
  <2>3. CASE /\ server' = [server EXCEPT ![DocOf(i)] = "verified"]
             /\ corrected' \in {corrected, corrected \cup {DocOf(i)}, corrected \ {DocOf(i)}}
    BY <1>0, <2>1, <2>3 DEF Settled
  <2>4. QED BY <1>7, <2>2, <2>3 DEF Verify
<1>8. ASSUME NEW d \in Docs, Process(d) PROVE Settled'
  BY <1>2, <1>8 DEF Process
<1>9. ASSUME NEW d \in Docs, Notify(d) \/ DeleteOk(d) \/ DeleteFails(d) PROVE Settled'
  BY <1>1, <1>9 DEF Notify, DeleteOk, Deleted, DeleteFails, database
<1>10. ASSUME NEW d \in Docs, DeleteDocument(d) PROVE Settled'
  <2>1. server' \in {server, [server EXCEPT ![d] = "deleted"]} /\ UNCHANGED corrected
    BY <1>10 DEF DeleteDocument
  <2>2. QED BY <1>0, <2>1 DEF Settled
<1>11. CASE UNCHANGED vars
  BY <1>1, <1>11 DEF vars, database
<1>12. QED
  BY <1>3, <1>4, <1>5, <1>6, <1>7, <1>8, <1>9, <1>10, <1>11 DEF Next, CallStep

LEMMA StepKept == TypeInv /\ Settled /\ Kept /\ [Next]_vars => Kept'
<1> SUFFICES ASSUME TypeInv, Settled, Kept, [Next]_vars PROVE Kept'
  OBVIOUS
<1>0. UNCHANGED <<calls, text, corrected, raced>> => Kept'
  BY SameCallsGrown, GrownKeeps
<1>1. CASE UNCHANGED calls /\ UNCHANGED <<text, corrected, raced>>
  BY <1>0, <1>1
<1>2. ASSUME NEW i \in DOMAIN calls, Extract(i) \/ Verify(i) \/ VerifyAnswered(i) PROVE Kept'
  <2>1. CASE VerifyAnswered(i)
    BY <2>1, AnswerGrows, GrownKeeps DEF VerifyAnswered, database
  <2>2. QED BY <1>2, <2>1, ExtractKeepsText, VerifyKeepsText
<1>3. CASE \/ Leave \/ OpenDropzone \/ OpenReview \/ HandleToastClick \/ Timer
           \/ HandleConfirmAll \/ Arrive
           \/ \E d \in Docs : Delete(d) \/ DeleteOk(d) \/ DeleteFails(d)
  <2>1. Grown(calls', calls)
    BY <1>3, ScreenGrows
  <2>2. UNCHANGED <<text, corrected, raced>>
    BY <1>3 DEF Leave, OpenDropzone, OpenReview, HandleToastClick, Visit, Timer,
                ProcessingTimeout, SuccessTimeout, HandleConfirmAll, Reviewing, Arrive, Delete,
                DeleteOk, Deleted, DeleteFails, database
  <2>3. QED BY <2>1, <2>2, GrownKeeps
<1>4. CASE PickFile \/ RemoveFile \/ HandleUpload \/ UploadStep
  BY <1>0, <1>4 DEF PickFile, RemoveFile, HandleUpload, UploadStep, ApplicationEnsured, StoreUpload,
                    UploadFails, UploadAnswered, OnlyDrop, Store, database
<1>5. CASE StartEditing \/ SaveInlineEdit \/ CancelEdit \/ ExtractionsLoaded
  BY <1>0, <1>5 DEF StartEditing, SaveInlineEdit, CancelEdit, ExtractionsLoaded, Reviewing, database
<1>6. CASE StraySettles \/ Poll \/ Read \/ FetchFails \/ HideToast
  BY <1>0, <1>6 DEF StraySettles, Store, Poll, Read, FetchFails, HideToast, database
<1>7. CASE \E d \in Docs : Notify(d) \/ DeleteDocument(d)
  BY <1>0, <1>7 DEF Notify, DeleteDocument, database
<1>10. ASSUME NEW d \in Docs, Process(d) PROVE Kept'
  <2>1. d \notin corrected
    BY <1>10 DEF Process, Settled
  <2>2. text \in [Docs -> {"empty", "ocr", "user"}] /\ corrected \subseteq Docs
    BY DEF TypeInv, Outside, Settled
  <2>3. \A e \in corrected : text'[e] = text[e]
    BY <1>10, <2>1, <2>2 DEF Process
  <2>4. UNCHANGED <<calls, corrected, raced>>
    BY <1>10 DEF Process
  <2>5. QED BY <2>3, <2>4, SameCallsGrown, GrownKeeps
<1>8. CASE UNCHANGED vars
  BY <1>0, <1>8 DEF vars, database
<1>9. QED BY <1>2, <1>3, <1>4, <1>5, <1>6, <1>7, <1>8, <1>10 DEF Next, UserStep, CallStep

\* What the user corrected and confirmed stays in the database, the field he was still typing
\* into included: no verification of the dropzone or of the hook that starts later puts back
\* what was read from the document, for any documents, screens and failures.  What had read
\* the older text when the correction was stored is not covered (raced;
\* useAutoVerification.ts, DocumentDropzone.tsx, DocumentReviewView.tsx, verify_document).
THEOREM CorrectionsStay == Spec => []CorrectionsKept
<1>1. Init => Kept /\ Settled
  BY DEF Init, Kept, Settled
<1>2. TypeInv /\ Kept => CorrectionsKept
  BY DEF Kept, CorrectionsKept
<1>3. QED BY <1>1, <1>2, StepKept, StepSettled, TypeInvHolds, PTL DEF Spec

-----------------------------------------------------------------------------
(* What was deleted stays away.                                            *)

\* A deleted document that the list may still show is on its way out of it: a request that the
\* server has not read for, an answer that was read after the deletion, the deletion itself, or
\* another one that cancelled the request and will ask anew or put its list back.
Away(d) ==
  \/ missed \/ fetch = Asked \/ dels[d].at # "none"
  \/ fetch \in Lists /\ fetch[d] = "none"
  \/ fetch = NoFetch /\ (list[d] = "none" \/ \E e \in Docs : dels[e].at # "none")
Gone == \A d \in Docs : server[d] = "deleted" => Away(d)

\* Nothing brings a deleted document back, and nothing but a deletion takes one away.
LEMMA ServerDeletes ==
  ASSUME TypeInv, [Next]_vars, \A d \in Docs : ~DeleteDocument(d)
  PROVE  \A d \in Docs : server'[d] = "deleted" <=> server[d] = "deleted"
<1>0. server \in [Docs -> Statuses \cup {"deleted"}]
  BY DEF TypeInv, Outside
<1>1. UNCHANGED server => \A d \in Docs : server'[d] = "deleted" <=> server[d] = "deleted"
  OBVIOUS
<1>2. ASSUME NEW d \in Free, Store(d)
      PROVE  \A e \in Docs : server'[e] = "deleted" <=> server[e] = "deleted"
  BY <1>0, <1>2 DEF Store, Free
<1>3. CASE UserStep
  BY <1>1, <1>3 DEF UserStep, Leave, OpenDropzone, OpenReview, HandleToastClick, HideToast, Visit,
     PickFile, RemoveFile, HandleUpload, StartEditing, SaveInlineEdit, CancelEdit, HandleConfirmAll,
     Delete, Reviewing, database
<1>4. CASE UploadStep \/ StraySettles
  BY <1>1, <1>2, <1>4 DEF UploadStep, ApplicationEnsured, StoreUpload, UploadFails, UploadAnswered,
     StraySettles, database
<1>5. CASE Timer \/ ExtractionsLoaded \/ Poll \/ Read \/ Arrive \/ FetchFails
  BY <1>1, <1>5 DEF Timer, ProcessingTimeout, SuccessTimeout, ExtractionsLoaded, Reviewing, Poll, Read,
     Arrive, FetchFails, database
<1>6. ASSUME NEW i \in DOMAIN calls, Extract(i) \/ VerifyAnswered(i)
      PROVE  UNCHANGED server
  BY <1>6 DEF Extract, VerifyAnswered, database
<1>7. ASSUME NEW i \in DOMAIN calls, Verify(i)
      PROVE  \A d \in Docs : server'[d] = "deleted" <=> server[d] = "deleted"
  <2>1. \/ UNCHANGED server
        \/ server[DocOf(i)] # "deleted" /\ server' = [server EXCEPT ![DocOf(i)] = "verified"]
    BY <1>7 DEF Verify, database
  <2>2. QED BY <1>0, <1>1, <2>1
<1>8. ASSUME NEW d \in Docs, Process(d)
      PROVE  \A e \in Docs : server'[e] = "deleted" <=> server[e] = "deleted"
  BY <1>0, <1>8 DEF Process
<1>9. ASSUME NEW d \in Docs, Notify(d) \/ DeleteOk(d) \/ DeleteFails(d)
      PROVE  UNCHANGED server
  BY <1>9 DEF Notify, DeleteOk, Deleted, DeleteFails, database
<1>10. CASE UNCHANGED vars
  BY <1>1, <1>10 DEF vars, database
<1>11. QED
  BY <1>1, <1>3, <1>4, <1>5, <1>6, <1>7, <1>8, <1>9, <1>10 DEF Next, CallStep

\* Steps of the upload screen and of the review leave the list and the deletions alone, answers
\* of calls ask for the list anew at most.
LEMMA DropQuiet ==
  ASSUME PickFile \/ RemoveFile \/ HandleUpload \/ UploadStep
  PROVE  UNCHANGED <<list, missed, dels>> /\ fetch' \in {Asked, fetch}
  BY DEF PickFile, RemoveFile, HandleUpload, UploadStep, ApplicationEnsured, StoreUpload, UploadFails,
         UploadAnswered, Invalidate, OnlyDrop, cache, deletions

LEMMA ReviewQuiet ==
  ASSUME StartEditing \/ SaveInlineEdit \/ CancelEdit \/ HandleConfirmAll \/ ExtractionsLoaded
  PROVE  UNCHANGED <<list, missed, dels, fetch>>
  BY DEF StartEditing, SaveInlineEdit, CancelEdit, HandleConfirmAll, ExtractionsLoaded, Reviewing,
         cache, deletions

LEMMA CallQuiet ==
  ASSUME TypeInv, NEW i \in DOMAIN calls, Extract(i) \/ Verify(i) \/ VerifyAnswered(i)
  PROVE  UNCHANGED <<list, missed, dels>> /\ fetch' \in {Asked, fetch}
<1>1. calls[i].by \in {"hook", "dropzone", "review"}
  BY DocOfTyped DEF Calls
<1>2. VerifyOk(i) => Invalidate \/ UNCHANGED cache
  BY <1>1 DEF VerifyOk
<1>3. QED
  BY <1>2 DEF Extract, Verify, VerifyAnswered, VerifyFails, Invalidate, cache, deletions

LEMMA StepGone == TypeInv /\ Gone /\ [Next]_vars => Gone'
<1> SUFFICES ASSUME TypeInv, Gone, [Next]_vars PROVE Gone'
  OBVIOUS
<1>0. /\ list \in Lists /\ fetch \in {NoFetch, Asked} \cup Lists
      /\ dels \in [Docs -> Deletions] /\ NoFetch \notin Lists /\ Asked \notin Lists
  BY MarkersAssumption DEF TypeInv, Outside, Lists
<1>1. ASSUME NEW d \in Docs, DeleteDocument(d) PROVE Gone'
  <2>1. /\ dels'[d].at # "none" /\ \A e \in Docs \ {d} : dels'[e] = dels[e]
        /\ \A e \in Docs \ {d} : server'[e] = server[e]
        /\ UNCHANGED <<list, fetch, missed>>
    BY <1>0, <1>1 DEF DeleteDocument, Deletions, cache, TypeInv, Outside
  <2>2. ASSUME NEW e \in Docs \ {d}, server'[e] = "deleted" PROVE Away(e)'
    <3>1. Away(e)
      BY <2>1, <2>2 DEF Gone
    <3>2. QED BY <2>1, <3>1 DEF Away
  <2>3. QED BY <2>1, <2>2 DEF Gone, Away
<1>2. CASE \A d \in Docs : ~DeleteDocument(d)
  <2>1. \A d \in Docs : server'[d] = "deleted" => server[d] = "deleted"
    BY <1>2, ServerDeletes
  <2>2. ASSUME UNCHANGED dels, UNCHANGED <<list, missed>>, fetch' \in {Asked, fetch} PROVE Gone'
    BY <2>1, <2>2 DEF Gone, Away
  <2>3. CASE Leave \/ OpenDropzone \/ OpenReview \/ HandleToastClick \/ HideToast
    BY <2>2, <2>3
       DEF Leave, OpenDropzone, OpenReview, HandleToastClick, HideToast, Visit, Mount, cache, deletions
  <2>4. CASE PickFile \/ RemoveFile \/ HandleUpload \/ StartEditing \/ SaveInlineEdit \/ CancelEdit
             \/ HandleConfirmAll \/ ExtractionsLoaded
    BY <2>2, <2>4, DropQuiet, ReviewQuiet
  <2>5. CASE UploadStep \/ StraySettles
    BY <2>2, <2>5, DropQuiet DEF StraySettles, cache, deletions
  <2>6. CASE Timer
    BY <2>2, <2>6 DEF Timer, ProcessingTimeout, SuccessTimeout, Mount, cache, deletions
  <2>7. CASE CallStep
    BY <2>2, <2>7, CallQuiet DEF CallStep
  <2>8. CASE Poll
    BY <2>2, <2>8 DEF Poll, Invalidate, deletions
  <2>9. CASE Read
    <3>1. ASSUME NEW d \in Docs, server'[d] = "deleted" PROVE Away(d)'
      <4>1. fetch' \in Lists /\ fetch'[d] = "none"
        BY <1>0, <2>1, <2>9, <3>1, ListedTyped DEF Read, Listed
      <4>2. QED BY <4>1 DEF Away
    <3>2. QED BY <3>1 DEF Gone
  <2>10. CASE Arrive
    <3>1. ASSUME NEW d \in Docs, server'[d] = "deleted" PROVE Away(d)'
      <4>1. Away(d)
        BY <2>1, <3>1 DEF Gone
      <4>2. list' = fetch /\ fetch' = NoFetch /\ UNCHANGED <<dels, missed>> /\ fetch \notin {NoFetch, Asked}
        BY <2>10 DEF Arrive, Show, deletions
      <4>3. QED BY <4>1, <4>2 DEF Away
    <3>2. QED BY <3>1 DEF Gone
  <2>11. CASE FetchFails
    BY <2>11 DEF FetchFails, Gone, Away
  <2>12. ASSUME NEW d \in Docs, Process(d) \/ Notify(d) PROVE Gone'
    BY <2>2, <2>12 DEF Process, Notify, Invalidate, cache, deletions
  <2>13. ASSUME NEW d \in Docs, DeleteOk(d) PROVE Gone'
    BY <2>13 DEF DeleteOk, Invalidate, Gone, Away
  <2>14. ASSUME NEW d \in Docs, DeleteFails(d) PROVE Gone'
    <3>1. ASSUME NEW x \in Docs, server'[x] = "deleted", ~missed' PROVE Away(x)'
      <4>1. server[x] = "deleted" /\ x # d /\ before[d][x] = "none" /\ ~missed
        BY <2>1, <2>14, <3>1 DEF DeleteFails
      <4>2. list'[x] = "none" /\ fetch' = fetch /\ dels'[x] = dels[x]
        BY <1>0, <2>14, <4>1 DEF DeleteFails, Show
      <4>3. Away(x)
        BY <4>1 DEF Gone
      <4>4. QED BY <4>1, <4>2, <4>3 DEF Away
    <3>2. QED BY <3>1 DEF Gone, Away
  <2>15. ASSUME NEW d \in Docs, Delete(d) PROVE Gone'
    <3>1. dels'[d].at # "none" /\ fetch' = NoFetch
      BY <1>0, <2>15 DEF Delete, Deletions
    <3>2. QED BY <3>1 DEF Gone, Away
  <2>16. CASE UNCHANGED vars
    BY <2>2, <2>16 DEF vars, cache, deletions
  <2>17. QED
    BY <1>2, <2>3, <2>4, <2>5, <2>6, <2>7, <2>8, <2>9, <2>10, <2>11, <2>12, <2>13, <2>14, <2>15, <2>16
       DEF Next, UserStep
<1>3. QED BY <1>1, <1>2

\* When no request and no deletion is left, the list shows no document that was deleted, unless
\* the reads since failed, or a deletion that was taken for failed put back a list with it in
\* it, its own included, which was carried out before its answer was lost: a refetch that the
\* server answered before the deletion is cancelled by it, the deletion asks anew when it is done,
\* and an answer read after it shows the document gone, in whatever order polls, notices, screens
\* and deletions of other documents go (useProfile.ts, DocumentReviewView.tsx).
THEOREM DeletedStay == Spec => []DeletedStaysAway
<1>1. Init => Gone
  <2>1. ASSUME Init, NEW d \in Docs PROVE server[d] # "deleted"
    BY <2>1, DocsAssumption DEF Init
  <2>2. QED BY <2>1 DEF Gone
<1>2. TypeInv /\ Gone => DeletedStaysAway
  <2>1. NoFetch \notin Lists /\ NoFetch # Asked
    BY MarkersAssumption DEF Lists
  <2>2. QED BY <2>1 DEF Gone, Away, DeletedStaysAway
<1>3. QED BY <1>1, <1>2, StepGone, TypeInvHolds, PTL DEF Spec

=============================================================================
