-------------------------- MODULE ApprovalGateProofs --------------------------
(***************************************************************************)
(* Proofs about ApprovalGate for any finite set of calls, any clients and  *)
(* answers, and any number of crashes.                                     *)
(***************************************************************************)
EXTENDS ApprovalGate, SequenceTheorems, FiniteSetTheorems, TLAPS

-----------------------------------------------------------------------------
\* Who waits for which mutation: p, s, r and u are the steps of the calls,
\* what their aborts wait for, the requests and the run.
EntitledIn(m, p, s, r, u) ==
  \/ /\ m.by \in Call /\ m.call = m.by
     /\ \/ /\ m.kind = "pending"
           /\ \/ p[m.by] = "recording" /\ s[m.by] = "no"
              \/ s[m.by] = "rereading"
        \/ m.kind = "decision" /\ m.answer = "aborted" /\ s[m.by] = "deciding"
  \/ /\ m.by \in Client /\ m.kind = "decision" /\ r[m.by].state = "asked"
     /\ m.call = r[m.by].call /\ m.answer = r[m.by].answer
  \/ m.by = Run /\ m.kind = "settle" /\ u = "settling"

Entitled(m) == EntitledIn(m, pc, settling, request, run)

\* Each caller has one mutation in the queue, or one answer to consume.
Queue ==
  /\ \A i \in DOMAIN asked : Entitled(asked[i])
  /\ \A i, j \in DOMAIN asked : i # j => asked[i].by # asked[j].by
  /\ \A i \in DOMAIN asked : reply[asked[i].by] = "none"

Expected(a) ==
  \/ a \in Call /\ (pc[a] = "recording" \/ settling[a] # "no")
  \/ a \in Client /\ request[a].state = "asked"
  \/ a = Run /\ run = "settling"

\* What an answer says is so until it is consumed.
Replies ==
  /\ \A a \in Caller : reply[a] # "none" => Expected(a)
  /\ \A a, b \in Caller : reply[a] # "none" /\ reply[b] # "none" => a = b
  /\ \A c \in Call : reply[c] \in Verdict \cup {"pending"} => approval[c] = reply[c]
  /\ \A k \in Client : reply[k] \in Verdict =>
       /\ reply[k] = ScopeOf(request[k].answer)
       /\ approval[request[k].call] = reply[k]
       /\ request[k].answer = "full" => savedMode = "full"
  /\ \A a \in Caller : reply[a] \in {"terminal", "ok"} => status = "terminal"
  /\ status = "terminal" =>
       \A a \in Caller : reply[a] \in {"none", "terminal", "ok", "error"}

\* Where a call stands, and the run it belongs to.
Phases ==
  /\ \A c \in Call : pc[c] \in {"idle", "preflight", "recording"} => settling[c] = "no"
  /\ \A c \in Callback : pc[c] \in {"idle", "preflight"} => approval[c] = "none"
  /\ \A c \in Callback : pc[c] = "recording" => approval[c] \in {"none", "pending"}
  /\ run # "live" => \A c \in Call \ Callback : ~Active(c)
  /\ status = "terminal" => run \notin {"live", "ending"}
  /\ run \in {"settled", "cleared"} => status = "terminal"

\* The decision on a question comes after the question.
Fifo ==
  /\ \A c \in Call : pc[c] = "recording" =>
       \/ reply[c] # "none"
       \/ \E i \in DOMAIN asked :
            /\ asked[i].by = c
            /\ \A j \in DOMAIN asked :
                 asked[j].kind = "decision" /\ asked[j].call = c => i < j
  /\ \A c \in Call : pc[c] = "recording" =>
       \A k \in Client : request[k].state = "asked" /\ request[k].call = c =>
         reply[k] = "none"
  /\ \A k \in Client : request[k].state = "asked" =>
       pc[request[k].call] \notin {"idle", "preflight"}

\* An entry that waits is undecided, or its decision is being told.
Undecided ==
  \A c \in Call : pc[c] = "waiting" =>
    \/ approval[c] = "pending"
    \/ reply[c] \in Verdict
    \/ \E k \in Client : reply[k] \in Verdict /\ request[k].call = c

\* Everything that was learnt of a verdict is the verdict.
Truthful ==
  /\ \A c \in Call : pc[c] = "approved" => approval[c] \in Approving
  /\ \A c \in Call : resolved[c] # NoResolved => Outcome(c) = resolved[c].verdict
  /\ \A h \in heard : Outcome(h[1]) = h[2]

Backed ==
  /\ \A g \in grants : \E d \in Call : Level(d) = g.level /\ approval[d] = g.scope
  /\ mode = "full" => savedMode = "full"

\* A call of the loop that is made again after a restart comes first.
Fresh ==
  \A c \in Call \ Callback : Replayed(c) =>
    /\ ~cell /\ grants = {}
    /\ \A d \in Call : ~Active(d) /\ settling[d] = "no"
    /\ \A k \in Client : request[k].state # "asked"

Ours ==
  owner = "daemon" =>
    /\ context = "daemon"
    /\ \A c \in Call : session[c] = "daemon"
    /\ \A c \in Call : resolved[c].session \in {"daemon", "none"}
    /\ \A g \in grants : g.session = "daemon"

Inv == /\ TypeOK /\ Queue /\ Replies /\ Phases /\ Fifo /\ Undecided /\ Truthful
       /\ Backed /\ Fresh /\ Ours /\ ConsentBehindExecution /\ EndLeavesNothing

-----------------------------------------------------------------------------
\* Queues.  Later is what becomes of a queue when mutations are asked for:
\* it goes on as before, and then with the new ones.
Mutations == [by : Caller, kind : {"pending", "decision", "settle"},
              call : Call \cup {Run},
              answer : AllAnswers \cup {"aborted", "none"}]

Extends(new, old) ==
  /\ DOMAIN old \subseteq DOMAIN new
  /\ \A i \in DOMAIN old : new[i] = old[i]
  /\ \A i \in DOMAIN new \ DOMAIN old : \A j \in DOMAIN old : j < i
  /\ \A i, j \in DOMAIN new \ DOMAIN old : i # j => new[i].by # new[j].by

LEMMA Appended ==
  ASSUME NEW S, NEW s \in Seq(S), NEW e \in S
  PROVE  /\ Append(s, e) \in Seq(S)
         /\ Extends(Append(s, e), s)
         /\ \A i \in DOMAIN Append(s, e) \ DOMAIN s : Append(s, e)[i] = e
         /\ \E i \in DOMAIN Append(s, e) : Append(s, e)[i] = e
<1>1. /\ Append(s, e) \in Seq(S) /\ Len(Append(s, e)) = Len(s) + 1
      /\ \A i \in 1..Len(s) : Append(s, e)[i] = s[i]
      /\ Append(s, e)[Len(s) + 1] = e
  BY AppendProperties
<1>2. Len(s) \in Nat /\ DOMAIN s = 1..Len(s) /\ DOMAIN Append(s, e) = 1..Len(s) + 1
  BY <1>1, LenProperties
<1>3. \A i \in DOMAIN Append(s, e) \ DOMAIN s : i = Len(s) + 1
  BY <1>2
<1> QED BY <1>1, <1>2, <1>3 DEF Extends

LEMMA Rest ==
  ASSUME NEW S, NEW s \in Seq(S), s # <<>>
  PROVE  /\ Tail(s) \in Seq(S) /\ Head(s) = s[1] /\ 1 \in DOMAIN s /\ Head(s) \in S
         /\ DOMAIN s \subseteq Nat /\ \A i \in DOMAIN s : 1 <= i
         /\ \A i \in DOMAIN Tail(s) : /\ i \in Nat /\ 1 <= i /\ i + 1 \in DOMAIN s
                                      /\ Tail(s)[i] = s[i + 1]
         /\ \A i \in DOMAIN s : i # 1 => i - 1 \in DOMAIN Tail(s)
<1>1. /\ Tail(s) \in Seq(S) /\ Len(Tail(s)) = Len(s) - 1 /\ Head(s) \in S
      /\ Head(s) = s[1] /\ \A i \in 1..Len(Tail(s)) : Tail(s)[i] = s[i + 1]
  BY HeadTailProperties
<1>2. Len(s) \in Nat /\ DOMAIN s = 1..Len(s) /\ DOMAIN Tail(s) = 1..Len(s) - 1
  BY <1>1, LenProperties
<1>3. Len(s) # 0
  BY EmptySeq
<1> QED BY <1>1, <1>2, <1>3

LEMMA Joined ==
  ASSUME NEW S, NEW s \in Seq(S), NEW t \in Seq(S)
  PROVE  /\ s \o t \in Seq(S) /\ Len(s) \in Nat /\ Len(t) \in Nat
         /\ DOMAIN s = 1..Len(s) /\ DOMAIN (s \o t) = 1..Len(s) + Len(t)
         /\ \A i \in 1..Len(s) : (s \o t)[i] = s[i]
         /\ \A i \in DOMAIN (s \o t) \ DOMAIN s :
              /\ i \in Nat /\ i > Len(s) /\ i - Len(s) \in 1..Len(t)
              /\ (s \o t)[i] = t[i - Len(s)]
<1>1. /\ s \o t \in Seq(S) /\ Len(s \o t) = Len(s) + Len(t)
      /\ \A i \in 1..Len(s) + Len(t) :
           (s \o t)[i] = IF i <= Len(s) THEN s[i] ELSE t[i - Len(s)]
  BY ConcatProperties
<1>2. Len(s) \in Nat /\ Len(t) \in Nat
  BY LenProperties
<1>3. DOMAIN s = 1..Len(s) /\ DOMAIN (s \o t) = 1..Len(s) + Len(t)
  BY <1>1, LenProperties
<1> QED BY <1>1, <1>2, <1>3

LEMMA AllAsked ==
  ASSUME NEW W, IsFiniteSet(W), NEW order \in SetToSeqs(W)
  PROVE  /\ order \in Seq(W)
         /\ \A i, j \in DOMAIN order : i # j => order[i] # order[j]
<1>1. Cardinality(W) \in Nat
  BY FS_CardinalityType
<1> QED BY <1>1 DEF SetToSeqs

\* What RequestAbort adds to the queue.
Aborts(order) ==
  [i \in DOMAIN order |-> Mutation(order[i], "decision", order[i], "aborted")]

LEMMA AbortsAsked ==
  ASSUME ApprovalGateAssumption, NEW q \in Seq(Mutations), NEW ready \in SUBSET Call,
         NEW order \in SetToSeqs(ready)
  PROVE  LET new == q \o Aborts(order) IN
         /\ new \in Seq(Mutations) /\ Extends(new, q)
         /\ \A i \in DOMAIN new \ DOMAIN q :
              \E c \in ready : new[i] = Mutation(c, "decision", c, "aborted")
<1> DEFINE t == Aborts(order)
<1>0. IsFiniteSet(ready)
  BY FS_Subset DEF ApprovalGateAssumption
<1>1. order \in Seq(ready) /\ \A i, j \in DOMAIN order : i # j => order[i] # order[j]
  BY <1>0, AllAsked
<1>2. Len(order) \in Nat /\ DOMAIN order = 1..Len(order)
      /\ \A i \in 1..Len(order) : order[i] \in ready
  BY <1>1, LenProperties, ElementOfSeq
<1>3. \A i \in 1..Len(order) :
        Mutation(order[i], "decision", order[i], "aborted") \in Mutations
  BY <1>2 DEF Mutation, Mutations, Caller
<1>4. t \in [1..Len(order) -> Mutations]
  BY <1>2, <1>3 DEF Aborts
<1>5. t \in Seq(Mutations) /\ Len(t) = Len(order)
  BY <1>2, <1>4, SeqDef, LenProperties
<1>6. \A i \in 1..Len(order) : t[i] = Mutation(order[i], "decision", order[i], "aborted")
  BY <1>2 DEF Aborts
<1> HIDE DEF t
<1> DEFINE r == q \o t
<1>8. /\ r \in Seq(Mutations) /\ Len(q) \in Nat
      /\ DOMAIN q = 1..Len(q) /\ DOMAIN r = 1..Len(q) + Len(order)
      /\ \A i \in 1..Len(q) : r[i] = q[i]
      /\ \A i \in DOMAIN r \ DOMAIN q :
           /\ i \in Nat /\ i > Len(q) /\ i - Len(q) \in 1..Len(order)
           /\ r[i] = t[i - Len(q)]
  <2>1. /\ r \in Seq(Mutations) /\ Len(q) \in Nat
        /\ DOMAIN q = 1..Len(q) /\ DOMAIN r = 1..Len(q) + Len(t)
        /\ \A i \in 1..Len(q) : r[i] = q[i]
        /\ \A i \in DOMAIN r \ DOMAIN q :
             /\ i \in Nat /\ i > Len(q) /\ i - Len(q) \in 1..Len(t)
             /\ r[i] = t[i - Len(q)]
    <3>1. t \in Seq(Mutations) BY <1>5
    <3> QED BY <3>1, Joined
  <2> HIDE DEF r
  <2> QED BY <1>5, <2>1
<1> HIDE DEF r
<1>9. ASSUME NEW i \in DOMAIN r \ DOMAIN q
      PROVE  /\ i \in Nat /\ i - Len(q) \in 1..Len(order)
             /\ r[i] = Mutation(order[i - Len(q)], "decision",
                                     order[i - Len(q)], "aborted")
             /\ \A j \in DOMAIN q : j < i
  BY <1>6, <1>8
<1>10. ASSUME NEW i \in DOMAIN r \ DOMAIN q,
              NEW j \in DOMAIN r \ DOMAIN q, i # j
       PROVE  r[i].by # r[j].by
  <2>1. i \in Nat /\ j \in Nat /\ Len(q) \in Nat
    BY <1>8
  <2>2. i - Len(q) # j - Len(q)
    BY <1>10, <2>1
  <2>3. order[i - Len(q)] # order[j - Len(q)]
    BY <1>1, <1>2, <1>9, <2>2
  <2>4. r[i].by = order[i - Len(q)] /\ r[j].by = order[j - Len(q)]
    BY <1>9 DEF Mutation
  <2> QED BY <2>3, <2>4
<1>11. Extends(r, q)
  BY <1>2, <1>8, <1>9, <1>10 DEF Extends
<1>12. \A i \in DOMAIN r \ DOMAIN q : \E c \in ready : r[i] = Mutation(c, "decision", c, "aborted")
  BY <1>2, <1>9
<1> QED BY <1>8, <1>11, <1>12 DEF r, t

LEMMA AskAppends ==
  ASSUME TypeOK, NEW by \in Caller, NEW kind \in {"pending", "decision", "settle"},
         NEW c \in Call \cup {Run}, NEW answer \in AllAnswers \cup {"aborted", "none"},
         Ask(by, kind, c, answer)
  PROVE  /\ asked' \in Seq(Mutations) /\ Extends(asked', asked)
         /\ \A i \in DOMAIN asked' \ DOMAIN asked :
              asked'[i] = Mutation(by, kind, c, answer)
         /\ \E i \in DOMAIN asked' : asked'[i] = Mutation(by, kind, c, answer)
<1>1. asked \in Seq(Mutations)
  BY DEF TypeOK, Mutations
<1>2. Mutation(by, kind, c, answer) \in Mutations
  BY DEF Mutation, Mutations
<1> QED BY <1>1, <1>2, Appended DEF Ask

Ready(W) == {c \in W : pc[c] = "waiting" /\ settling[c] = "no"}

LEMMA AbortAppends ==
  ASSUME ApprovalGateAssumption, TypeOK, NEW W \in SUBSET Call, NEW f \in BOOLEAN,
         RequestAbort(W, f)
  PROVE  /\ asked' \in Seq(Mutations) /\ Extends(asked', asked)
         /\ \A i \in DOMAIN asked' \ DOMAIN asked :
              \E c \in Ready(W) : asked'[i] = Mutation(c, "decision", c, "aborted")
<1>1. asked \in Seq(Mutations)
  BY DEF TypeOK, Mutations
<1>2. PICK order \in SetToSeqs(Ready(W)) :
        asked' = asked \o Aborts(order)
  BY DEF RequestAbort, Ready, Aborts
<1>3. Ready(W) \in SUBSET Call
  BY DEF Ready
<1>4. /\ asked' \in Seq(Mutations) /\ Extends(asked', asked)
      /\ \A i \in DOMAIN asked' \ DOMAIN asked :
           \E c \in Ready(W) : asked'[i] = Mutation(c, "decision", c, "aborted")
  BY <1>1, <1>2, <1>3, AbortsAsked
<1> QED BY <1>4

LEMMA HeadEntitled ==
  ASSUME TypeOK, Queue, asked # <<>>
  PROVE  /\ Tail(asked) \in Seq(Mutations) /\ Head(asked) \in Mutations
         /\ Head(asked) = asked[1] /\ 1 \in DOMAIN asked /\ Entitled(Head(asked))
         /\ Head(asked).kind # "settle" => Head(asked).call \in Call
         /\ \A i \in DOMAIN asked' : asked' = Tail(asked) =>
              /\ i \in Nat /\ 1 <= i /\ i + 1 \in DOMAIN asked
              /\ asked'[i] = asked[i + 1]
<1>1. asked \in Seq(Mutations)
  BY DEF TypeOK, Mutations
<1>2. /\ Tail(asked) \in Seq(Mutations) /\ Head(asked) \in Mutations
      /\ Head(asked) = asked[1] /\ 1 \in DOMAIN asked
      /\ \A i \in DOMAIN Tail(asked) : /\ i \in Nat /\ 1 <= i /\ i + 1 \in DOMAIN asked
                                       /\ Tail(asked)[i] = asked[i + 1]
  BY <1>1, Rest
<1>3. Entitled(Head(asked))
  BY <1>2 DEF Queue
<1>4. \A k \in Client : request[k].state = "asked" => request[k].call \in Call
  BY DEF TypeOK, NoRequest, Served
<1>5. Head(asked).kind # "settle" => Head(asked).call \in Call
  BY <1>3, <1>4 DEF Entitled, EntitledIn
<1> QED BY <1>2, <1>3, <1>5

-----------------------------------------------------------------------------
\* Types.
Codes == Verdict \cup {"none", "pending", "terminal", "conflict", "not_pending",
                       "error", "ok"}

LEMMA AnswerTyped ==
  ASSUME TypeOK, Queue, asked # <<>>, NEW code \in Codes, Answer(code)
  PROVE  asked' \in Seq(Mutations) /\ reply' \in [Caller -> Codes]
<1>1. Head(asked).by \in Caller
  BY HeadEntitled DEF Mutations
<1>2. reply \in [Caller -> Codes]
  BY DEF TypeOK, Codes
<1> QED BY <1>1, <1>2, HeadEntitled DEF Answer

LEMMA TypesRecordPending == TypeOK /\ Queue /\ RecordPending => TypeOK'
<1> SUFFICES ASSUME TypeOK, Queue, RecordPending PROVE TypeOK'
  OBVIOUS
<1>1. asked # <<>> /\ UNCHANGED OutsideStore /\ Head(asked).kind = "pending"
  BY DEF RecordPending, Turn
<1>2. Head(asked).call \in Call
  BY <1>1, HeadEntitled
<1>3. approval[Head(asked).call] \in Codes
  BY <1>2 DEF TypeOK, Codes
<1>4. \E code \in Codes : Answer(code)
  BY <1>3 DEF RecordPending, Codes, Only
<1>5. /\ approval' \in [Call -> Verdict \cup {"none", "pending"}]
      /\ UNCHANGED <<status, savedMode>>
  BY DEF RecordPending, TypeOK, Only, durableVars
<1>6. asked' \in Seq(Mutations) /\ reply' \in [Caller -> Codes]
  BY <1>1, <1>4, AnswerTyped
<1> QED BY <1>1, <1>5, <1>6 DEF TypeOK, OutsideStore, gateVars, entryVars, runVars,
        historyVars, Mutations, Codes

LEMMA TypesRecordDecision == TypeOK /\ Queue /\ RecordDecision => TypeOK'
<1> SUFFICES ASSUME TypeOK, Queue, RecordDecision PROVE TypeOK'
  OBVIOUS
<1>1. asked # <<>> /\ UNCHANGED OutsideStore /\ Head(asked).kind = "decision"
  BY DEF RecordDecision, Turn
<1>2. Head(asked).call \in Call
  BY <1>1, HeadEntitled
<1>3. approval[Head(asked).call] \in Codes
  BY <1>2 DEF TypeOK, Codes
<1>4. Stored(Head(asked).answer) \in Verdict
  <2>1. \A k \in Client : request[k].state = "asked" => request[k].answer \in AllAnswers
    BY DEF TypeOK, NoRequest, Served
  <2>2. Head(asked).answer \in AllAnswers \cup {"aborted"}
    BY <1>1, <2>1, HeadEntitled DEF Entitled, EntitledIn
  <2> QED BY <2>2 DEF Stored, ScopeOf, AllAnswers, Verdict, Approving
<1>5. \E code \in Codes : Answer(code)
  BY <1>3, <1>4 DEF RecordDecision, Codes, Only
<1>6. /\ approval' \in [Call -> Verdict \cup {"none", "pending"}]
      /\ savedMode' \in {"basic", "full"} /\ UNCHANGED status
  BY <1>4 DEF RecordDecision, TypeOK, Only, durableVars
<1>7. asked' \in Seq(Mutations) /\ reply' \in [Caller -> Codes]
  BY <1>1, <1>5, AnswerTyped
<1> QED BY <1>1, <1>6, <1>7 DEF TypeOK, OutsideStore, gateVars, entryVars, runVars,
        historyVars, Mutations, Codes

LEMMA TypesSettleRun == TypeOK /\ Queue /\ SettleRun => TypeOK'
<1> SUFFICES ASSUME TypeOK, Queue, SettleRun PROVE TypeOK'
  OBVIOUS
<1>1. asked # <<>> /\ UNCHANGED OutsideStore /\ Head(asked).kind = "settle"
  BY DEF SettleRun, Turn
<1>2. \E code \in Codes : Answer(code)
  BY DEF SettleRun, Codes, Only
<1>3. asked' \in Seq(Mutations) /\ reply' \in [Caller -> Codes]
  BY <1>1, <1>2, AnswerTyped
<1>4. UNCHANGED <<approval, savedMode>> /\ status' \in {"running", "terminal"}
  BY DEF SettleRun, Only, durableVars, TypeOK
<1> QED BY <1>1, <1>3, <1>4 DEF TypeOK, OutsideStore, gateVars, entryVars, runVars,
        historyVars, Mutations, Codes

Steps == {"idle", "preflight", "recording", "waiting", "approved", "denied",
          "aborted", "failed", "executing", "done"}
Keeping == [session : Session, verdict : Verdict, mode : {"none", "basic", "full"}]

LEMMA ResolveTyped ==
  ASSUME TypeOK, NEW c \in Call, NEW v \in Verdict, NEW m \in {"none", "basic", "full"},
         ResolveOnce(c, v, m)
  PROVE  /\ pc' \in [Call -> Steps] /\ heard' \subseteq Call \X Verdict
         /\ resolved' \in [Call -> Keeping \cup {NoResolved}]
<1>1. (IF v \in Approving THEN "approved" ELSE v) \in Steps
  BY DEF Verdict, Steps, Approving
<1>2. pc' \in [Call -> Steps]
  BY <1>1 DEF ResolveOnce, TypeOK, Steps
<1>3. [session |-> session[c], verdict |-> v, mode |-> m] \in Keeping
  BY DEF Keeping, TypeOK
<1>4. resolved' \in [Call -> Keeping \cup {NoResolved}]
  BY <1>3 DEF ResolveOnce, TypeOK, Keeping
<1> QED BY <1>2, <1>4 DEF ResolveOnce, TypeOK

LEMMA RegisteredTyped ==
  ASSUME TypeOK, NEW c \in Call, NEW v \in Approving
  PROVE  Registered(c, v) \subseteq Grant
<1>1. v # "once" => [session |-> session[c], scope |-> v, level |-> Level(c)] \in Grant
  BY DEF TypeOK, Grant, Level, Approving
<1> QED BY <1>1 DEF Registered, TypeOK

LEMMA SettleTyped ==
  ASSUME TypeOK, NEW c \in Call, NEW v \in Verdict, SettleDurable(c, v)
  PROVE  /\ pc' \in [Call -> Steps] /\ heard' \subseteq Call \X Verdict
         /\ resolved' \in [Call -> Keeping \cup {NoResolved}]
         /\ grants' \subseteq Grant
<1>1. (IF v \in Approving THEN entryMode[c] ELSE "none") \in {"none", "basic", "full"}
  BY DEF TypeOK
<1>2. grants' \subseteq Grant
  BY RegisteredTyped DEF SettleDurable, TypeOK
<1> QED BY <1>1, <1>2, ResolveTyped DEF SettleDurable

LEMMA RejectTyped ==
  ASSUME TypeOK, NEW c \in Call, RejectOnce(c)
  PROVE  pc' \in [Call -> Steps] /\ UNCHANGED <<resolved, heard>>
BY DEF TypeOK, RejectOnce, Steps

LEMMA ConsumedTyped ==
  ASSUME TypeOK, NEW a \in Caller, Consumed(a)
  PROVE  reply' \in [Caller -> Codes]
BY DEF TypeOK, Consumed, Codes

LEMMA TypesRecorded ==
  ASSUME TypeOK, NEW c \in Call, Recorded(c)
  PROVE  TypeOK'
<1>0. c \in Caller /\ Consumed(c) /\ asked \in Seq(Mutations) /\ pc \in [Call -> Steps]
      /\ resolved \in [Call -> Keeping \cup {NoResolved}]
  BY DEF Caller, Recorded, TypeOK, Mutations, Steps, Keeping
<1>1. reply' \in [Caller -> Codes]
  BY <1>0, ConsumedTyped
<1>2. asked' \in Seq(Mutations)
  BY <1>0, AskAppends DEF Recorded
<1>3. settling' \in [Call -> {"no", "deciding", "rereading"}]
  BY DEF Recorded, TypeOK
<1>4. /\ pc' \in [Call -> Steps] /\ heard' \subseteq Call \X Verdict
      /\ resolved' \in [Call -> Keeping \cup {NoResolved}] /\ grants' \subseteq Grant
  <2>1. CASE reply[c] \in Verdict /\ SettleDurable(c, reply[c])
    BY <2>1, SettleTyped
  <2>2. CASE pc' = [pc EXCEPT ![c] = "waiting"] /\ UNCHANGED <<resolved, grants, heard>>
    BY <1>0, <2>2 DEF TypeOK, Steps
  <2>3. CASE ResolveOnce(c, "aborted", "none") /\ UNCHANGED grants
    BY <2>3, ResolveTyped DEF Verdict, TypeOK
  <2>4. CASE RejectOnce(c) /\ UNCHANGED grants
    BY <1>0, <2>4, RejectTyped DEF TypeOK
  <2> QED BY <2>1, <2>2, <2>3, <2>4 DEF Recorded
<1>5. UNCHANGED <<durableVars, session, entryMode, abortReq, forget, runVars,
                  request, crashes, ranBy>>
  BY DEF Recorded
<1> QED BY <1>1, <1>2, <1>3, <1>4, <1>5 DEF TypeOK, durableVars, runVars,
        Mutations, Codes, Steps, Keeping

LEMMA TypesAbortSettled ==
  ASSUME TypeOK, NEW c \in Call, AbortSettled(c)
  PROVE  TypeOK'
<1>0. c \in Caller /\ Consumed(c) /\ asked \in Seq(Mutations) /\ pc \in [Call -> Steps]
      /\ resolved \in [Call -> Keeping \cup {NoResolved}]
  BY DEF Caller, AbortSettled, TypeOK, Mutations, Steps, Keeping
<1>1. reply' \in [Caller -> Codes]
  BY <1>0, ConsumedTyped
<1>2. asked' \in Seq(Mutations)
  BY <1>0, AskAppends DEF AbortSettled, OnConflict
<1>3. settling' \in [Call -> {"no", "deciding", "rereading"}]
  BY DEF AbortSettled, OnConflict, TypeOK
<1>4. /\ pc' \in [Call -> Steps] /\ heard' \subseteq Call \X Verdict
      /\ resolved' \in [Call -> Keeping \cup {NoResolved}] /\ grants' \subseteq Grant
  <2>1. CASE reply[c] \in Verdict /\ SettleDurable(c, reply[c])
    BY <2>1, SettleTyped
  <2>2. CASE UNCHANGED <<pc, resolved, grants, heard>>
    BY <1>0, <2>2 DEF TypeOK, Steps
  <2>3. CASE ResolveOnce(c, "aborted", "none") /\ UNCHANGED grants
    BY <2>3, ResolveTyped DEF Verdict, TypeOK
  <2>4. CASE RejectOnce(c) /\ UNCHANGED grants
    BY <1>0, <2>4, RejectTyped DEF TypeOK
  <2> QED BY <2>1, <2>2, <2>3, <2>4 DEF AbortSettled, OnConflict
<1>5. UNCHANGED <<durableVars, session, entryMode, abortReq, forget, runVars,
                  request, crashes, ranBy>>
  BY DEF AbortSettled
<1> QED BY <1>1, <1>2, <1>3, <1>4, <1>5 DEF TypeOK, durableVars, runVars,
        Mutations, Codes, Steps, Keeping

Requests == [call : Call, answer : AllAnswers, state : {"asked"}]
            \cup {NoRequest, Served}

LEMMA ToldTyped ==
  ASSUME TypeOK, NEW k \in Client, NEW c \in Call, NEW a \in AllAnswers, NEW what,
         Told(k, c, a, what)
  PROVE  request' \in [Client -> Requests] /\ heard' \subseteq Call \X Verdict
<1>1. ScopeOf(a) \in Verdict
  BY DEF ScopeOf, AllAnswers, Verdict, Approving
<1> QED BY <1>1 DEF Told, TypeOK, Requests

LEMMA TypesApprove ==
  ASSUME ApprovalGateAssumption, TypeOK,
         NEW k \in Client, NEW c \in Call, NEW a \in Answers, Approve(k, c, a)
  PROVE  TypeOK'
<1>0. k \in Caller /\ a \in AllAnswers /\ asked \in Seq(Mutations)
  BY DEF Caller, ApprovalGateAssumption, TypeOK, Mutations
<1>1. asked' \in Seq(Mutations)
  BY <1>0, AskAppends DEF Approve
<1>2. request' \in [Client -> Requests] /\ heard' \subseteq Call \X Verdict
  <2>1. CASE \E what : Told(k, c, a, what)
    BY <1>0, <2>1, ToldTyped
  <2>2. CASE request' = [request EXCEPT ![k] =
                           [call |-> c, answer |-> a, state |-> "asked"]]
             /\ UNCHANGED heard
    BY <1>0, <2>2 DEF TypeOK, Requests
  <2> QED BY <2>1, <2>2 DEF Approve
<1>3. UNCHANGED <<durableVars, reply, gateVars, runVars, crashes, ranBy>>
  BY DEF Approve
<1> QED BY <1>1, <1>2, <1>3 DEF TypeOK, durableVars, runVars, gateVars, entryVars,
        Mutations, Requests

LEMMA TypesAnswered ==
  ASSUME TypeOK, NEW k \in Client, Answered(k)
  PROVE  TypeOK'
<1> DEFINE c == request[k].call
           a == request[k].answer
<1>0. k \in Caller /\ Consumed(k) /\ c \in Call /\ a \in AllAnswers
      /\ ScopeOf(a) \in Verdict /\ pc \in [Call -> Steps]
      /\ resolved \in [Call -> Keeping \cup {NoResolved}]
  <2>1. request[k] \in [call : Call, answer : AllAnswers, state : {"asked"}]
    BY DEF Answered, TypeOK, NoRequest, Served
  <2> QED BY <2>1 DEF Caller, Answered, TypeOK, Steps, Keeping, ScopeOf, AllAnswers,
             Verdict, Approving
<1> HIDE DEF c, a
<1>1. reply' \in [Caller -> Codes]
  BY <1>0, ConsumedTyped
<1>2. CASE \E what : Told(k, c, a, what) /\ UNCHANGED <<pc, resolved, grants, mode, entryMode>>
  <2>1. request' \in [Client -> Requests] /\ heard' \subseteq Call \X Verdict
    BY <1>0, <1>2, ToldTyped
  <2> QED BY <1>1, <1>2, <2>1 DEF Answered, TypeOK, durableVars, Codes, Requests
<1>3. CASE /\ request' = [request EXCEPT ![k] = Served]
           /\ mode' = IF a = "full" THEN "full" ELSE mode
           /\ entryMode' = IF a = "full" THEN [entryMode EXCEPT ![c] = "full"]
                           ELSE entryMode
           /\ grants' = IF a = "denied" THEN grants ELSE Registered(c, ScopeOf(a))
           /\ ResolveOnce(c, ScopeOf(a), IF a = "full" THEN "full" ELSE "none")
  <2>1. (IF a = "full" THEN "full" ELSE "none") \in {"none", "basic", "full"}
    OBVIOUS
  <2>2. /\ pc' \in [Call -> Steps] /\ heard' \subseteq Call \X Verdict
        /\ resolved' \in [Call -> Keeping \cup {NoResolved}]
    BY <1>0, <1>3, <2>1, ResolveTyped
  <2>3. grants' \subseteq Grant
    <3>1. a # "denied" => ScopeOf(a) \in Approving
      BY <1>0 DEF ScopeOf, AllAnswers, Approving
    <3> QED BY <1>0, <1>3, <3>1, RegisteredTyped DEF TypeOK
  <2>4. request' \in [Client -> Requests]
    BY <1>3 DEF TypeOK, Requests
  <2>5. mode' \in {"basic", "full"} /\ entryMode' \in [Call -> {"basic", "full"}]
    BY <1>0, <1>3 DEF TypeOK
  <2> QED BY <1>1, <2>2, <2>3, <2>4, <2>5 DEF Answered, TypeOK, durableVars, Codes,
             Requests, Keeping, Steps
<1> QED BY <1>2, <1>3 DEF Answered, c, a

LEMMA ExecuteTyped ==
  ASSUME TypeOK, NEW c \in Call, NEW why \in {"approval", "grant", "mode"},
         Execute(c, why)
  PROVE  /\ pc' \in [Call -> Steps] /\ cell' \in BOOLEAN
         /\ ranBy' \in [Call -> {"none", "approval", "grant", "mode"}]
         /\ runStatus' \in {"running", "approval_pending", "over"}
<1>1. cell' \in BOOLEAN
  BY DEF Execute, TypeOK
<1>2. pc' \in [Call -> Steps]
  BY DEF Execute, TypeOK, Steps
<1>3. ranBy' \in [Call -> {"none", "approval", "grant", "mode"}]
  BY DEF Execute, TypeOK
<1>4. runStatus' \in {"running", "approval_pending", "over"}
  BY DEF Execute, TypeOK
<1> QED BY <1>1, <1>2, <1>3, <1>4

LEMMA TypesCalls ==
  ASSUME TypeOK, NEW c \in Call,
         Check(c) \/ Wait(c) \/ Revalidate(c) \/ GivesUp(c) \/ Finish(c)
  PROVE  TypeOK'
<1>0. pc \in [Call -> Steps] /\ asked \in Seq(Mutations)
  BY DEF TypeOK, Steps, Mutations
<1> USE DEF CallFrame, durableVars, entryVars
<1>1. CASE Check(c)
  <2>1. /\ pc' \in [Call -> Steps] /\ cell' \in BOOLEAN
        /\ ranBy' \in [Call -> {"none", "approval", "grant", "mode"}]
        /\ runStatus' \in {"running", "approval_pending", "over"}
    BY <1>0, <1>1, ExecuteTyped DEF Check, TypeOK, Steps
  <2> QED BY <1>1, <2>1 DEF Check, TypeOK, Steps
<1>2. CASE Wait(c)
  <2>1. asked' \in Seq(Mutations)
    BY <1>0, <1>2, AskAppends DEF Wait, Caller
  <2>2. pc' \in [Call -> Steps]
    BY <1>0, <1>2 DEF Wait, Steps
  <2>3. /\ session' \in [Call -> Session] /\ entryMode' \in [Call -> {"basic", "full"}]
        /\ settling' = settling
        /\ runStatus' \in {"running", "approval_pending", "over"}
    <3>1. /\ session \in [Call -> Session] /\ entryMode \in [Call -> {"basic", "full"}]
          /\ context \in Session /\ mode \in {"basic", "full"}
          /\ runStatus \in {"running", "approval_pending", "over"}
      BY DEF TypeOK
    <3>2. \/ UNCHANGED <<session, entryMode, settling, runStatus>>
          \/ /\ session' = [session EXCEPT ![c] = context] /\ UNCHANGED settling
             /\ entryMode' = [entryMode EXCEPT ![c] = mode]
             /\ runStatus' = IF c \in Callback THEN runStatus ELSE "approval_pending"
      BY <1>2 DEF Wait
    <3> QED BY <3>1, <3>2
  <2>5. abortReq' \in [Call -> BOOLEAN]
    <3>1. cancelled \in BOOLEAN /\ abortReq \in [Call -> BOOLEAN]
      BY DEF TypeOK
    <3> QED BY <1>2, <3>1 DEF Wait
  <2>6. forget' \in [Call -> BOOLEAN]
    <3>1. forget \in [Call -> BOOLEAN]
      BY DEF TypeOK
    <3> QED BY <1>2, <3>1 DEF Wait
  <2>4. UNCHANGED <<CallFrame, ends, cell, ranBy>>
    BY <1>2 DEF Wait
  <2> QED BY <2>1, <2>2, <2>3, <2>4, <2>5, <2>6 DEF TypeOK, Steps, Mutations
<1>3. CASE Revalidate(c)
  <2>1. /\ pc' \in [Call -> Steps] /\ cell' \in BOOLEAN
        /\ ranBy' \in [Call -> {"none", "approval", "grant", "mode"}]
        /\ runStatus' \in {"running", "approval_pending", "over"}
    BY <1>0, <1>3, ExecuteTyped DEF Revalidate, TypeOK, Steps
  <2> QED BY <1>3, <2>1 DEF Revalidate, TypeOK, Steps
<1>4. CASE GivesUp(c)
  BY <1>4 DEF GivesUp, TypeOK
<1>5. CASE Finish(c)
  BY <1>5 DEF Finish, TypeOK
<1> QED BY <1>1, <1>2, <1>3, <1>4, <1>5

LEMMA AbortTyped ==
  ASSUME ApprovalGateAssumption, TypeOK, NEW W \in SUBSET Call, NEW f \in BOOLEAN,
         RequestAbort(W, f)
  PROVE  /\ asked' \in Seq(Mutations)
         /\ abortReq' \in [Call -> BOOLEAN] /\ forget' \in [Call -> BOOLEAN]
         /\ settling' \in [Call -> {"no", "deciding", "rereading"}]
<1>1. asked' \in Seq(Mutations)
  BY AbortAppends
<1>2. abortReq' \in [Call -> BOOLEAN]
  BY DEF RequestAbort
<1>3. forget' \in [Call -> BOOLEAN]
  BY DEF RequestAbort
<1>4. settling' \in [Call -> {"no", "deciding", "rereading"}]
  BY DEF RequestAbort, TypeOK
<1> QED BY <1>1, <1>2, <1>3, <1>4

LEMMA TypesRun ==
  ASSUME ApprovalGateAssumption, TypeOK,
         \/ Cancel \/ EndRun \/ AskSettle \/ Settled \/ ClearRun \/ Bind
         \/ \E c \in Call : CallbackStops(c)
  PROVE  TypeOK'
<1> USE DEF durableVars, historyVars, RunFrame
<1>1. CASE Cancel
  <2>1. {c \in Call : Pending(c)} \in SUBSET Call
    OBVIOUS
  <2>2. /\ asked' \in Seq(Mutations)
        /\ abortReq' \in [Call -> BOOLEAN] /\ forget' \in [Call -> BOOLEAN]
        /\ settling' \in [Call -> {"no", "deciding", "rereading"}]
    BY <1>1, <2>1, AbortTyped DEF Cancel
  <2> QED BY <1>1, <2>2 DEF Cancel, TypeOK, Mutations
<1>2. ASSUME NEW c \in Call, CallbackStops(c) PROVE TypeOK'
  <2>2. /\ asked' \in Seq(Mutations)
        /\ abortReq' \in [Call -> BOOLEAN] /\ forget' \in [Call -> BOOLEAN]
        /\ settling' \in [Call -> {"no", "deciding", "rereading"}]
    BY <1>2, AbortTyped DEF CallbackStops
  <2> QED BY <1>2, <2>2 DEF CallbackStops, TypeOK, Mutations, runVars
<1>3. CASE EndRun
  BY <1>3 DEF EndRun, TypeOK
<1>4. CASE AskSettle
  <2>1. asked' \in Seq(Mutations)
    BY <1>4, AskAppends DEF AskSettle, Caller
  <2> QED BY <1>4, <2>1 DEF AskSettle, TypeOK, Mutations
<1>5. CASE Settled
  <2>1. reply' \in [Caller -> Codes]
    BY <1>5, ConsumedTyped DEF Settled, Caller
  <2> QED BY <1>5, <2>1 DEF Settled, TypeOK, Codes, gateVars, entryVars
<1>6. CASE ClearRun
  <2>1. {c \in Call : Pending(c) /\ session[c] = owner} \in SUBSET Call
    OBVIOUS
  <2>2. /\ asked' \in Seq(Mutations)
        /\ abortReq' \in [Call -> BOOLEAN] /\ forget' \in [Call -> BOOLEAN]
        /\ settling' \in [Call -> {"no", "deciding", "rereading"}]
    BY <1>6, <2>1, AbortTyped DEF ClearRun, Cleared
  <2>3. resolved' \in [Call -> Keeping \cup {NoResolved}] /\ grants' \subseteq Grant
    BY <1>6 DEF ClearRun, Cleared, TypeOK, Keeping
  <2> QED BY <1>6, <2>2, <2>3 DEF ClearRun, TypeOK, Mutations, Keeping
<1>7. CASE Bind
  <2>1. grants' \subseteq Grant
    <3>1. \A g \in Grant : [g EXCEPT !.session = "daemon"] \in Grant
      BY DEF Grant, Session
    <3> QED BY <1>7, <3>1 DEF Bind, TypeOK
  <2>2. session' \in [Call -> Session] /\ context' \in Session /\ bound' \in BOOLEAN
    BY <1>7 DEF Bind, TypeOK, Session
  <2> QED BY <1>7, <2>1, <2>2 DEF Bind, TypeOK, callVars
<1> QED BY <1>1, <1>2, <1>3, <1>4, <1>5, <1>6, <1>7

LEMMA TypesCrash ==
  ASSUME ApprovalGateAssumption, TypeOK, Crash PROVE TypeOK'
<1>1. asked' \in Seq(Mutations) /\ reply' \in [Caller -> Codes]
  BY DEF Crash, Codes
<1>2. pc' \in [Call -> Steps]
  <2>0. pc \in [Call -> Steps]
    BY DEF TypeOK, Steps
  <2> QED BY <2>0 DEF Crash, Steps
<1>3. /\ session' \in [Call -> Session] /\ entryMode' \in [Call -> {"basic", "full"}]
      /\ abortReq' \in [Call -> BOOLEAN] /\ forget' \in [Call -> BOOLEAN]
      /\ settling' \in [Call -> {"no", "deciding", "rereading"}]
      /\ context' \in Session /\ owner' \in Session
  BY DEF Crash, Session
<1>4. resolved' \in [Call -> Keeping \cup {NoResolved}] /\ grants' \subseteq Grant
      /\ cancelled' \in BOOLEAN /\ cell' \in BOOLEAN /\ bound' \in BOOLEAN
  BY DEF Crash
<1>5. request' \in [Client -> Requests]
  BY DEF Crash, TypeOK, Requests
<1>6. crashes' \in 0..MaxCrashes /\ remade' \subseteq Call \ Callback
  BY DEF Crash, TypeOK, ApprovalGateAssumption
<1>7. /\ mode' \in {"basic", "full"} /\ run' = "live" /\ runStatus' = "running"
      /\ ends' = "not" /\ UNCHANGED <<durableVars, historyVars>>
  BY DEF Crash, TypeOK
<1> QED BY <1>1, <1>2, <1>3, <1>4, <1>5, <1>6, <1>7 DEF TypeOK, durableVars,
        historyVars, Mutations, Codes, Steps, Keeping, Requests

LEMMA TypeStep ==
  ASSUME ApprovalGateAssumption, TypeOK, Queue, Next PROVE TypeOK'
<1>1. CASE Store
  BY <1>1, TypesRecordPending, TypesRecordDecision, TypesSettleRun DEF Store
<1>2. CASE Resume
  BY <1>2, TypesRecorded, TypesAbortSettled, TypesAnswered, TypesRun DEF Resume
<1>3. CASE \E k \in Client, c \in Call, a \in Answers : Approve(k, c, a)
  BY <1>3, TypesApprove
<1>4. CASE \E c \in Call : \/ Check(c) \/ Wait(c) \/ Revalidate(c) \/ GivesUp(c)
                           \/ Finish(c) \/ CallbackStops(c)
  BY <1>4, TypesCalls, TypesRun
<1>5. CASE Cancel \/ EndRun \/ AskSettle \/ ClearRun \/ Bind \/ Crash
  BY <1>5, TypesRun, TypesCrash
<1> QED BY <1>1, <1>2, <1>3, <1>4, <1>5 DEF Next

-----------------------------------------------------------------------------
\* Queue.
LEMMA Distinct ==
  ASSUME ApprovalGateAssumption
  PROVE  /\ \A c \in Call : c \notin Client /\ c # Run /\ c \in Caller
         /\ \A k \in Client : k \notin Call /\ k # Run /\ k \in Caller
         /\ Run \notin Call /\ Run \notin Client /\ Run \in Caller
BY DEF ApprovalGateAssumption, Caller

Absent(a) == \A j \in DOMAIN asked : asked[j].by # a

LEMMA AbsentCall ==
  ASSUME ApprovalGateAssumption, Queue, NEW c \in Call,
         pc[c] # "recording", settling[c] = "no"
  PROVE  Absent(c)
BY Distinct DEF Absent, Queue, Entitled, EntitledIn

LEMMA AbsentClient ==
  ASSUME ApprovalGateAssumption, Queue, NEW k \in Client, request[k].state # "asked"
  PROVE  Absent(k)
BY Distinct DEF Absent, Queue, Entitled, EntitledIn

LEMMA AbsentRun ==
  ASSUME ApprovalGateAssumption, Queue, run # "settling"
  PROVE  Absent(Run)
BY Distinct DEF Absent, Queue, Entitled, EntitledIn

LEMMA AbsentReplied ==
  ASSUME Queue, NEW a, reply[a] # "none"
  PROVE  Absent(a)
BY DEF Absent, Queue

\* Mutations are asked for by callers that wait for nothing.
LEMMA QueueGrows ==
  ASSUME Queue, Extends(asked', asked),
         \A i \in DOMAIN asked : EntitledIn(asked[i], pc', settling', request', run'),
         \A i \in DOMAIN asked : reply'[asked[i].by] = "none",
         \A i \in DOMAIN asked' \ DOMAIN asked :
           /\ EntitledIn(asked'[i], pc', settling', request', run')
           /\ reply'[asked'[i].by] = "none" /\ Absent(asked'[i].by)
  PROVE  Queue'
<1>1. \A i \in DOMAIN asked' : EntitledIn(asked'[i], pc', settling', request', run')
  BY DEF Extends
<1>2. \A i \in DOMAIN asked' : reply'[asked'[i].by] = "none"
  BY DEF Extends
<1>3. ASSUME NEW i \in DOMAIN asked', NEW j \in DOMAIN asked', i # j
      PROVE  asked'[i].by # asked'[j].by
  <2>1. CASE i \in DOMAIN asked /\ j \in DOMAIN asked
    BY <1>3, <2>1 DEF Extends, Queue
  <2>2. CASE i \in DOMAIN asked /\ j \notin DOMAIN asked
    BY <2>2 DEF Extends, Absent
  <2>3. CASE i \notin DOMAIN asked /\ j \in DOMAIN asked
    BY <2>3 DEF Extends, Absent
  <2>4. CASE i \notin DOMAIN asked /\ j \notin DOMAIN asked
    BY <1>3, <2>4 DEF Extends
  <2> QED BY <2>1, <2>2, <2>3, <2>4
<1> QED BY <1>1, <1>2, <1>3 DEF Queue, Entitled

LEMMA QueueSame ==
  ASSUME Queue, UNCHANGED asked,
         \A i \in DOMAIN asked : EntitledIn(asked[i], pc', settling', request', run'),
         \A i \in DOMAIN asked : reply'[asked[i].by] = "none"
  PROVE  Queue'
BY DEF Queue, Entitled

LEMMA QueueServes ==
  ASSUME TypeOK, Queue, NEW kind, Turn(kind), NEW code, Answer(code),
         UNCHANGED <<pc, settling, request, run>>
  PROVE  /\ Queue'
         /\ reply' = [reply EXCEPT ![Head(asked).by] = code]
         /\ Head(asked).by \in Caller
<1>0. asked # <<>>
  BY DEF Turn
<1>1. /\ \A i \in DOMAIN asked' : i \in Nat /\ 1 <= i /\ i + 1 \in DOMAIN asked
                                   /\ asked'[i] = asked[i + 1]
      /\ 1 \in DOMAIN asked /\ Head(asked) = asked[1] /\ Head(asked) \in Mutations
  BY <1>0, HeadEntitled DEF Answer
<1>2. \A i \in DOMAIN asked' : Entitled(asked'[i])
  BY <1>1 DEF Queue
<1>3. \A i, j \in DOMAIN asked' : i # j => asked'[i].by # asked'[j].by
  BY <1>1 DEF Queue
<1>4. ASSUME NEW i \in DOMAIN asked' PROVE reply'[asked'[i].by] = "none"
  <2>1. i + 1 # 1
    BY <1>1
  <2>2. asked'[i].by # Head(asked).by
    BY <1>1, <2>1 DEF Queue
  <2>3. reply[asked'[i].by] = "none"
    BY <1>1 DEF Queue
  <2> QED BY <2>2, <2>3, <1>1 DEF Answer, TypeOK
<1>5. \A i \in DOMAIN asked' : EntitledIn(asked'[i], pc', settling', request', run')
  BY <1>2 DEF Entitled
<1> QED BY <1>1, <1>3, <1>4, <1>5 DEF Queue, Entitled, Answer, Mutations

LEMMA ExtendsItself == Extends(asked, asked)
BY DEF Extends

\* The change of a mutation's caller is what its entitlement depends on.
LEMMA StaysEntitled ==
  ASSUME NEW m, Entitled(m),
         m.by \in Call =>
           /\ settling'[m.by] = settling[m.by]
           /\ pc'[m.by] = pc[m.by] \/ (pc[m.by] # "recording" /\ settling[m.by] # "no"),
         m.by \in Client => request'[m.by] = request[m.by],
         run = "settling" => run' = "settling" \/ m.by # Run
  PROVE  EntitledIn(m, pc', settling', request', run')
BY DEF Entitled, EntitledIn

LEMMA QueueStore ==
  ASSUME TypeOK, Queue, Store
  PROVE  /\ Queue'
         /\ \A a \in Caller : reply[a] = "none"
         /\ \E code \in Codes : /\ reply' = [reply EXCEPT ![Head(asked).by] = code]
                                /\ Answer(code)
         /\ Head(asked).by \in Caller /\ UNCHANGED OutsideStore /\ asked # <<>>
<1>1. UNCHANGED OutsideStore
  BY DEF Store, RecordPending, RecordDecision, SettleRun
<1>2. PICK kind : Turn(kind)
  BY DEF Store, RecordPending, RecordDecision, SettleRun
<1>3. asked # <<>> /\ \A a \in Caller : reply[a] = "none"
  BY <1>2 DEF Turn
<1>4. PICK code : Answer(code)
  BY DEF Store, RecordPending, RecordDecision, SettleRun, Only
<1>5. UNCHANGED <<pc, settling, request, run>>
  BY <1>1 DEF OutsideStore, gateVars, entryVars, runVars
<1>6. /\ Queue' /\ reply' = [reply EXCEPT ![Head(asked).by] = code]
      /\ Head(asked).by \in Caller
  BY <1>2, <1>4, <1>5, QueueServes
<1>7. TypeOK'
  BY TypesRecordPending, TypesRecordDecision, TypesSettleRun DEF Store
<1>8. code \in Codes
  <2>1. reply'[Head(asked).by] = code
    BY <1>6 DEF TypeOK
  <2> QED BY <1>6, <1>7, <2>1 DEF TypeOK, Codes
<1> QED BY <1>1, <1>3, <1>4, <1>6, <1>8

LEMMA QueueRecorded ==
  ASSUME ApprovalGateAssumption, TypeOK, Queue, Replies, NEW c \in Call, Recorded(c)
  PROVE  Queue'
<1>1. /\ reply[c] # "none" /\ reply' = [reply EXCEPT ![c] = "none"] /\ c \in Caller
      /\ UNCHANGED <<request, run>>
  BY Distinct DEF Recorded, Consumed, runVars
<1>2. Absent(c)
  BY <1>1, AbsentReplied
<1>3. \A d \in Call : d # c => pc'[d] = pc[d] /\ settling'[d] = settling[d]
  BY DEF Recorded, SettleDurable, ResolveOnce, RejectOnce, TypeOK
<1>4. \A i \in DOMAIN asked : EntitledIn(asked[i], pc', settling', request', run')
  BY <1>1, <1>2, <1>3, StaysEntitled DEF Absent, Queue
<1>5. \A i \in DOMAIN asked : reply'[asked[i].by] = "none"
  BY <1>1, <1>2 DEF Absent, Queue, TypeOK
<1>6. CASE UNCHANGED asked
  BY <1>4, <1>5, <1>6, QueueSame
<1>7. CASE Ask(c, "decision", c, "aborted") /\ settling' = [settling EXCEPT ![c] = "deciding"]
  <2>1. /\ Extends(asked', asked)
        /\ \A i \in DOMAIN asked' \ DOMAIN asked :
             asked'[i] = Mutation(c, "decision", c, "aborted")
    BY <1>1, <1>7, AskAppends
  <2>2. EntitledIn(Mutation(c, "decision", c, "aborted"), pc', settling', request', run')
    BY <1>7 DEF EntitledIn, Mutation, TypeOK
  <2>3. reply'[c] = "none" /\ Mutation(c, "decision", c, "aborted").by = c
    BY <1>1 DEF Mutation, TypeOK
  <2> QED BY <1>2, <1>4, <1>5, <2>1, <2>2, <2>3, QueueGrows
<1> QED BY <1>6, <1>7 DEF Recorded

LEMMA QueueAbortSettled ==
  ASSUME ApprovalGateAssumption, TypeOK, Queue, Replies, NEW c \in Call, AbortSettled(c)
  PROVE  Queue'
<1>1. /\ reply[c] # "none" /\ reply' = [reply EXCEPT ![c] = "none"] /\ c \in Caller
      /\ UNCHANGED <<request, run>>
  BY Distinct DEF AbortSettled, Consumed, runVars
<1>2. Absent(c)
  BY <1>1, AbsentReplied
<1>3. \A d \in Call : d # c => pc'[d] = pc[d] /\ settling'[d] = settling[d]
  BY DEF AbortSettled, SettleDurable, ResolveOnce, RejectOnce, OnConflict, TypeOK
<1>4. \A i \in DOMAIN asked : EntitledIn(asked[i], pc', settling', request', run')
  BY <1>1, <1>2, <1>3, StaysEntitled DEF Absent, Queue
<1>5. \A i \in DOMAIN asked : reply'[asked[i].by] = "none"
  BY <1>1, <1>2 DEF Absent, Queue, TypeOK
<1>6. CASE UNCHANGED asked
  BY <1>4, <1>5, <1>6, QueueSame
<1>7. CASE Ask(c, "pending", c, "none") /\ settling' = [settling EXCEPT ![c] = "rereading"]
  <2>1. /\ Extends(asked', asked)
        /\ \A i \in DOMAIN asked' \ DOMAIN asked :
             asked'[i] = Mutation(c, "pending", c, "none")
    BY <1>1, <1>7, AskAppends
  <2>2. EntitledIn(Mutation(c, "pending", c, "none"), pc', settling', request', run')
    BY <1>7 DEF EntitledIn, Mutation, TypeOK
  <2>3. reply'[c] = "none" /\ Mutation(c, "pending", c, "none").by = c
    BY <1>1 DEF Mutation, TypeOK
  <2> QED BY <1>2, <1>4, <1>5, <2>1, <2>2, <2>3, QueueGrows
<1> QED BY <1>6, <1>7 DEF AbortSettled, OnConflict

LEMMA QueueAnswered ==
  ASSUME ApprovalGateAssumption, TypeOK, Queue, Replies, Fifo,
         NEW k \in Client, Answered(k)
  PROVE  Queue'
<1>1. /\ reply[k] # "none" /\ reply' = [reply EXCEPT ![k] = "none"] /\ k \in Caller
      /\ request[k].state = "asked" /\ UNCHANGED <<run, asked, settling>>
  BY Distinct DEF Answered, Consumed
<1>2. Absent(k)
  BY <1>1, AbsentReplied
<1>3. \A d \in Call : pc[d] = "recording" => request[k].call # d
  BY <1>1 DEF Fifo
<1>4. \A j \in Client : j # k => request'[j] = request[j]
  BY DEF Answered, Told, TypeOK
<1>5. UNCHANGED pc \/ \E p : /\ pc' = [pc EXCEPT ![request[k].call] = p]
                             /\ pc[request[k].call] = "waiting"
  <2>1. request[k].call \in Call
    BY <1>1 DEF TypeOK, NoRequest, Served
  <2>2. \/ UNCHANGED pc
        \/ /\ Pending(request[k].call)
           /\ \E v, m : ResolveOnce(request[k].call, v, m)
    BY DEF Answered
  <2>3. Pending(request[k].call) => pc[request[k].call] = "waiting"
    BY <1>3, <2>1 DEF Pending
  <2> QED BY <2>2, <2>3 DEF ResolveOnce
<1>6. \A d \in Call : pc'[d] = pc[d] \/ pc[d] = "waiting"
  BY <1>5 DEF TypeOK
<1>7. ASSUME NEW i \in DOMAIN asked
      PROVE  EntitledIn(asked[i], pc', settling', request', run')
  <2>1. Entitled(asked[i]) /\ asked[i].by # k
    BY <1>2 DEF Queue, Absent
  <2>2. asked[i].by \in Call /\ pc[asked[i].by] = "waiting" => settling[asked[i].by] # "no"
    BY <2>1, Distinct DEF Entitled, EntitledIn
  <2> QED BY <1>1, <1>4, <1>6, <2>1, <2>2, StaysEntitled
<1>8. \A i \in DOMAIN asked : reply'[asked[i].by] = "none"
  BY <1>1, <1>2 DEF Absent, Queue, TypeOK
<1> QED BY <1>1, <1>7, <1>8, QueueSame

LEMMA QueueApprove ==
  ASSUME ApprovalGateAssumption, TypeOK, Queue, Replies,
         NEW k \in Client, NEW c \in Call, NEW a \in Answers, Approve(k, c, a)
  PROVE  Queue'
<1>1. /\ request[k].state = "idle" /\ k \in Caller /\ a \in AllAnswers
      /\ UNCHANGED <<reply, pc, settling, run>>
  BY Distinct DEF Approve, gateVars, entryVars, runVars, ApprovalGateAssumption
<1>2. Absent(k) /\ reply[k] = "none"
  BY <1>1, AbsentClient, Distinct DEF Replies, Expected
<1>3. \A j \in Client : j # k => request'[j] = request[j]
  BY DEF Approve, Told, TypeOK
<1>4. \A i \in DOMAIN asked : EntitledIn(asked[i], pc', settling', request', run')
  BY <1>1, <1>2, <1>3, StaysEntitled DEF Absent, Queue
<1>5. \A i \in DOMAIN asked : reply'[asked[i].by] = "none"
  BY <1>1 DEF Queue
<1>6. CASE UNCHANGED asked
  BY <1>4, <1>5, <1>6, QueueSame
<1>7. CASE /\ Ask(k, "decision", c, a)
           /\ request' = [request EXCEPT ![k] =
                            [call |-> c, answer |-> a, state |-> "asked"]]
  <2>1. /\ Extends(asked', asked)
        /\ \A i \in DOMAIN asked' \ DOMAIN asked : asked'[i] = Mutation(k, "decision", c, a)
    BY <1>1, <1>7, AskAppends
  <2>2. EntitledIn(Mutation(k, "decision", c, a), pc', settling', request', run')
    BY <1>7 DEF EntitledIn, Mutation, TypeOK
  <2>3. reply'[k] = "none" /\ Mutation(k, "decision", c, a).by = k
    BY <1>1, <1>2 DEF Mutation
  <2> QED BY <1>2, <1>4, <1>5, <2>1, <2>2, <2>3, QueueGrows
<1> QED BY <1>6, <1>7 DEF Approve

\* The steps of the calls that ask the store for nothing.
LEMMA QueueCalls ==
  ASSUME ApprovalGateAssumption, TypeOK, Queue, Phases, NEW c \in Call,
         Check(c) \/ Revalidate(c) \/ GivesUp(c) \/ Finish(c)
  PROVE  Queue'
<1>1. UNCHANGED <<asked, reply, settling, request, run>>
  BY DEF Check, Revalidate, GivesUp, Finish, CallFrame, entryVars
<1>2. pc[c] # "recording" /\ \A d \in Call : d # c => pc'[d] = pc[d]
  BY DEF Check, Revalidate, GivesUp, Finish, Execute, TypeOK
<1>3. ASSUME NEW i \in DOMAIN asked
      PROVE  EntitledIn(asked[i], pc', settling', request', run')
  <2>1. Entitled(asked[i])
    BY DEF Queue
  <2>2. asked[i].by = c => settling[c] # "no"
    BY <1>2, <2>1, Distinct DEF Entitled, EntitledIn
  <2> QED BY <1>1, <1>2, <2>1, <2>2, StaysEntitled
<1> QED BY <1>1, <1>3, QueueSame DEF Queue

LEMMA QueueWait ==
  ASSUME ApprovalGateAssumption, TypeOK, Queue, Replies, Phases, NEW c \in Call, Wait(c)
  PROVE  Queue'
<1>1. /\ UNCHANGED <<reply, settling, request, run>> /\ c \in Caller
      /\ pc[c] = "preflight" /\ settling[c] = "no"
  BY Distinct DEF Wait, CallFrame, entryVars, Phases
<1>2. Absent(c) /\ reply[c] = "none"
  BY <1>1, AbsentCall, Distinct DEF Replies, Expected
<1>3. \A d \in Call : d # c => pc'[d] = pc[d]
  BY DEF Wait, TypeOK
<1>4. \A i \in DOMAIN asked : EntitledIn(asked[i], pc', settling', request', run')
  BY <1>1, <1>2, <1>3, StaysEntitled DEF Absent, Queue
<1>5. \A i \in DOMAIN asked : reply'[asked[i].by] = "none"
  BY <1>1 DEF Queue
<1>6. CASE UNCHANGED asked
  BY <1>4, <1>5, <1>6, QueueSame
<1>7. CASE Ask(c, "pending", c, "none") /\ pc' = [pc EXCEPT ![c] = "recording"]
  <2>1. /\ Extends(asked', asked)
        /\ \A i \in DOMAIN asked' \ DOMAIN asked : asked'[i] = Mutation(c, "pending", c, "none")
    BY <1>1, <1>7, AskAppends
  <2>2. EntitledIn(Mutation(c, "pending", c, "none"), pc', settling', request', run')
    BY <1>1, <1>7 DEF EntitledIn, Mutation, TypeOK
  <2>3. reply'[c] = "none" /\ Mutation(c, "pending", c, "none").by = c
    BY <1>1, <1>2 DEF Mutation
  <2> QED BY <1>2, <1>4, <1>5, <2>1, <2>2, <2>3, QueueGrows
<1> QED BY <1>6, <1>7 DEF Wait

LEMMA QueueAborts ==
  ASSUME ApprovalGateAssumption, TypeOK, Queue, Replies,
         NEW W \in SUBSET Call, NEW f \in BOOLEAN, RequestAbort(W, f),
         UNCHANGED <<reply, pc, request>>, run = "settling" => run' = "settling"
  PROVE  Queue'
<1>1. /\ Extends(asked', asked)
      /\ \A i \in DOMAIN asked' \ DOMAIN asked :
           \E c \in Ready(W) : asked'[i] = Mutation(c, "decision", c, "aborted")
  BY AbortAppends
<1>2. settling' = [c \in Call |-> IF c \in Ready(W) THEN "deciding" ELSE settling[c]]
  BY DEF RequestAbort, Ready
<1>3. \A c \in Ready(W) : c \in Call /\ pc[c] = "waiting" /\ settling[c] = "no"
  BY DEF Ready
<1>4. ASSUME NEW c \in Ready(W) PROVE Absent(c) /\ reply[c] = "none" /\ c \in Caller
  BY <1>3, AbsentCall, Distinct DEF Replies, Expected
<1>5. ASSUME NEW i \in DOMAIN asked
      PROVE  EntitledIn(asked[i], pc', settling', request', run')
  <2>1. asked[i].by \notin Ready(W)
    BY <1>4 DEF Absent
  <2>2. asked[i].by \in Call => settling'[asked[i].by] = settling[asked[i].by]
    BY <1>2, <2>1
  <2>3. Entitled(asked[i])
    BY DEF Queue
  <2> QED BY <2>2, <2>3, StaysEntitled
<1>6. \A i \in DOMAIN asked : reply'[asked[i].by] = "none"
  BY DEF Queue
<1>7. ASSUME NEW i \in DOMAIN asked' \ DOMAIN asked
      PROVE  /\ EntitledIn(asked'[i], pc', settling', request', run')
             /\ reply'[asked'[i].by] = "none" /\ Absent(asked'[i].by)
  <2>1. PICK c \in Ready(W) : asked'[i] = Mutation(c, "decision", c, "aborted")
    BY <1>1
  <2>2. c \in Call /\ settling'[c] = "deciding"
    BY <1>2, <1>3, <2>1
  <2>3. EntitledIn(Mutation(c, "decision", c, "aborted"), pc', settling', request', run')
    BY <2>2 DEF EntitledIn, Mutation
  <2>4. asked'[i].by = c
    BY <2>1 DEF Mutation
  <2> QED BY <1>4, <2>1, <2>3, <2>4
<1> QED BY <1>1, <1>5, <1>6, <1>7, QueueGrows

LEMMA QueueRun ==
  ASSUME ApprovalGateAssumption, TypeOK, Queue, Replies,
         \/ Cancel \/ EndRun \/ AskSettle \/ Settled \/ ClearRun \/ Bind \/ Crash
         \/ \E c \in Call : CallbackStops(c)
  PROVE  Queue'
<1>1. CASE Cancel
  <2>1. /\ RequestAbort({c \in Call : Pending(c)}, FALSE)
        /\ UNCHANGED <<reply, pc, request, run>>
    BY <1>1 DEF Cancel, RunFrame
  <2> QED BY <2>1, QueueAborts
<1>2. ASSUME NEW c \in Call, CallbackStops(c) PROVE Queue'
  <2>1. RequestAbort({c}, FALSE) /\ UNCHANGED <<reply, pc, request, run>>
    BY <1>2 DEF CallbackStops, RunFrame, runVars
  <2> QED BY <2>1, QueueAborts
<1>3. CASE EndRun
  <2>1. run = "live" /\ UNCHANGED <<asked, reply, pc, settling, request>>
    BY <1>3 DEF EndRun, RunFrame
  <2>2. \A i \in DOMAIN asked : EntitledIn(asked[i], pc', settling', request', run')
    BY <2>1, StaysEntitled DEF Queue
  <2> QED BY <2>1, <2>2, QueueSame DEF Queue
<1>4. CASE AskSettle
  <2>1. /\ run = "ending" /\ run' = "settling" /\ Ask(Run, "settle", Run, "none")
        /\ UNCHANGED <<reply, pc, settling, request>> /\ Run \in Caller
    BY <1>4, Distinct DEF AskSettle, RunFrame
  <2>2. Absent(Run) /\ reply[Run] = "none"
    BY <2>1, AbsentRun, Distinct DEF Replies, Expected
  <2>3. \A i \in DOMAIN asked : EntitledIn(asked[i], pc', settling', request', run')
    BY <2>1, StaysEntitled DEF Queue
  <2>4. /\ Extends(asked', asked)
        /\ \A i \in DOMAIN asked' \ DOMAIN asked :
             asked'[i] = Mutation(Run, "settle", Run, "none")
    BY <2>1, AskAppends
  <2>5. EntitledIn(Mutation(Run, "settle", Run, "none"), pc', settling', request', run')
    BY <2>1 DEF EntitledIn, Mutation
  <2>6. reply'[Run] = "none" /\ Mutation(Run, "settle", Run, "none").by = Run
    BY <2>1, <2>2 DEF Mutation
  <2>7. \A i \in DOMAIN asked : reply'[asked[i].by] = "none"
    BY <2>1 DEF Queue
  <2> QED BY <2>2, <2>3, <2>4, <2>5, <2>6, <2>7, QueueGrows
<1>5. CASE Settled
  <2>1. /\ reply[Run] # "none" /\ reply' = [reply EXCEPT ![Run] = "none"]
        /\ UNCHANGED <<asked, pc, settling, request>>
    BY <1>5 DEF Settled, Consumed, gateVars, entryVars
  <2>2. Absent(Run)
    BY <2>1, AbsentReplied
  <2>3. \A i \in DOMAIN asked : EntitledIn(asked[i], pc', settling', request', run')
    BY <2>1, <2>2, StaysEntitled DEF Queue, Absent
  <2>4. \A i \in DOMAIN asked : reply'[asked[i].by] = "none"
    BY <2>1, <2>2 DEF Queue, Absent, TypeOK
  <2> QED BY <2>1, <2>3, <2>4, QueueSame
<1>6. CASE ClearRun
  <2>1. /\ RequestAbort({c \in Call : Pending(c) /\ session[c] = owner}, TRUE)
        /\ UNCHANGED <<reply, pc, request>> /\ run = "settled"
    BY <1>6 DEF ClearRun, Cleared, RunFrame
  <2> QED BY <2>1, QueueAborts
<1>7. CASE Bind
  <2>1. UNCHANGED <<asked, reply, pc, settling, request, run>>
    BY <1>7 DEF Bind, callVars
  <2> QED BY <2>1 DEF Queue, Entitled
<1>8. CASE Crash
  <2>1. asked' = <<>>
    BY <1>8 DEF Crash
  <2> QED BY <2>1 DEF Queue
<1> QED BY <1>1, <1>2, <1>3, <1>4, <1>5, <1>6, <1>7, <1>8

LEMMA QueueStep ==
  ASSUME ApprovalGateAssumption, TypeOK, Queue, Replies, Phases, Fifo, Next
  PROVE  Queue'
<1>1. CASE Store
  BY <1>1, QueueStore
<1>2. CASE Resume
  BY <1>2, QueueRecorded, QueueAbortSettled, QueueAnswered, QueueRun DEF Resume
<1>3. CASE \E k \in Client, c \in Call, a \in Answers : Approve(k, c, a)
  BY <1>3, QueueApprove
<1>4. CASE \E c \in Call : \/ Check(c) \/ Wait(c) \/ Revalidate(c) \/ GivesUp(c)
                           \/ Finish(c) \/ CallbackStops(c)
  BY <1>4, QueueCalls, QueueWait, QueueRun
<1>5. CASE Cancel \/ EndRun \/ AskSettle \/ ClearRun \/ Bind \/ Crash
  BY <1>5, QueueRun
<1> QED BY <1>1, <1>2, <1>3, <1>4, <1>5 DEF Next

-----------------------------------------------------------------------------
\* Phases.
LEMMA PhasesStore ==
  ASSUME ApprovalGateAssumption, TypeOK, Queue, Phases, Fifo, Store
  PROVE  Phases'
<1>0. /\ UNCHANGED <<pc, settling, run>> /\ asked # <<>>
      /\ \A a \in Caller : reply[a] = "none"
  BY QueueStore DEF OutsideStore, gateVars, entryVars, runVars
<1>1. Entitled(Head(asked)) /\ Head(asked) = asked[1] /\ 1 \in DOMAIN asked
      /\ (Head(asked).kind # "settle" => Head(asked).call \in Call)
  BY <1>0, HeadEntitled
<1> DEFINE h == Head(asked).call
<1>2. CASE RecordPending
  <2>1. h \in Call /\ Head(asked).kind = "pending"
    BY <1>1, <1>2 DEF RecordPending, Turn
  <2>2. pc[h] \notin {"idle", "preflight"}
    BY <1>1, <2>1, Distinct DEF Entitled, EntitledIn, Phases
  <2>3. /\ UNCHANGED status
        /\ \/ UNCHANGED approval
           \/ approval[h] = "none" /\ approval' = [approval EXCEPT ![h] = "pending"]
    BY <1>2 DEF RecordPending, Only, durableVars
  <2> HIDE DEF h
  <2>4. \A c \in Call : approval'[c] = approval[c] \/ (c = h /\ approval'[c] = "pending")
    BY <2>1, <2>3 DEF TypeOK
  <2>5. Callback \subseteq Call
    BY DEF ApprovalGateAssumption
  <2>6. \A c \in Callback : pc'[c] \in {"idle", "preflight"} => approval'[c] = "none"
    BY <1>0, <2>2, <2>4, <2>5 DEF Phases
  <2>7. \A c \in Callback : pc'[c] = "recording" => approval'[c] \in {"none", "pending"}
    BY <1>0, <2>4, <2>5 DEF Phases
  <2> QED BY <1>0, <2>3, <2>6, <2>7 DEF Phases, Active
<1>3. CASE RecordDecision
  <2>1. h \in Call /\ Head(asked).kind = "decision"
    BY <1>1, <1>3 DEF RecordDecision, Turn
  <2>2. pc[h] # "recording"
    <3>1. asked[1].kind = "decision" /\ asked[1].call = h /\ reply[h] = "none"
      BY <1>0, <1>1, <2>1, Distinct
    <3>2. asked \in Seq(Mutations)
      BY DEF TypeOK, Mutations
    <3>3. \A i \in DOMAIN asked : i \in Nat /\ 1 <= i
      BY <1>0, <3>2, Rest
    <3>4. \A i \in DOMAIN asked : ~(i < 1)
      BY <3>3
    <3> QED BY <1>1, <2>1, <3>1, <3>4 DEF Fifo
  <2>3. /\ UNCHANGED status
        /\ \/ UNCHANGED approval
           \/ /\ approval[h] = "pending"
              /\ \E v : approval' = [approval EXCEPT ![h] = v]
    BY <1>3 DEF RecordDecision, Only, durableVars, MayDecide
  <2> HIDE DEF h
  <2>4. \A c \in Call : \/ approval'[c] = approval[c]
                        \/ c = h /\ approval[c] = "pending"
    BY <2>1, <2>3 DEF TypeOK
  <2>5. Callback \subseteq Call
    BY DEF ApprovalGateAssumption
  <2>6. \A c \in Callback : pc'[c] \in {"idle", "preflight"} => approval'[c] = "none"
    BY <1>0, <2>4, <2>5 DEF Phases
  <2>7. \A c \in Callback : pc'[c] = "recording" => approval'[c] \in {"none", "pending"}
    BY <1>0, <2>2, <2>4, <2>5 DEF Phases
  <2> QED BY <1>0, <2>3, <2>6, <2>7 DEF Phases, Active
<1>4. CASE SettleRun
  <2>1. Head(asked).kind = "settle"
    BY <1>4 DEF SettleRun, Turn
  <2>2. run = "settling"
    BY <1>1, <2>1 DEF Entitled, EntitledIn
  <2>3. UNCHANGED approval
    BY <1>4 DEF SettleRun, Only, durableVars
  <2> QED BY <1>0, <2>2, <2>3 DEF Phases, Active
<1> QED BY <1>2, <1>3, <1>4 DEF Store

\* The steps of the calls and of who answers them.
LEMMA PhasesCallStep ==
  ASSUME Phases, ApprovalGateAssumption, UNCHANGED <<approval, status, run>>,
         \A c \in Call : pc'[c] \in {"idle", "preflight", "recording"} => settling'[c] = "no",
         \A c \in Callback : pc'[c] \in {"idle", "preflight"} => pc[c] \in {"idle", "preflight"},
         \A c \in Callback : pc'[c] = "recording" =>
                               pc[c] \in {"idle", "preflight", "recording"},
         \A c \in Call \ Callback : Active(c)' => Active(c) \/ run = "live"
  PROVE  Phases'
BY DEF Phases

LEMMA PhasesCalls ==
  ASSUME ApprovalGateAssumption, TypeOK, Phases,
         \/ \E c \in Call : \/ Recorded(c) \/ AbortSettled(c) \/ Check(c) \/ Wait(c)
                            \/ Revalidate(c) \/ GivesUp(c) \/ Finish(c)
         \/ \E k \in Client : Answered(k)
  PROVE  Phases'
<1>0. Callback \subseteq Call
  BY DEF ApprovalGateAssumption
<1>1. ASSUME NEW c \in Call, Recorded(c) PROVE Phases'
  <2>1. UNCHANGED <<approval, status, run>> /\ pc[c] = "recording" /\ settling[c] = "no"
    BY <1>1 DEF Recorded, durableVars, runVars, Phases
  <2>2. /\ \A d \in Call : d # c => pc'[d] = pc[d] /\ settling'[d] = settling[d]
        /\ pc'[c] \notin {"idle", "preflight", "recording"}
    BY <1>1 DEF Recorded, SettleDurable, ResolveOnce, RejectOnce, TypeOK, Verdict, Approving
  <2> QED BY <1>0, <2>1, <2>2, PhasesCallStep DEF Active, Phases
<1>2. ASSUME NEW c \in Call, AbortSettled(c) PROVE Phases'
  <2>1. UNCHANGED <<approval, status, run>> /\ settling[c] # "no"
    BY <1>2 DEF AbortSettled, durableVars, runVars
  <2>2. pc[c] \notin {"idle", "preflight", "recording"}
    BY <2>1 DEF Phases
  <2>3. \A d \in Call : d # c => pc'[d] = pc[d] /\ settling'[d] = settling[d]
    BY <1>2 DEF AbortSettled, SettleDurable, ResolveOnce, RejectOnce, OnConflict, TypeOK
  <2>4. UNCHANGED pc \/ (Pending(c) /\ pc'[c] \notin {"idle", "preflight", "recording"})
    BY <1>2 DEF AbortSettled, SettleDurable, ResolveOnce, RejectOnce, OnConflict, TypeOK,
       Verdict, Approving
  <2> QED BY <1>0, <2>1, <2>2, <2>3, <2>4, PhasesCallStep DEF Active, Phases, Pending
<1>3. ASSUME NEW k \in Client, Answered(k) PROVE Phases'
  <2>1. UNCHANGED <<approval, status, run, settling>>
    BY <1>3 DEF Answered, durableVars
  <2>2. request[k].call \in Call /\ ScopeOf(request[k].answer) \in Verdict
    BY <1>3 DEF Answered, TypeOK, NoRequest, Served, ScopeOf, AllAnswers, Verdict, Approving
  <2>3. \/ UNCHANGED pc
        \/ /\ Pending(request[k].call)
           /\ \A d \in Call : d # request[k].call => pc'[d] = pc[d]
           /\ pc'[request[k].call] \notin {"idle", "preflight", "recording"}
    BY <1>3, <2>2 DEF Answered, ResolveOnce, TypeOK, Verdict, Approving
  <2> QED BY <1>0, <2>1, <2>2, <2>3, PhasesCallStep DEF Active, Phases, Pending
<1>4. ASSUME NEW c \in Call, Check(c) PROVE Phases'
  <2>1. /\ UNCHANGED <<approval, status, run, settling>> /\ pc[c] = "idle"
        /\ c \notin Callback => run = "live"
    BY <1>4 DEF Check, CallFrame, entryVars, durableVars, MayStart
  <2>2. \A d \in Call : d # c => pc'[d] = pc[d]
    BY <1>4 DEF Check, Execute, TypeOK
  <2>3. pc'[c] \in {"preflight", "executing", "done"}
    BY <1>4 DEF Check, Execute, TypeOK
  <2> QED BY <1>0, <2>1, <2>2, <2>3, PhasesCallStep DEF Active, Phases
<1>5. ASSUME NEW c \in Call, Wait(c) PROVE Phases'
  <2>1. UNCHANGED <<approval, status, run, settling>> /\ pc[c] = "preflight"
    BY <1>5 DEF Wait, CallFrame, entryVars, durableVars
  <2>2. /\ \A d \in Call : d # c => pc'[d] = pc[d]
        /\ pc'[c] \in {"recording", "done"}
    BY <1>5 DEF Wait, TypeOK
  <2> QED BY <1>0, <2>1, <2>2, PhasesCallStep DEF Active, Phases
<1>6. ASSUME NEW c \in Call, Revalidate(c) \/ GivesUp(c) \/ Finish(c) PROVE Phases'
  <2>1. UNCHANGED <<approval, status, run, settling>>
    BY <1>6 DEF Revalidate, GivesUp, Finish, CallFrame, entryVars, durableVars
  <2>2. /\ \A d \in Call : d # c => pc'[d] = pc[d]
        /\ pc'[c] \in {"executing", "done"} /\ Active(c)
    BY <1>6 DEF Revalidate, GivesUp, Finish, Execute, TypeOK, Active
  <2> QED BY <1>0, <2>1, <2>2, PhasesCallStep DEF Active, Phases
<1> QED BY <1>1, <1>2, <1>3, <1>4, <1>5, <1>6

LEMMA PhasesRun ==
  ASSUME ApprovalGateAssumption, TypeOK, Replies, Phases,
         \/ Cancel \/ EndRun \/ AskSettle \/ Settled \/ ClearRun \/ Bind \/ Crash
         \/ \E c \in Call : CallbackStops(c)
         \/ \E k \in Client, c \in Call, a \in Answers : Approve(k, c, a)
  PROVE  Phases'
<1>0. Callback \subseteq Call
  BY DEF ApprovalGateAssumption
<1>1. ASSUME NEW W \in SUBSET Call, NEW f, RequestAbort(W, f), UNCHANGED pc
      PROVE  \A c \in Call : pc'[c] \in {"idle", "preflight", "recording"} => settling'[c] = "no"
  BY <1>1 DEF RequestAbort, Phases
<1>2. CASE Cancel
  <2>1. UNCHANGED <<approval, status, pc, run>> /\ RequestAbort({c \in Call : Pending(c)}, FALSE)
    BY <1>2 DEF Cancel, RunFrame, durableVars
  <2> QED BY <1>0, <1>1, <2>1, PhasesCallStep DEF Active
<1>3. ASSUME NEW c \in Call, CallbackStops(c) PROVE Phases'
  <2>1. UNCHANGED <<approval, status, pc, run>> /\ RequestAbort({c}, FALSE)
    BY <1>3 DEF CallbackStops, RunFrame, durableVars, runVars
  <2> QED BY <1>0, <1>1, <2>1, PhasesCallStep DEF Active
<1>4. CASE ClearRun
  <2>1. /\ UNCHANGED <<approval, status, pc>> /\ run = "settled" /\ run' = "cleared"
        /\ RequestAbort({c \in Call : Pending(c) /\ session[c] = owner}, TRUE)
    BY <1>4 DEF ClearRun, Cleared, RunFrame, durableVars
  <2>2. \A c \in Call : pc'[c] \in {"idle", "preflight", "recording"} => settling'[c] = "no"
    BY <1>1, <2>1
  <2> QED BY <2>1, <2>2 DEF Phases, Active
<1>5. CASE EndRun \/ AskSettle
  <2>1. /\ UNCHANGED <<approval, status, pc, settling>>
        /\ \/ run = "live" /\ run' = "ending" /\ \A c \in Call \ Callback : ~Active(c)
           \/ run = "ending" /\ run' = "settling"
    BY <1>5 DEF EndRun, AskSettle, RunFrame, durableVars
  <2> QED BY <2>1 DEF Phases, Active
<1>6. CASE Settled
  <2>1. /\ UNCHANGED <<approval, status, pc, settling>> /\ run = "settling"
        /\ run' = IF reply[Run] = "ok" THEN "settled" ELSE "stuck"
    BY <1>6 DEF Settled, durableVars, gateVars, entryVars
  <2>2. reply[Run] = "ok" => status = "terminal"
    BY Distinct DEF Replies
  <2> QED BY <2>1, <2>2 DEF Phases, Active
<1>7. CASE Bind \/ \E k \in Client, c \in Call, a \in Answers : Approve(k, c, a)
  <2>1. UNCHANGED <<approval, status, pc, settling, run>>
    BY <1>7 DEF Bind, Approve, durableVars, gateVars, entryVars, runVars
  <2> QED BY <2>1 DEF Phases, Active
<1>8. CASE Crash
  <2>1. /\ UNCHANGED <<approval, status>> /\ status = "running" /\ run' = "live"
        /\ settling' = [c \in Call |-> "no"]
    BY <1>8 DEF Crash, durableVars
  <2>2. \A c \in Callback : pc'[c] = pc[c] \/ pc'[c] = "done"
    BY <1>0, <1>8 DEF Crash
  <2>3. \A c \in Callback : pc'[c] # "recording"
    BY <1>0, <1>8 DEF Crash, Active
  <2> QED BY <1>0, <2>1, <2>2, <2>3 DEF Phases
<1> QED BY <1>2, <1>3, <1>4, <1>5, <1>6, <1>7, <1>8

LEMMA PhasesStep ==
  ASSUME ApprovalGateAssumption, TypeOK, Queue, Replies, Phases, Fifo, Next
  PROVE  Phases'
BY PhasesStore, PhasesCalls, PhasesRun DEF Next, Resume

-----------------------------------------------------------------------------
\* Replies.
LEMMA RepliesNone ==
  ASSUME ApprovalGateAssumption, \A a \in Caller : reply'[a] = "none"
  PROVE  Replies'
BY Distinct DEF Replies, Verdict, Approving

LEMMA ConsumedLeavesNone ==
  ASSUME TypeOK, Replies, NEW a \in Caller, reply[a] # "none", Consumed(a)
  PROVE  \A b \in Caller : reply'[b] = "none"
BY DEF Replies, Consumed, TypeOK

\* The answer to the head of the queue.
LEMMA RepliesStore ==
  ASSUME ApprovalGateAssumption, TypeOK, Queue, Store
  PROVE  Replies'
<1>1. PICK code \in Codes : /\ reply' = [reply EXCEPT ![Head(asked).by] = code]
                            /\ Answer(code)
  BY QueueStore
<1>2. /\ \A a \in Caller : reply[a] = "none"
      /\ Head(asked).by \in Caller /\ UNCHANGED <<pc, settling, run, request>>
      /\ asked # <<>>
  BY QueueStore DEF OutsideStore, gateVars, entryVars, runVars
<1>3. Entitled(Head(asked)) /\ (Head(asked).kind # "settle" => Head(asked).call \in Call)
  BY <1>2, HeadEntitled
<1> DEFINE h == Head(asked)
<1> HIDE DEF h
<1>4. \A a \in Caller : reply'[a] = IF a = h.by THEN code ELSE "none"
  BY <1>1, <1>2 DEF TypeOK, h
<1>5. \A a \in Caller : reply'[a] # "none" => Expected(a)'
  BY <1>2, <1>3, <1>4 DEF Expected, Entitled, EntitledIn, h
<1>6. \A a, b \in Caller : reply'[a] # "none" /\ reply'[b] # "none" => a = b
  BY <1>4
<1>7. Entitled(h) /\ Answer(code)
  BY <1>1, <1>3 DEF h
<1>8. code = reply'[h.by] /\ h.by \in Caller
  BY <1>2, <1>4 DEF h
<1> USE DEF Verdict, Approving
<1>9. ASSUME NEW other, Answer(other) PROVE other = code
  BY <1>1, <1>2, <1>9 DEF Answer, TypeOK
<1>10. CASE RecordPending
  <2>1. h.kind = "pending" /\ h.by \in Call /\ h.call = h.by
    BY <1>7, <1>10 DEF RecordPending, Turn, Entitled, EntitledIn, h
  <2>2. \/ code = "terminal" /\ status = "terminal" /\ UNCHANGED <<approval, status>>
        \/ code = approval[h.call] /\ status = "running" /\ UNCHANGED <<approval, status>>
        \/ code = "error" /\ status = "running" /\ UNCHANGED <<approval, status>>
        \/ /\ code = "pending" /\ approval' = [approval EXCEPT ![h.call] = "pending"]
           /\ status = "running" /\ UNCHANGED status
    BY <1>9, <1>10 DEF RecordPending, Only, durableVars, h
  <2>3. \A c \in Call : reply'[c] \in Verdict \cup {"pending"} => approval'[c] = reply'[c]
    BY <1>4, <2>1, <2>2, Distinct DEF TypeOK
  <2>4. \A k \in Client : reply'[k] = "none"
    BY <1>4, <2>1, Distinct
  <2>5. \A a \in Caller : reply'[a] \in {"terminal", "ok"} => status' = "terminal"
    <3>1. approval[h.call] \in Verdict \cup {"none", "pending"}
      BY <2>1 DEF TypeOK
    <3>2. code \in {"terminal", "ok"} => status' = "terminal"
      BY <2>2, <3>1
    <3> QED BY <1>4, <3>2
  <2>6. status' = "terminal" =>
          \A a \in Caller : reply'[a] \in {"none", "terminal", "ok", "error"}
    BY <1>4, <2>2
  <2> QED BY <1>5, <1>6, <2>3, <2>4, <2>5, <2>6, Distinct DEF Replies
<1>11. CASE RecordDecision
  <2>1. h.kind = "decision" /\ h.by # Run
    BY <1>7, <1>11, Distinct DEF RecordDecision, Turn, Entitled, EntitledIn, h
  <2>2. h.call \in Call
    BY <1>3, <2>1 DEF h
  <2>3. \/ code \in {"terminal"} /\ status = "terminal" /\ UNCHANGED <<approval, status, savedMode>>
        \/ code \in {"not_pending", "conflict", "error"} /\ status = "running"
           /\ UNCHANGED <<approval, status, savedMode>>
        \/ /\ code = approval[h.call] /\ code = Stored(h.answer) /\ status = "running"
           /\ h.answer = "full" => savedMode = "full"
           /\ UNCHANGED <<approval, status, savedMode>>
        \/ /\ code = Stored(h.answer) /\ approval' = [approval EXCEPT ![h.call] = code]
           /\ h.answer = "full" => savedMode' = "full"
           /\ status = "running" /\ UNCHANGED status
    BY <1>9, <1>11 DEF RecordDecision, Only, durableVars, h, SameDecision, Stored
  <2>4. code \in Verdict => approval'[h.call] = code /\ code = ScopeOf(h.answer)
                            /\ (h.answer = "full" => savedMode' = "full")
    BY <2>2, <2>3 DEF TypeOK, Stored
  <2>5. Stored(h.answer) \in Verdict /\ code \notin {"pending", "ok"}
    <3>1. \A k \in Client : request[k].state = "asked" => request[k].answer \in AllAnswers
      BY DEF TypeOK, NoRequest, Served
    <3>2. h.answer \in AllAnswers \cup {"aborted"}
      BY <1>7, <2>1, <3>1 DEF Entitled, EntitledIn
    <3>3. Stored(h.answer) \in Verdict
      BY <3>2 DEF Stored, ScopeOf, AllAnswers
    <3> QED BY <2>3, <3>3
  <2>6. \A c \in Call : reply'[c] \in Verdict \cup {"pending"} => approval'[c] = reply'[c]
    BY <1>4, <1>7, <2>4, <2>5, Distinct DEF Entitled, EntitledIn
  <2>7. \A k \in Client : reply'[k] \in Verdict =>
          /\ reply'[k] = ScopeOf(request'[k].answer)
          /\ approval'[request'[k].call] = reply'[k]
          /\ request'[k].answer = "full" => savedMode' = "full"
    BY <1>2, <1>4, <1>7, <2>4, Distinct DEF Entitled, EntitledIn
  <2>8. \A a \in Caller : reply'[a] \in {"terminal", "ok"} => status' = "terminal"
    BY <1>4, <2>3, <2>5
  <2>9. status' = "terminal" =>
          \A a \in Caller : reply'[a] \in {"none", "terminal", "ok", "error"}
    BY <1>4, <2>3
  <2> QED BY <1>5, <1>6, <2>6, <2>7, <2>8, <2>9 DEF Replies
<1>12. CASE SettleRun
  <2>1. h.kind = "settle" /\ h.by = Run
    BY <1>7, <1>12 DEF SettleRun, Turn, Entitled, EntitledIn, h
  <2>2. \/ code = "error" /\ UNCHANGED status
        \/ code = "ok" /\ status' = "terminal"
    <3>1. \/ Answer("error") /\ UNCHANGED status
          \/ Answer("ok") /\ status' = "terminal"
      BY <1>12 DEF SettleRun, Only, durableVars
    <3>2. Answer("error") => code = "error"
      BY <1>9
    <3>3. Answer("ok") => code = "ok"
      BY <1>9
    <3> QED BY <3>1, <3>2, <3>3
  <2>3. \A a \in Caller : a # Run => reply'[a] = "none"
    BY <1>4, <2>1
  <2>4. \A a \in Caller : reply'[a] \in {"none", "error", "ok"}
                          /\ (reply'[a] = "ok" => status' = "terminal")
    BY <1>4, <2>2
  <2> QED BY <1>5, <1>6, <2>3, <2>4, Distinct DEF Replies
<1> QED BY <1>10, <1>11, <1>12 DEF Store

LEMMA RepliesSame ==
  ASSUME Replies, UNCHANGED <<reply, approval, status, savedMode>>,
         \A a \in Caller : reply[a] # "none" /\ Expected(a) => Expected(a)',
         \A k \in Client : reply[k] # "none" => request'[k] = request[k]
  PROVE  Replies'
<1>1. \A a \in Caller : reply'[a] # "none" => Expected(a)'
  BY DEF Replies
<1>2. \A k \in Client : reply'[k] \in Verdict =>
          /\ reply'[k] = ScopeOf(request'[k].answer)
          /\ approval'[request'[k].call] = reply'[k]
          /\ request'[k].answer = "full" => savedMode' = "full"
  <2>1. "none" \notin Verdict
    BY DEF Verdict, Approving
  <2> QED BY <2>1 DEF Replies
<1> QED BY <1>1, <1>2 DEF Replies

LEMMA RepliesStep ==
  ASSUME ApprovalGateAssumption, TypeOK, Queue, Replies, Phases, Next
  PROVE  Replies'
<1> USE DEF durableVars, runVars, gateVars, entryVars, CallFrame, RunFrame
<1>1. CASE Store
  BY <1>1, RepliesStore
<1>2. CASE Resume
  <2>1. PICK a \in Caller : reply[a] # "none" /\ Consumed(a)
    BY <1>2, Distinct DEF Resume, Recorded, AbortSettled, Answered, Settled
  <2> QED BY <2>1, ConsumedLeavesNone, RepliesNone
<1>3. ASSUME NEW k \in Client, NEW c \in Call, NEW a \in Answers, Approve(k, c, a)
      PROVE  Replies'
  <2>1. /\ UNCHANGED <<reply, approval, status, savedMode, pc, settling, run>>
        /\ request[k].state = "idle"
    BY <1>3 DEF Approve
  <2>2. reply[k] = "none"
    BY <2>1, Distinct DEF Replies, Expected
  <2>3. \A j \in Client : j # k => request'[j] = request[j]
    BY <1>3 DEF Approve, Told, TypeOK
  <2> QED BY <2>1, <2>2, <2>3, RepliesSame DEF Expected
<1>4. ASSUME NEW c \in Call,
             Check(c) \/ Wait(c) \/ Revalidate(c) \/ GivesUp(c) \/ Finish(c)
      PROVE  Replies'
  <2>1. UNCHANGED <<reply, approval, status, savedMode, settling, run, request>>
    BY <1>4 DEF Check, Wait, Revalidate, GivesUp, Finish
  <2>2. pc[c] # "recording" /\ \A d \in Call : d # c => pc'[d] = pc[d]
    BY <1>4 DEF Check, Wait, Revalidate, GivesUp, Finish, Execute, TypeOK
  <2> QED BY <2>1, <2>2, RepliesSame DEF Expected
<1>5. ASSUME NEW W \in SUBSET Call, NEW f, RequestAbort(W, f),
             UNCHANGED <<reply, approval, status, savedMode, pc, request>>,
             run = "settling" => run' = "settling"
      PROVE  Replies'
  <2>1. \A c \in Call : settling[c] # "no" => settling'[c] # "no"
    BY <1>5 DEF RequestAbort
  <2> QED BY <1>5, <2>1, RepliesSame DEF Expected
<1>6. CASE Cancel
  <2>1. {c \in Call : Pending(c)} \in SUBSET Call OBVIOUS
  <2> QED BY <1>5, <1>6, <2>1 DEF Cancel
<1>7. ASSUME NEW c \in Call, CallbackStops(c) PROVE Replies'
  BY <1>5, <1>7 DEF CallbackStops
<1>8. CASE ClearRun
  <2>1. {c \in Call : Pending(c) /\ session[c] = owner} \in SUBSET Call OBVIOUS
  <2> QED BY <1>5, <1>8, <2>1 DEF ClearRun, Cleared
<1>9. CASE EndRun \/ AskSettle \/ Bind
  <2>1. UNCHANGED <<reply, approval, status, savedMode, pc, settling, request>>
    BY <1>9 DEF EndRun, AskSettle, Bind, callVars
  <2>2. run = "settling" => run' = "settling"
    BY <1>9 DEF EndRun, AskSettle, Bind
  <2> QED BY <2>1, <2>2, RepliesSame DEF Expected
<1>10. CASE Crash
  <2>1. \A a \in Caller : reply'[a] = "none"
    BY <1>10 DEF Crash
  <2> QED BY <2>1, RepliesNone
<1> QED BY <1>1, <1>2, <1>3, <1>4, <1>6, <1>7, <1>8, <1>9, <1>10 DEF Next

-----------------------------------------------------------------------------
\* Fifo.
LEMMA SomeAnswer ==
  ASSUME ApprovalGateAssumption, TypeOK, Queue, Store, NEW a \in Caller,
         Head(asked).by = a
  PROVE  reply'[a] # "none"
<1>1. asked # <<>> /\ a \in Caller /\ reply \in [Caller -> Codes]
  BY QueueStore DEF TypeOK, Codes
<1>2. \E code : Answer(code) /\ code # "none"
  <2>1. CASE RecordPending
    BY <2>1 DEF RecordPending, Only
  <2>2. CASE RecordDecision
    <3>1. Stored(Head(asked).answer) # "none"
      <4>1. \A k \in Client : request[k].state = "asked" => request[k].answer \in AllAnswers
        BY DEF TypeOK, NoRequest, Served
      <4>2. Head(asked).answer \in AllAnswers \cup {"aborted"}
        BY <1>1, <2>2, <4>1, HeadEntitled, Distinct
           DEF RecordDecision, Turn, Entitled, EntitledIn
      <4> QED BY <4>2 DEF Stored, ScopeOf, AllAnswers
    <3> QED BY <2>2, <3>1 DEF RecordDecision, Only
  <2>3. CASE SettleRun
    BY <2>3 DEF SettleRun, Only
  <2> QED BY <2>1, <2>2, <2>3 DEF Store
<1> QED BY <1>1, <1>2 DEF Answer

LEMMA FifoStore ==
  ASSUME ApprovalGateAssumption, TypeOK, Queue, Fifo, Store
  PROVE  Fifo'
<1>1. /\ \A a \in Caller : reply[a] = "none"
      /\ asked # <<>> /\ UNCHANGED <<pc, request>>
      /\ Head(asked).by \in Caller
  BY QueueStore DEF OutsideStore, gateVars
<1>2. PICK code : /\ reply' = [reply EXCEPT ![Head(asked).by] = code]
                  /\ Answer(code)
  BY QueueStore
<1>3. /\ asked' = Tail(asked) /\ Head(asked) = asked[1] /\ 1 \in DOMAIN asked
      /\ asked \in Seq(Mutations) /\ Entitled(Head(asked))
  BY <1>1, <1>2, HeadEntitled DEF Answer, TypeOK, Mutations
<1>4. /\ \A i \in DOMAIN asked : i \in Nat /\ 1 <= i /\ (i # 1 => i - 1 \in DOMAIN asked')
      /\ \A i \in DOMAIN asked' : /\ i \in Nat /\ i + 1 \in DOMAIN asked
                                  /\ asked'[i] = asked[i + 1]
  BY <1>1, <1>3, Rest
<1>5. ASSUME NEW c \in Call, pc[c] = "recording"
      PROVE  /\ \/ reply'[c] # "none"
                \/ \E i \in DOMAIN asked' :
                     /\ asked'[i].by = c
                     /\ \A j \in DOMAIN asked' :
                          asked'[j].kind = "decision" /\ asked'[j].call = c => i < j
             /\ \A k \in Client : request[k].state = "asked" /\ request[k].call = c =>
                  reply'[k] = "none"
  <2>1. reply[c] = "none"
    BY <1>1, Distinct
  <2>2. PICK i \in DOMAIN asked :
          /\ asked[i].by = c
          /\ \A j \in DOMAIN asked :
               asked[j].kind = "decision" /\ asked[j].call = c => i < j
    BY <1>5, <2>1 DEF Fifo
  <2>3. CASE i = 1
    <3>1. reply'[c] # "none" /\ Head(asked).by = c
      BY <1>3, <2>2, <2>3, SomeAnswer, Distinct
    <3>2. \A k \in Client : reply'[k] = "none"
      BY <1>1, <1>2, <3>1, Distinct DEF TypeOK
    <3> QED BY <3>1, <3>2
  <2>4. CASE i # 1
    <3>1. i - 1 \in DOMAIN asked' /\ i - 1 + 1 = i
      BY <1>4, <2>4
    <3>2. asked'[i - 1].by = c
      BY <1>4, <2>2, <3>1
    <3>3. ASSUME NEW j \in DOMAIN asked', asked'[j].kind = "decision", asked'[j].call = c
          PROVE  i - 1 < j
      <4>1. i < j + 1
        BY <1>4, <2>2, <3>3
      <4> QED BY <1>4, <4>1
    <3>4. ASSUME NEW k \in Client, request[k].state = "asked", request[k].call = c
          PROVE  reply'[k] = "none"
      <4>1. ~(Head(asked).kind = "decision" /\ Head(asked).call = c)
        <5>1. ~(i < 1)
          BY <1>4
        <5> QED BY <1>3, <2>2, <5>1
      <4>2. Head(asked).by # k
        BY <1>3, <3>4, <4>1, Distinct DEF Entitled, EntitledIn
      <4> QED BY <1>1, <1>2, <4>2, Distinct DEF TypeOK
    <3> QED BY <3>1, <3>2, <3>3, <3>4
  <2> QED BY <2>3, <2>4
<1> QED BY <1>1, <1>5 DEF Fifo

\* Otherwise the queue is only appended to, and no answer goes to a call that
\* records.
LEMMA FifoGrows ==
  ASSUME ApprovalGateAssumption, TypeOK, Fifo, Extends(asked', asked),
         \A c \in Call : pc'[c] = "recording" => pc[c] = "recording" /\ reply'[c] = reply[c],
         \A c \in Call : pc'[c] = "recording" =>
           \A k \in Client : request'[k].state = "asked" /\ request'[k].call = c =>
             reply'[k] = "none",
         \A k \in Client : request'[k].state = "asked" =>
           pc'[request'[k].call] \notin {"idle", "preflight"}
  PROVE  Fifo'
<1>1. ASSUME NEW c \in Call, pc'[c] = "recording"
      PROVE  \/ reply'[c] # "none"
             \/ \E i \in DOMAIN asked' :
                  /\ asked'[i].by = c
                  /\ \A j \in DOMAIN asked' :
                       asked'[j].kind = "decision" /\ asked'[j].call = c => i < j
  <2>1. CASE reply[c] # "none"
    BY <1>1, <2>1
  <2>2. CASE reply[c] = "none"
    <3>1. PICK i \in DOMAIN asked :
            /\ asked[i].by = c
            /\ \A j \in DOMAIN asked :
                 asked[j].kind = "decision" /\ asked[j].call = c => i < j
      BY <1>1, <2>2 DEF Fifo
    <3>2. i \in DOMAIN asked' /\ asked'[i].by = c
      BY <3>1 DEF Extends
    <3>3. ASSUME NEW j \in DOMAIN asked', asked'[j].kind = "decision", asked'[j].call = c
          PROVE  i < j
      BY <3>1, <3>3 DEF Extends
    <3> QED BY <3>2, <3>3
  <2> QED BY <2>1, <2>2
<1> QED BY <1>1 DEF Fifo

LEMMA FifoStep ==
  ASSUME ApprovalGateAssumption, TypeOK, Queue, Replies, Phases, Fifo, Next
  PROVE  Fifo'
<1> USE DEF runVars, gateVars, entryVars, CallFrame, RunFrame
<1>0. asked \in Seq(Mutations) /\ \A k \in Client : request[k].state = "asked" =>
                                     request[k].call \in Call
  BY DEF TypeOK, Mutations, NoRequest, Served
<1>1. CASE Store
  BY <1>1, FifoStore
<1>2. ASSUME NEW c \in Call, Recorded(c) \/ AbortSettled(c) PROVE Fifo'
  <2>1. /\ c \in Caller /\ reply[c] # "none" /\ Consumed(c)
        /\ UNCHANGED request
    BY <1>2, Distinct DEF Recorded, AbortSettled
  <2>2. \A a \in Caller : reply'[a] = "none"
    BY <2>1, ConsumedLeavesNone
  <2>3. \A d \in Call : d # c => reply[d] = "none"
    BY <2>1, Distinct DEF Replies
  <2>4. /\ \A d \in Call : d # c => pc'[d] = pc[d]
        /\ pc'[c] \notin {"idle", "preflight", "recording"}
    <3>1. CASE Recorded(c)
      BY <3>1 DEF Recorded, SettleDurable, ResolveOnce, RejectOnce, TypeOK, Verdict, Approving
    <3>2. CASE AbortSettled(c)
      <4>1. pc[c] \notin {"idle", "preflight", "recording"}
        BY <3>2 DEF AbortSettled, Phases
      <4> QED BY <3>2, <4>1 DEF AbortSettled, SettleDurable, ResolveOnce, RejectOnce,
                 OnConflict, TypeOK, Verdict, Approving
    <3> QED BY <1>2, <3>1, <3>2
  <2>5. Extends(asked', asked)
    BY <1>2, <2>1, AskAppends, ExtendsItself DEF Recorded, AbortSettled, OnConflict
  <2>6. \A k \in Client : request'[k].state = "asked" =>
          pc'[request'[k].call] \notin {"idle", "preflight"}
    BY <1>0, <2>1, <2>4 DEF Fifo
  <2> QED BY <2>1, <2>2, <2>3, <2>4, <2>5, <2>6, FifoGrows, Distinct
<1>3. ASSUME NEW k \in Client, Answered(k) PROVE Fifo'
  <2>1. /\ k \in Caller /\ reply[k] # "none" /\ Consumed(k) /\ UNCHANGED asked
        /\ request[k].state = "asked" /\ request[k].call \in Call
    BY <1>0, <1>3, Distinct DEF Answered
  <2>2. \A a \in Caller : reply'[a] = "none"
    BY <2>1, ConsumedLeavesNone
  <2>3. \A d \in Call : reply[d] = "none"
    BY <2>1, Distinct DEF Replies
  <2>4. \/ UNCHANGED pc
        \/ /\ \A d \in Call : d # request[k].call => pc'[d] = pc[d]
           /\ pc'[request[k].call] \notin {"idle", "preflight", "recording"}
    <3>1. ScopeOf(request[k].answer) \in Verdict
      BY <1>3 DEF Answered, TypeOK, NoRequest, Served, ScopeOf, AllAnswers, Verdict, Approving
    <3> QED BY <1>3, <2>1, <3>1 DEF Answered, ResolveOnce, TypeOK, Verdict, Approving
  <2>5. \A j \in Client : request'[j].state = "asked" =>
          request[j].state = "asked" /\ request'[j] = request[j]
    BY <1>3 DEF Answered, Told, TypeOK, Served, NoRequest
  <2>6. \A j \in Client : request'[j].state = "asked" =>
          pc'[request'[j].call] \notin {"idle", "preflight"}
    BY <1>0, <2>4, <2>5 DEF Fifo
  <2>7. Extends(asked', asked)
    BY <2>1, ExtendsItself
  <2> QED BY <2>1, <2>2, <2>3, <2>4, <2>6, <2>7, FifoGrows, Distinct
<1>4. CASE Settled
  <2>1. reply[Run] # "none" /\ Consumed(Run) /\ UNCHANGED <<asked, pc, request>>
        /\ Run \in Caller
    BY <1>4, Distinct DEF Settled
  <2>2. \A a \in Caller : reply'[a] = "none"
    BY <2>1, ConsumedLeavesNone
  <2>3. \A d \in Call : reply[d] = "none"
    BY <2>1, Distinct DEF Replies
  <2> QED BY <2>1, <2>2, <2>3, FifoGrows, ExtendsItself, Distinct DEF Fifo
<1>5. ASSUME NEW k \in Client, NEW c \in Call, NEW a \in Answers, Approve(k, c, a)
      PROVE  Fifo'
  <2>1. /\ UNCHANGED <<reply, pc>> /\ request[k].state = "idle" /\ k \in Caller
        /\ a \in AllAnswers
    BY <1>5, Distinct DEF Approve, ApprovalGateAssumption
  <2>2. reply[k] = "none"
    BY <2>1, Distinct DEF Replies, Expected
  <2>3. Extends(asked', asked)
    BY <1>5, <2>1, AskAppends, ExtendsItself DEF Approve
  <2>4. \A j \in Client : j # k => request'[j] = request[j]
    BY <1>5 DEF Approve, Told, TypeOK
  <2>5. request'[k].state = "asked" => request'[k].call = c /\ Pending(c)
    BY <1>5 DEF Approve, Told, TypeOK, Served, NoRequest
  <2>6. \A j \in Client : request'[j].state = "asked" =>
          pc'[request'[j].call] \notin {"idle", "preflight"}
    BY <2>1, <2>4, <2>5 DEF Fifo, Pending
  <2>7. \A d \in Call : pc'[d] = "recording" =>
          \A j \in Client : request'[j].state = "asked" /\ request'[j].call = d =>
            reply'[j] = "none"
    BY <2>1, <2>2, <2>4 DEF Fifo
  <2> QED BY <2>1, <2>3, <2>6, <2>7, FifoGrows
<1>6. ASSUME NEW c \in Call,
             Check(c) \/ Revalidate(c) \/ GivesUp(c) \/ Finish(c)
      PROVE  Fifo'
  <2>1. UNCHANGED <<asked, reply, request>>
    BY <1>6 DEF Check, Revalidate, GivesUp, Finish
  <2>2. \A d \in Call : d # c => pc'[d] = pc[d]
    BY <1>6 DEF Check, Revalidate, GivesUp, Finish, Execute, TypeOK
  <2>3. pc'[c] \in {"executing", "done"} \/ (pc[c] = "idle" /\ pc'[c] = "preflight")
    BY <1>6 DEF Check, Revalidate, GivesUp, Finish, Execute, TypeOK
  <2>4. \A j \in Client : request'[j].state = "asked" =>
          pc'[request'[j].call] \notin {"idle", "preflight"}
    BY <1>0, <2>1, <2>2, <2>3 DEF Fifo
  <2> QED BY <2>1, <2>2, <2>3, <2>4, FifoGrows, ExtendsItself DEF Fifo
<1>7. ASSUME NEW c \in Call, Wait(c) PROVE Fifo'
  <2>1. /\ UNCHANGED <<reply, request>> /\ pc[c] = "preflight" /\ c \in Caller
        /\ \A d \in Call : d # c => pc'[d] = pc[d]
    BY <1>7, Distinct DEF Wait, TypeOK
  <2>2. \A j \in Client : request[j].state = "asked" => request[j].call # c
    BY <2>1 DEF Fifo
  <2>3. CASE UNCHANGED asked /\ pc' = [pc EXCEPT ![c] = "done"]
    <3>1. pc'[c] = "done"
      BY <2>3 DEF TypeOK
    <3> QED BY <1>0, <2>1, <2>2, <2>3, <3>1, FifoGrows, ExtendsItself DEF Fifo
  <2>4. CASE Ask(c, "pending", c, "none") /\ pc' = [pc EXCEPT ![c] = "recording"]
    <3>1. /\ Extends(asked', asked)
          /\ \A i \in DOMAIN asked' \ DOMAIN asked : asked'[i] = Mutation(c, "pending", c, "none")
          /\ \E i \in DOMAIN asked' : asked'[i] = Mutation(c, "pending", c, "none")
      BY <2>1, <2>4, AskAppends
    <3>2. PICK n \in DOMAIN asked' : asked'[n].by = c
      BY <3>1 DEF Mutation
    <3>3. ASSUME NEW j \in DOMAIN asked', asked'[j].kind = "decision"
          PROVE  asked'[j].call # c
      <4>1. j \in DOMAIN asked /\ asked[j] = asked'[j]
        BY <3>1, <3>3 DEF Mutation, Extends
      <4>2. settling[c] = "no"
        BY <2>1 DEF Phases
      <4>3. Entitled(asked[j])
        BY <4>1 DEF Queue
      <4> QED BY <2>1, <2>2, <3>3, <4>1, <4>2, <4>3, Distinct DEF Entitled, EntitledIn
    <3>4. ASSUME NEW d \in Call, d # c, pc[d] = "recording"
          PROVE  \/ reply'[d] # "none"
                 \/ \E i \in DOMAIN asked' :
                      /\ asked'[i].by = d
                      /\ \A j \in DOMAIN asked' :
                           asked'[j].kind = "decision" /\ asked'[j].call = d => i < j
      <4>1. CASE reply[d] # "none"
        BY <2>1, <4>1
      <4>2. CASE reply[d] = "none"
        <5>1. PICK i \in DOMAIN asked :
                /\ asked[i].by = d
                /\ \A j \in DOMAIN asked :
                     asked[j].kind = "decision" /\ asked[j].call = d => i < j
          BY <3>4, <4>2 DEF Fifo
        <5> QED BY <3>1, <5>1 DEF Extends
      <4> QED BY <4>1, <4>2
    <3>5. pc'[c] = "recording"
      BY <2>4 DEF TypeOK
    <3>6. \A d \in Call : pc'[d] = "recording" =>
            \A k \in Client : request'[k].state = "asked" /\ request'[k].call = d =>
              reply'[k] = "none"
      BY <2>1, <2>2 DEF Fifo
    <3>7. \A j \in Client : request'[j].state = "asked" =>
            pc'[request'[j].call] \notin {"idle", "preflight"}
      BY <1>0, <2>1, <2>2 DEF Fifo
    <3> QED BY <2>1, <3>2, <3>3, <3>4, <3>5, <3>6, <3>7 DEF Fifo
  <2> QED BY <1>7, <2>3, <2>4 DEF Wait
<1>8. ASSUME NEW W \in SUBSET Call, NEW f \in BOOLEAN, RequestAbort(W, f),
             UNCHANGED <<reply, pc, request>>
      PROVE  Fifo'
  <2>1. Extends(asked', asked)
    BY <1>8, AbortAppends
  <2> QED BY <1>8, <2>1, FifoGrows DEF Fifo
<1>9. CASE Cancel
  <2>1. {c \in Call : Pending(c)} \in SUBSET Call OBVIOUS
  <2> QED BY <1>8, <1>9, <2>1 DEF Cancel
<1>10. ASSUME NEW c \in Call, CallbackStops(c) PROVE Fifo'
  BY <1>8, <1>10 DEF CallbackStops
<1>11. CASE ClearRun
  <2>1. {c \in Call : Pending(c) /\ session[c] = owner} \in SUBSET Call OBVIOUS
  <2> QED BY <1>8, <1>11, <2>1 DEF ClearRun, Cleared
<1>12. CASE EndRun \/ AskSettle \/ Bind
  <2>1. UNCHANGED <<reply, pc, request>>
    BY <1>12 DEF EndRun, AskSettle, Bind, callVars
  <2>2. Extends(asked', asked)
    BY <1>12, AskAppends, ExtendsItself, Distinct DEF EndRun, AskSettle, Bind, callVars
  <2> QED BY <2>1, <2>2, FifoGrows DEF Fifo
<1>13. CASE Crash
  <2>1. \A c \in Call : pc'[c] # "recording"
    BY <1>13 DEF Crash, Active
  <2>2. \A k \in Client : request'[k].state # "asked"
    BY <1>13 DEF Crash, Served
  <2> QED BY <2>1, <2>2 DEF Fifo
<1> QED BY <1>1, <1>2, <1>3, <1>4, <1>5, <1>6, <1>7, <1>9, <1>10, <1>11, <1>12, <1>13
        DEF Next, Resume

-----------------------------------------------------------------------------
\* Undecided.
LEMMA NoVerdict == /\ {"none", "pending", "terminal", "conflict", "not_pending", "error",
                       "ok", "open"} \cap Verdict = {}
                   /\ Approving \subseteq Verdict
BY DEF Verdict, Approving

LEMMA UndecidedSame ==
  ASSUME Undecided, UNCHANGED <<approval, reply>>,
         \A c \in Call : pc'[c] = "waiting" => pc[c] = "waiting",
         \A k \in Client : reply[k] \in Verdict => request'[k] = request[k]
  PROVE  Undecided'
BY DEF Undecided

\* When an answer is consumed that is no verdict on c, c is undecided.
LEMMA UndecidedConsumed ==
  ASSUME ApprovalGateAssumption, Undecided, Replies, NEW a \in Caller, reply[a] # "none",
         NEW c \in Call, pc[c] = "waiting", c # a \/ reply[a] \notin Verdict,
         a \in Client /\ reply[a] \in Verdict => request[a].call # c
  PROVE  approval[c] = "pending"
BY Distinct, NoVerdict DEF Undecided, Replies

LEMMA UndecidedStore ==
  ASSUME ApprovalGateAssumption, TypeOK, Queue, Undecided, Store
  PROVE  Undecided'
<1>1. /\ \A a \in Caller : reply[a] = "none"
      /\ asked # <<>> /\ UNCHANGED <<pc, request>> /\ Head(asked).by \in Caller
  BY QueueStore DEF OutsideStore, gateVars
<1>2. \A c \in Call : pc[c] = "waiting" => approval[c] = "pending"
  BY <1>1, Distinct, NoVerdict DEF Undecided
<1>3. Entitled(Head(asked)) /\ (Head(asked).kind # "settle" => Head(asked).call \in Call)
  BY <1>1, HeadEntitled
<1>4. CASE RecordPending \/ SettleRun
  <2>1. /\ \/ UNCHANGED approval
           \/ /\ approval[Head(asked).call] = "none"
              /\ approval' = [approval EXCEPT ![Head(asked).call] = "pending"]
    BY <1>4 DEF RecordPending, SettleRun, Only, durableVars
  <2>2. \A c \in Call : approval[c] = "pending" => approval'[c] = "pending"
    BY <2>1 DEF TypeOK
  <2> QED BY <1>1, <1>2, <2>2 DEF Undecided
<1>5. CASE RecordDecision
  <2>1. /\ Head(asked).kind = "decision" /\ Head(asked).call \in Call
    BY <1>3, <1>5 DEF RecordDecision, Turn
  <2>2. \/ UNCHANGED approval
        \/ /\ Answer(Stored(Head(asked).answer))
           /\ approval' = [approval EXCEPT ![Head(asked).call] = Stored(Head(asked).answer)]
    BY <1>5 DEF RecordDecision, Only, durableVars
  <2>3. CASE UNCHANGED approval
    BY <1>1, <1>2, <2>3 DEF Undecided
  <2>4. CASE /\ Answer(Stored(Head(asked).answer))
             /\ approval' = [approval EXCEPT ![Head(asked).call] = Stored(Head(asked).answer)]
    <3>1. Stored(Head(asked).answer) \in Verdict
      <4>1. \A k \in Client : request[k].state = "asked" => request[k].answer \in AllAnswers
        BY DEF TypeOK, NoRequest, Served
      <4>2. Head(asked).answer \in AllAnswers \cup {"aborted"}
        BY <1>3, <2>1, <4>1 DEF Entitled, EntitledIn
      <4> QED BY <4>2 DEF Stored, ScopeOf, AllAnswers, Verdict, Approving
    <3>2. reply'[Head(asked).by] \in Verdict
      BY <1>1, <2>4, <3>1 DEF Answer, TypeOK
    <3>3. \A c \in Call : c # Head(asked).call => approval'[c] = approval[c]
      BY <2>4 DEF TypeOK
    <3>4. \/ Head(asked).by = Head(asked).call
          \/ Head(asked).by \in Client /\ request[Head(asked).by].call = Head(asked).call
      BY <1>3, <2>1 DEF Entitled, EntitledIn
    <3>5. ASSUME NEW c \in Call, pc[c] = "waiting"
          PROVE  \/ approval'[c] = "pending" \/ reply'[c] \in Verdict
                 \/ \E k \in Client : reply'[k] \in Verdict /\ request'[k].call = c
      <4>1. CASE c = Head(asked).call
        BY <1>1, <3>2, <3>4, <4>1
      <4>2. CASE c # Head(asked).call
        BY <1>2, <3>3, <3>5, <4>2
      <4> QED BY <4>1, <4>2
    <3> QED BY <1>1, <3>5 DEF Undecided
  <2> QED BY <2>2, <2>3, <2>4
<1> QED BY <1>4, <1>5 DEF Store

LEMMA UndecidedStep ==
  ASSUME ApprovalGateAssumption, TypeOK, Queue, Replies, Phases, Fifo, Undecided, Next
  PROVE  Undecided'
<1> USE DEF runVars, gateVars, entryVars, CallFrame, RunFrame, durableVars
<1>1. CASE Store
  BY <1>1, UndecidedStore
<1>2. ASSUME NEW c \in Call, Recorded(c) PROVE Undecided'
  <2>1. /\ c \in Caller /\ reply[c] # "none" /\ UNCHANGED approval
        /\ \A d \in Call : d # c => pc'[d] = pc[d]
    BY <1>2, Distinct DEF Recorded, SettleDurable, ResolveOnce, RejectOnce, TypeOK
  <2>2. pc'[c] = "waiting" => reply[c] = "pending"
    BY <1>2 DEF Recorded, SettleDurable, ResolveOnce, RejectOnce, TypeOK, Verdict, Approving
  <2>3. reply[c] = "pending" => approval[c] = "pending"
    BY DEF Replies
  <2>4. \A d \in Call : d # c /\ pc[d] = "waiting" => approval[d] = "pending"
    BY <2>1, UndecidedConsumed, Distinct
  <2> QED BY <2>1, <2>2, <2>3, <2>4 DEF Undecided
<1>3. ASSUME NEW c \in Call, AbortSettled(c) PROVE Undecided'
  <2>1. /\ c \in Caller /\ reply[c] # "none" /\ UNCHANGED approval
        /\ \A d \in Call : d # c => pc'[d] = pc[d]
    BY <1>3, Distinct DEF AbortSettled, OnConflict, SettleDurable, ResolveOnce, RejectOnce, TypeOK
  <2>2. pc'[c] = "waiting" => reply[c] \notin Verdict /\ pc[c] = "waiting"
    BY <1>3 DEF AbortSettled, OnConflict, SettleDurable, ResolveOnce, RejectOnce, TypeOK,
       Verdict, Approving, Pending
  <2>3. \A d \in Call : d # c /\ pc[d] = "waiting" => approval[d] = "pending"
    BY <2>1, UndecidedConsumed, Distinct
  <2>4. pc[c] = "waiting" /\ reply[c] \notin Verdict => approval[c] = "pending"
    BY <2>1, UndecidedConsumed, Distinct
  <2> QED BY <2>1, <2>2, <2>3, <2>4 DEF Undecided
<1>4. ASSUME NEW k \in Client, Answered(k) PROVE Undecided'
  <2> DEFINE c == request[k].call
  <2>1. /\ k \in Caller /\ reply[k] # "none" /\ UNCHANGED approval /\ c \in Call
        /\ k \notin Call
    BY <1>4, Distinct DEF Answered, TypeOK, NoRequest, Served
  <2>2. ScopeOf(request[k].answer) \in Verdict
    BY <1>4 DEF Answered, TypeOK, NoRequest, Served, ScopeOf, AllAnswers, Verdict, Approving
  <2>3. /\ \A d \in Call : d # c => pc'[d] = pc[d]
        /\ pc'[c] = "waiting" => pc[c] = "waiting" /\ reply[k] \notin Verdict
    BY <1>4, <2>1, <2>2 DEF Answered, ResolveOnce, TypeOK, Verdict, Approving, Pending
  <2>4. ASSUME NEW d \in Call, pc'[d] = "waiting" PROVE approval[d] = "pending"
    BY <2>1, <2>3, <2>4, UndecidedConsumed
  <2> QED BY <2>1, <2>4 DEF Undecided
<1>5. ASSUME NEW k \in Client, NEW c \in Call, NEW a \in Answers, Approve(k, c, a)
      PROVE  Undecided'
  <2>1. UNCHANGED <<approval, reply, pc>> /\ request[k].state = "idle"
    BY <1>5 DEF Approve
  <2>2. reply[k] = "none"
    BY <2>1, Distinct DEF Replies, Expected
  <2>3. \A j \in Client : j # k => request'[j] = request[j]
    BY <1>5 DEF Approve, Told, TypeOK
  <2> QED BY <2>1, <2>2, <2>3, UndecidedSame, NoVerdict
<1>6. ASSUME NEW c \in Call,
             Check(c) \/ Wait(c) \/ Revalidate(c) \/ GivesUp(c) \/ Finish(c)
      PROVE  Undecided'
  <2>1. UNCHANGED <<approval, reply, request>>
    BY <1>6 DEF Check, Wait, Revalidate, GivesUp, Finish
  <2>2. pc'[c] # "waiting" /\ \A d \in Call : d # c => pc'[d] = pc[d]
    BY <1>6 DEF Check, Wait, Revalidate, GivesUp, Finish, Execute, TypeOK
  <2> QED BY <2>1, <2>2, UndecidedSame
<1>7. CASE Cancel \/ EndRun \/ AskSettle \/ ClearRun \/ Bind \/ \E c \in Call : CallbackStops(c)
  <2>1. UNCHANGED <<approval, reply, pc, request>>
    BY <1>7 DEF Cancel, EndRun, AskSettle, ClearRun, Bind, CallbackStops, callVars
  <2> QED BY <2>1, UndecidedSame
<1>8. CASE Settled
  <2>1. /\ UNCHANGED <<approval, pc, request>> /\ Run \in Caller /\ reply[Run] # "none"
        /\ Run \notin Call /\ Run \notin Client
    BY <1>8, Distinct DEF Settled
  <2>2. \A d \in Call : pc[d] = "waiting" => approval[d] = "pending"
    BY <2>1, UndecidedConsumed
  <2> QED BY <2>1, <2>2 DEF Undecided
<1>9. CASE Crash
  <2>1. \A c \in Call : pc'[c] # "waiting"
    BY <1>9 DEF Crash, Active
  <2> QED BY <2>1 DEF Undecided
<1> QED BY <1>1, <1>2, <1>3, <1>4, <1>5, <1>6, <1>7, <1>8, <1>9 DEF Next, Resume

-----------------------------------------------------------------------------
\* Verdicts.  What the store does to them.
LEMMA VerdictStore ==
  ASSUME ApprovalGateAssumption, TypeOK, Queue, Store
  PROVE  \/ \A c \in Call : Outcome(c)' = Outcome(c)
         \/ \E c \in Call, v \in Verdict :
              /\ Outcome(c) = "open" /\ Outcome(c)' = v
              /\ \A d \in Call : d # c => Outcome(d)' = Outcome(d)
         \/ \A c \in Call : Outcome(c)' = IF Outcome(c) = "open" THEN "aborted"
                                          ELSE Outcome(c)
<1>1. asked # <<>>
  BY QueueStore
<1>2. CASE UNCHANGED <<approval, status>>
  BY <1>2 DEF Outcome
<1>3. CASE RecordPending
  <2>1. CASE /\ status = "running" /\ approval[Head(asked).call] = "none"
             /\ approval' = [approval EXCEPT ![Head(asked).call] = "pending"]
             /\ UNCHANGED status
    <3>1. ASSUME NEW d \in Call PROVE Outcome(d)' = Outcome(d)
      <4>1. approval'[d] = approval[d] \/ (approval[d] = "none" /\ approval'[d] = "pending")
        BY <2>1 DEF TypeOK
      <4> QED BY <2>1, <4>1, NoVerdict DEF Outcome
    <3> QED BY <3>1
  <2> QED BY <1>2, <1>3, <2>1 DEF RecordPending, Only, durableVars
<1>4. CASE RecordDecision
  <2>0. PICK c, v : c = Head(asked).call /\ v = Stored(Head(asked).answer)
    OBVIOUS
  <2>1. Head(asked).kind = "decision" /\ c \in Call /\ Entitled(Head(asked))
    BY <1>1, <1>4, <2>0, HeadEntitled DEF RecordDecision, Turn
  <2>2. v \in Verdict
    <3>1. \A k \in Client : request[k].state = "asked" => request[k].answer \in AllAnswers
      BY DEF TypeOK, NoRequest, Served
    <3>2. Head(asked).answer \in AllAnswers \cup {"aborted"}
      BY <2>1, <3>1, Distinct DEF Entitled, EntitledIn
    <3> QED BY <2>0, <3>2 DEF Stored, ScopeOf, AllAnswers, Verdict, Approving
  <2>3. CASE /\ status = "running" /\ approval[c] = "pending"
             /\ approval' = [approval EXCEPT ![c] = v] /\ UNCHANGED status
    <3>1. Outcome(c) = "open"
      BY <2>3, NoVerdict DEF Outcome
    <3>2. approval'[c] = v
      BY <2>1, <2>3 DEF TypeOK
    <3>3. Outcome(c)' = v
      BY <2>2, <3>2 DEF Outcome
    <3>4. ASSUME NEW d \in Call, d # c PROVE Outcome(d)' = Outcome(d)
      <4>1. approval'[d] = approval[d]
        BY <2>3, <3>4 DEF TypeOK
      <4> QED BY <2>3, <4>1 DEF Outcome
    <3> QED BY <2>1, <2>2, <3>1, <3>3, <3>4
  <2> QED BY <1>2, <1>4, <2>0, <2>3 DEF RecordDecision, Only, durableVars, MayDecide
<1>5. CASE SettleRun
  <2>1. CASE status = "running" /\ status' = "terminal" /\ UNCHANGED approval
    <3>1. ASSUME NEW c \in Call
          PROVE  Outcome(c)' = IF Outcome(c) = "open" THEN "aborted" ELSE Outcome(c)
      BY <2>1, NoVerdict DEF Outcome
    <3> QED BY <3>1
  <2> QED BY <1>2, <1>5, <2>1 DEF SettleRun, Only, durableVars
<1> QED BY <1>3, <1>4, <1>5 DEF Store

Settles == UNCHANGED <<approval, status>> \/ Store

LEMMA StoreOrSame == Next => Settles
BY DEF Next, Resume, Settles, Recorded, AbortSettled, Answered, Settled, Approve, Check,
   Wait, Revalidate, GivesUp, Finish, CallbackStops, Cancel, EndRun, AskSettle,
   ClearRun, Bind, Crash, CallFrame, RunFrame, durableVars

\* A verdict stays, and so does a decision.
LEMMA VerdictKept ==
  ASSUME ApprovalGateAssumption, TypeOK, Queue, Settles, NEW c \in Call
  PROVE  /\ Outcome(c) \in Verdict => Outcome(c)' = Outcome(c)
         /\ approval[c] \in Verdict => approval'[c] = approval[c]
<1>1. CASE UNCHANGED <<approval, status>>
  BY <1>1 DEF Outcome
<1>2. CASE Store
  <2>1. Outcome(c) \in Verdict => Outcome(c)' = Outcome(c)
    BY <1>2, VerdictStore, NoVerdict
  <2>2. ASSUME approval[c] \in Verdict PROVE approval'[c] = approval[c]
    <3>1. Outcome(c) = approval[c]
      BY <2>2 DEF Outcome
    <3>2. \A d \in Call : approval'[d] # approval[d] => approval[d] \in {"none", "pending"}
      BY <1>2 DEF Store, RecordPending, RecordDecision, SettleRun, Only, durableVars,
         MayDecide, TypeOK
    <3> QED BY <2>2, <3>2, NoVerdict
  <2> QED BY <2>1, <2>2
<1> QED BY <1>1, <1>2 DEF Settles

-----------------------------------------------------------------------------
\* What a call learns when it is settled, and what is left of it.
Resolves(c, v) ==
  /\ pc'[c] = IF v \in Approving THEN "approved" ELSE v
  /\ \A d \in Call : d # c => pc'[d] = pc[d] /\ resolved'[d] = resolved[d]
  /\ \/ resolved'[c] = NoResolved /\ forget[c]
     \/ resolved'[c].session = session[c] /\ resolved'[c].verdict = v /\ ~forget[c]
  /\ heard' = heard \cup {<<c, v>>}
  /\ \/ grants' = grants
     \/ /\ v \in {"run", "session"}
        /\ grants' = grants \cup {[session |-> session[c], scope |-> v,
                                   level |-> Level(c)]}

Leaves(c) ==
  /\ pc'[c] \in {pc[c], "waiting", "failed"}
  /\ \A d \in Call : d # c => pc'[d] = pc[d]
  /\ UNCHANGED <<resolved, heard, grants>>

LEMMA ResolvesOnce ==
  ASSUME TypeOK, NEW c \in Call, NEW v \in Verdict, NEW m, ResolveOnce(c, v, m),
         \/ grants' = grants
         \/ v \in Approving /\ grants' = Registered(c, v)
  PROVE  Resolves(c, v)
<1>1. /\ pc'[c] = IF v \in Approving THEN "approved" ELSE v
      /\ \A d \in Call : d # c => pc'[d] = pc[d]
  BY DEF ResolveOnce, TypeOK
<1>2. /\ \A d \in Call : d # c => resolved'[d] = resolved[d]
      /\ \/ resolved'[c] = NoResolved /\ forget[c]
         \/ resolved'[c].session = session[c] /\ resolved'[c].verdict = v /\ ~forget[c]
  BY DEF ResolveOnce, TypeOK
<1>3. heard' = heard \cup {<<c, v>>}
  BY DEF ResolveOnce
<1>4. \/ grants' = grants
      \/ /\ v \in {"run", "session"}
         /\ grants' = grants \cup {[session |-> session[c], scope |-> v,
                                    level |-> Level(c)]}
  BY DEF Registered, Approving
<1> QED BY <1>1, <1>2, <1>3, <1>4 DEF Resolves

LEMMA SettleResolves ==
  ASSUME TypeOK, NEW c \in Call, NEW v \in Verdict, SettleDurable(c, v)
  PROVE  Resolves(c, v)
BY ResolvesOnce DEF SettleDurable

Learns(c) == Leaves(c) \/ \E v \in Verdict : Outcome(c) = v /\ Resolves(c, v)

LEMMA RecordedLearns ==
  ASSUME ApprovalGateAssumption, TypeOK, Replies, Phases, NEW c \in Call, Recorded(c)
  PROVE  Learns(c)
<1>1. CASE reply[c] \in Verdict /\ SettleDurable(c, reply[c])
  <2>1. Outcome(c) = reply[c]
    BY <1>1 DEF Outcome, Replies
  <2> QED BY <1>1, <2>1, SettleResolves DEF Learns
<1>2. CASE reply[c] = "terminal" /\ ResolveOnce(c, "aborted", "none") /\ UNCHANGED grants
  <2>1. status = "terminal" /\ Active(c)
    BY <1>2, Distinct DEF Replies, Recorded, Active
  <2>2. c \in Callback /\ pc[c] = "recording"
    BY <2>1 DEF Phases, Recorded
  <2>3. approval[c] \in {"none", "pending"}
    BY <2>2 DEF Phases
  <2>4. Outcome(c) = "aborted" /\ "aborted" \in Verdict
    BY <2>1, <2>3, NoVerdict DEF Outcome, Verdict
  <2> QED BY <1>2, <2>4, ResolvesOnce DEF Learns
<1>3. CASE /\ pc' = [pc EXCEPT ![c] = "waiting"] \/ pc' = [pc EXCEPT ![c] = "failed"]
           /\ UNCHANGED <<resolved, heard, grants>>
  BY <1>3 DEF Learns, Leaves, TypeOK
<1> QED BY <1>1, <1>2, <1>3 DEF Recorded, RejectOnce

LEMMA AbortSettledLearns ==
  ASSUME ApprovalGateAssumption, TypeOK, Replies, Phases, Undecided,
         NEW c \in Call, AbortSettled(c)
  PROVE  Learns(c)
<1>1. CASE Pending(c) /\ reply[c] \in Verdict /\ SettleDurable(c, reply[c])
  <2>1. Outcome(c) = reply[c]
    BY <1>1 DEF Outcome, Replies
  <2> QED BY <1>1, <2>1, SettleResolves DEF Learns
<1>2. CASE /\ Pending(c) /\ reply[c] = "terminal" /\ ResolveOnce(c, "aborted", "none")
           /\ UNCHANGED grants
  <2>1. status = "terminal" /\ c \in Caller /\ c \notin Client
    BY <1>2, Distinct DEF Replies
  <2>2. pc[c] = "waiting"
    BY <1>2 DEF Pending, Phases, AbortSettled
  <2>3. approval[c] = "pending"
    BY <1>2, <2>1, <2>2, UndecidedConsumed, NoVerdict
  <2>4. Outcome(c) = "aborted" /\ "aborted" \in Verdict
    BY <2>1, <2>3, NoVerdict DEF Outcome, Verdict
  <2> QED BY <1>2, <2>4, ResolvesOnce DEF Learns
<1>3. CASE /\ UNCHANGED pc \/ pc' = [pc EXCEPT ![c] = "failed"]
           /\ UNCHANGED <<resolved, heard, grants>>
  BY <1>3 DEF Learns, Leaves, TypeOK
<1> QED BY <1>1, <1>2, <1>3 DEF AbortSettled, RejectOnce, OnConflict

\* What a client is told, when it settles nothing.
Hears(c) ==
  /\ UNCHANGED <<pc, resolved, grants>>
  /\ \/ UNCHANGED heard
     \/ Outcome(c) \in Verdict /\ heard' = heard \cup {<<c, Outcome(c)>>}

LEMMA ToldHears ==
  ASSUME TypeOK, Truthful, NEW k \in Client, NEW c \in Call, NEW a, NEW otherwise,
         otherwise # "resolved",
         UNCHANGED <<pc, resolved, grants>>,
         \/ Told(k, c, a, otherwise)
         \/ Told(k, c, a, ReadResolved(c, a, otherwise))
  PROVE  Hears(c)
<1>1. CASE UNCHANGED heard
  BY <1>1 DEF Hears
<1>2. CASE /\ resolved[c] # NoResolved /\ resolved[c].verdict = ScopeOf(a)
           /\ heard' = heard \cup {<<c, ScopeOf(a)>>}
  <2>1. resolved[c].verdict \in Verdict
    BY <1>2 DEF TypeOK
  <2>2. Outcome(c) = resolved[c].verdict
    BY <1>2 DEF Truthful
  <2> QED BY <1>2, <2>1, <2>2 DEF Hears
<1> QED BY <1>1, <1>2 DEF Told, ReadResolved

LEMMA AnsweredLearns ==
  ASSUME ApprovalGateAssumption, TypeOK, Replies, Truthful, NEW k \in Client, Answered(k)
  PROVE  LET c == request[k].call IN
         c \in Call /\ (Hears(c) \/ (Learns(c) /\ Pending(c) /\ approval[c] = reply[k]))
<1> DEFINE c == request[k].call
           a == request[k].answer
<1>1. c \in Call /\ a \in AllAnswers
  BY DEF Answered, TypeOK, NoRequest, Served
<1>2. CASE /\ UNCHANGED <<pc, resolved, grants>>
           /\ \/ \E w \in {"already", "not_found", "error"} : Told(k, c, a, w)
              \/ Told(k, c, a, ReadResolved(c, a, "already"))
  BY <1>1, <1>2, ToldHears
<1>3. CASE /\ reply[k] \in Verdict /\ Pending(c)
           /\ grants' = IF a = "denied" THEN grants ELSE Registered(c, ScopeOf(a))
           /\ ResolveOnce(c, ScopeOf(a), IF a = "full" THEN "full" ELSE "none")
  <2>1. reply[k] = ScopeOf(a) /\ approval[c] = reply[k]
    BY <1>3 DEF Replies
  <2>2. Outcome(c) = ScopeOf(a) /\ ScopeOf(a) \in Verdict
    BY <1>3, <2>1 DEF Outcome
  <2>3. grants' = grants \/ (ScopeOf(a) \in Approving /\ grants' = Registered(c, ScopeOf(a)))
    BY <1>1, <1>3 DEF ScopeOf, AllAnswers, Approving
  <2>4. Resolves(c, ScopeOf(a))
    BY <1>1, <1>3, <2>2, <2>3, ResolvesOnce
  <2> QED BY <1>1, <1>3, <2>1, <2>2, <2>4 DEF Learns
<1> QED BY <1>2, <1>3 DEF Answered

-----------------------------------------------------------------------------
\* What was learnt stays true, because verdicts stay.
LEMMA TruthfulFrame ==
  ASSUME ApprovalGateAssumption, TypeOK, Queue, Truthful, Settles,
         \A c \in Call : pc'[c] = "approved" =>
           pc[c] = "approved" \/ approval[c] \in Approving,
         \A c \in Call : \/ resolved'[c] \in {resolved[c], NoResolved}
                         \/ Outcome(c) \in Verdict /\ resolved'[c].verdict = Outcome(c),
         \A h \in heard' : \/ h \in heard
                           \/ /\ h[1] \in Call /\ Outcome(h[1]) \in Verdict
                              /\ h[2] = Outcome(h[1])
  PROVE  Truthful'
<1>1. ASSUME NEW c \in Call, pc'[c] = "approved" PROVE approval'[c] \in Approving
  <2>1. approval[c] \in Approving
    BY <1>1 DEF Truthful
  <2> QED BY <2>1, VerdictKept, NoVerdict
<1>2. ASSUME NEW c \in Call, resolved'[c] # NoResolved
      PROVE  Outcome(c)' = resolved'[c].verdict
  <2>1. Outcome(c) \in Verdict /\ resolved'[c].verdict = Outcome(c)
    <3>1. CASE resolved'[c] = resolved[c]
      <4>1. resolved[c].verdict \in Verdict
        BY <1>2, <3>1 DEF TypeOK
      <4> QED BY <1>2, <3>1, <4>1 DEF Truthful
    <3> QED BY <1>2, <3>1
  <2> QED BY <2>1, VerdictKept
<1>3. ASSUME NEW h \in heard' PROVE Outcome(h[1])' = h[2]
  <2>1. h[1] \in Call /\ Outcome(h[1]) \in Verdict /\ h[2] = Outcome(h[1])
    BY <1>3 DEF Truthful, TypeOK
  <2>2. ASSUME NEW c \in Call, c = h[1] PROVE Outcome(c)' = h[2]
    BY <2>1, <2>2, VerdictKept
  <2> QED BY <2>1, <2>2
<1> QED BY <1>1, <1>2, <1>3 DEF Truthful

LEMMA TruthfulLearns ==
  ASSUME ApprovalGateAssumption, TypeOK, Queue, Truthful, Settles,
         NEW c \in Call, Learns(c) \/ Hears(c)
  PROVE  Truthful'
<1>1. CASE Leaves(c)
  <2>1. \A d \in Call : pc'[d] = "approved" => pc[d] = "approved"
    BY <1>1 DEF Leaves
  <2>2. UNCHANGED <<resolved, heard>>
    BY <1>1 DEF Leaves
  <2> QED BY <2>1, <2>2, TruthfulFrame
<1>2. ASSUME NEW v \in Verdict, Outcome(c) = v, Resolves(c, v) PROVE Truthful'
  <2>1. \A d \in Call : pc'[d] = "approved" => pc[d] = "approved" \/ approval[d] \in Approving
    BY <1>2 DEF Resolves, Outcome, Verdict, Approving
  <2>2. \A d \in Call : \/ resolved'[d] \in {resolved[d], NoResolved}
                        \/ Outcome(d) \in Verdict /\ resolved'[d].verdict = Outcome(d)
    BY <1>2 DEF Resolves
  <2>3. \A h \in heard' : h \in heard \/ h = <<c, v>>
    BY <1>2 DEF Resolves
  <2> QED BY <1>2, <2>1, <2>2, <2>3, TruthfulFrame
<1>3. CASE Hears(c)
  <2>1. UNCHANGED <<pc, resolved>> /\ \A h \in heard' :
          h \in heard \/ (h = <<c, Outcome(c)>> /\ Outcome(c) \in Verdict)
    BY <1>3 DEF Hears
  <2> QED BY <2>1, TruthfulFrame
<1> QED BY <1>1, <1>2, <1>3 DEF Learns

LEMMA ApproveHears ==
  ASSUME TypeOK, Truthful, NEW k \in Client, NEW c \in Call, NEW a \in Answers,
         Approve(k, c, a)
  PROVE  Hears(c)
<1>1. UNCHANGED <<pc, resolved, grants>>
  BY DEF Approve, gateVars
<1>2. CASE Told(k, c, a, "refused") \/ Told(k, c, a, ReadResolved(c, a, "not_found"))
  BY <1>1, <1>2, ToldHears
<1>3. CASE UNCHANGED heard
  BY <1>1, <1>3 DEF Hears
<1> QED BY <1>2, <1>3 DEF Approve

LEMMA TruthfulStep ==
  ASSUME ApprovalGateAssumption, TypeOK, Queue, Replies, Phases, Undecided, Truthful, Next
  PROVE  Truthful'
<1> USE DEF gateVars, entryVars, CallFrame, RunFrame
<1>0. Settles
  BY StoreOrSame
<1>1. ASSUME UNCHANGED heard, \A c \in Call : pc'[c] = "approved" => pc[c] = "approved",
             \A c \in Call : resolved'[c] \in {resolved[c], NoResolved}
      PROVE  Truthful'
  BY <1>0, <1>1, TruthfulFrame
<1>2. CASE Store
  <2>1. UNCHANGED <<pc, resolved, heard>>
    BY <1>2, QueueStore DEF OutsideStore, historyVars
  <2> QED BY <1>1, <2>1
<1>3. ASSUME NEW c \in Call, Recorded(c) \/ AbortSettled(c) PROVE Truthful'
  BY <1>0, <1>3, RecordedLearns, AbortSettledLearns, TruthfulLearns
<1>4. ASSUME NEW k \in Client, Answered(k) PROVE Truthful'
  BY <1>0, <1>4, AnsweredLearns, TruthfulLearns
<1>5. ASSUME NEW k \in Client, NEW c \in Call, NEW a \in Answers, Approve(k, c, a)
      PROVE  Truthful'
  BY <1>0, <1>5, ApproveHears, TruthfulLearns
<1>6. ASSUME NEW c \in Call,
             Check(c) \/ Wait(c) \/ Revalidate(c) \/ GivesUp(c) \/ Finish(c)
      PROVE  Truthful'
  <2>1. UNCHANGED <<resolved, heard>>
    BY <1>6 DEF Check, Wait, Revalidate, GivesUp, Finish
  <2>2. \A d \in Call : pc'[d] = "approved" => pc[d] = "approved"
    BY <1>6 DEF Check, Wait, Revalidate, GivesUp, Finish, Execute, TypeOK
  <2> QED BY <1>1, <2>1, <2>2
<1>7. CASE Cancel \/ EndRun \/ AskSettle \/ ClearRun \/ Bind \/ Settled
           \/ \E c \in Call : CallbackStops(c)
  <2>1. UNCHANGED <<pc, heard>>
    BY <1>7 DEF Cancel, EndRun, AskSettle, ClearRun, Bind, Settled, CallbackStops, historyVars
  <2>2. \A c \in Call : resolved'[c] \in {resolved[c], NoResolved}
    BY <1>7 DEF Cancel, EndRun, AskSettle, ClearRun, Cleared, Bind, Settled, CallbackStops
  <2> QED BY <1>1, <2>1, <2>2
<1>8. CASE Crash
  <2>1. UNCHANGED heard /\ \A c \in Call : resolved'[c] = NoResolved
    BY <1>8 DEF Crash, historyVars
  <2>2. \A c \in Call : pc'[c] # "approved"
    BY <1>8 DEF Crash, Active
  <2> QED BY <1>1, <2>1, <2>2
<1> QED BY <1>2, <1>3, <1>4, <1>5, <1>6, <1>7, <1>8 DEF Next, Resume

-----------------------------------------------------------------------------
\* Grants and full access come from approvals.
LEMMA BackedFrame ==
  ASSUME ApprovalGateAssumption, TypeOK, Queue, Backed, Settles,
         \A g \in grants' :
           \/ \E h \in grants : h.level = g.level /\ h.scope = g.scope
           \/ \E d \in Call : Level(d) = g.level /\ approval[d] = g.scope
                              /\ g.scope \in Verdict,
         savedMode = "full" => savedMode' = "full",
         mode' = "full" => mode = "full" \/ savedMode = "full"
  PROVE  Backed'
<1>1. ASSUME NEW g \in grants' PROVE \E d \in Call : Level(d) = g.level /\ approval'[d] = g.scope
  <2>1. PICK d \in Call : Level(d) = g.level /\ approval[d] = g.scope /\ g.scope \in Verdict
    <3>1. \A h \in grants : h.scope \in Verdict
      BY DEF TypeOK, Grant, Verdict, Approving
    <3> QED BY <1>1, <3>1 DEF Backed
  <2> QED BY <2>1, VerdictKept
<1>2. mode' = "full" => savedMode' = "full"
  BY DEF Backed
<1> QED BY <1>1, <1>2 DEF Backed

LEMMA LearnsGrants ==
  ASSUME NEW c \in Call, Learns(c) \/ Hears(c)
  PROVE  \A g \in grants' :
           \/ g \in grants
           \/ \E d \in Call : Level(d) = g.level /\ approval[d] = g.scope
                              /\ g.scope \in Verdict
<1>1. CASE Leaves(c) \/ Hears(c)
  BY <1>1 DEF Leaves, Hears
<1>2. ASSUME NEW v \in Verdict, Outcome(c) = v, Resolves(c, v), NEW g \in grants', g \notin grants
      PROVE  Level(c) = g.level /\ approval[c] = g.scope /\ g.scope \in Verdict
  BY <1>2 DEF Resolves, Outcome
<1> QED BY <1>1, <1>2 DEF Learns

LEMMA BackedStep ==
  ASSUME ApprovalGateAssumption, TypeOK, Queue, Replies, Phases, Undecided, Truthful,
         Backed, Next
  PROVE  Backed'
<1> USE DEF gateVars, entryVars, runVars, CallFrame, RunFrame, durableVars
<1>0. Settles
  BY StoreOrSame
<1>1. ASSUME grants' \subseteq grants, savedMode = "full" => savedMode' = "full",
             mode' = "full" => mode = "full" \/ savedMode = "full"
      PROVE  Backed'
  BY <1>0, <1>1, BackedFrame
<1>2. CASE Store
  <2>1. UNCHANGED <<grants, mode>>
    BY <1>2, QueueStore DEF OutsideStore
  <2>2. savedMode = "full" => savedMode' = "full"
    BY <1>2 DEF Store, RecordPending, RecordDecision, SettleRun, Only
  <2> QED BY <1>1, <2>1, <2>2
<1>3. ASSUME NEW c \in Call, Recorded(c) \/ AbortSettled(c) PROVE Backed'
  <2>1. UNCHANGED <<savedMode, mode>>
    BY <1>3 DEF Recorded, AbortSettled
  <2> QED BY <1>0, <1>3, <2>1, RecordedLearns, AbortSettledLearns, LearnsGrants, BackedFrame
<1>4. ASSUME NEW k \in Client, Answered(k) PROVE Backed'
  <2>1. UNCHANGED savedMode /\ (mode' = mode \/ (request[k].answer = "full" /\ reply[k] \in Verdict))
    BY <1>4 DEF Answered
  <2>2. mode' = mode \/ savedMode = "full"
    BY <2>1 DEF Replies
  <2> QED BY <1>0, <1>4, <2>1, <2>2, AnsweredLearns, LearnsGrants, BackedFrame
<1>5. CASE \/ \E k \in Client, c \in Call, a \in Answers : Approve(k, c, a)
           \/ \E c \in Call : \/ Check(c) \/ Wait(c) \/ Revalidate(c) \/ GivesUp(c)
                              \/ Finish(c) \/ CallbackStops(c)
           \/ Cancel \/ EndRun \/ AskSettle \/ Settled
  <2>1. UNCHANGED <<grants, savedMode, mode>>
    BY <1>5 DEF Approve, Check, Wait, Revalidate, GivesUp, Finish, CallbackStops,
       Cancel, EndRun, AskSettle, Settled
  <2> QED BY <1>1, <2>1
<1>6. CASE ClearRun
  BY <1>1, <1>6 DEF ClearRun, Cleared
<1>7. CASE Bind
  <2>1. UNCHANGED <<savedMode, mode>>
    BY <1>7 DEF Bind
  <2>2. \A g \in grants' : \E h \in grants : h.level = g.level /\ h.scope = g.scope
    BY <1>7 DEF Bind, TypeOK, Grant
  <2> QED BY <1>0, <2>1, <2>2, BackedFrame
<1>8. CASE Crash
  BY <1>1, <1>8 DEF Crash
<1> QED BY <1>2, <1>3, <1>4, <1>5, <1>6, <1>7, <1>8 DEF Next, Resume

-----------------------------------------------------------------------------
\* While a call of the loop is to be made again, nothing else goes on.
LEMMA FreshFrame ==
  ASSUME Fresh,
         \A c \in Call \ Callback : Replayed(c)' => Replayed(c),
         ~cell => ~cell', grants = {} => grants' = {},
         \A d \in Call : Active(d)' => Active(d),
         (\A d \in Call : ~Active(d) /\ settling[d] = "no") =>
           \A d \in Call : settling'[d] = "no",
         \A k \in Client : request'[k].state = "asked" => request[k].state = "asked"
  PROVE  Fresh'
BY DEF Fresh

\* One call moves: then no call is replayed while it is active.
LEMMA FreshMoves ==
  ASSUME ApprovalGateAssumption, Fresh, NEW c \in Call,
         Active(c) \/ settling[c] # "no" \/ \E k \in Client : request[k].state = "asked",
         pc'[c] # "idle" \/ pc'[c] = pc[c],
         \A d \in Call : d # c => pc'[d] = pc[d], UNCHANGED approval,
         \A d \in Call : ranBy'[d] = ranBy[d] \/ pc'[d] # "idle"
  PROVE  Fresh'
<1>1. \A d \in Call \ Callback : ~Replayed(d)
  BY DEF Fresh
<1>2. \A d \in Call \ Callback : ~Replayed(d)'
  BY <1>1 DEF Replayed
<1> QED BY <1>2 DEF Fresh

LEMMA FreshStore ==
  ASSUME ApprovalGateAssumption, TypeOK, Queue, Phases, Fresh, Store
  PROVE  Fresh'
<1>1. asked # <<>> /\ UNCHANGED <<pc, ranBy, cell, grants, settling, request>>
  BY QueueStore DEF OutsideStore, gateVars, entryVars, runVars, historyVars
<1>2. \A d \in Call : approval'[d] # approval[d] =>
        \/ approval[d] = "pending"
        \/ RecordPending /\ d = Head(asked).call
  BY DEF Store, RecordPending, RecordDecision, SettleRun, Only, durableVars,
         MayDecide, TypeOK
<1>3. RecordPending => pc[Head(asked).call] # "idle"
  <2> SUFFICES ASSUME RecordPending PROVE pc[Head(asked).call] # "idle"
    OBVIOUS
  <2>1. Entitled(Head(asked)) /\ Head(asked).kind = "pending" /\ Head(asked).call \in Call
    BY <1>1, HeadEntitled DEF RecordPending, Turn
  <2>2. \/ pc[Head(asked).call] = "recording"
        \/ settling[Head(asked).call] = "rereading"
    BY <2>1 DEF Entitled, EntitledIn
  <2> QED BY <2>1, <2>2 DEF Phases
<1>4. ASSUME NEW c \in Call \ Callback, Replayed(c)' PROVE Replayed(c)
  <2>1. pc[c] = "idle" /\ (approval'[c] # "none" \/ ranBy[c] # "none")
    BY <1>1, <1>4 DEF Replayed
  <2>2. approval'[c] = approval[c] \/ approval[c] = "pending"
    BY <1>2, <1>3, <2>1
  <2> QED BY <2>1, <2>2 DEF Replayed
<1> QED BY <1>1, <1>4, FreshFrame DEF Active

LEMMA FreshStep ==
  ASSUME ApprovalGateAssumption, TypeOK, Queue, Replies, Phases, Undecided, Truthful,
         Fresh, Next
  PROVE  Fresh'
<1> USE DEF gateVars, entryVars, runVars, CallFrame, RunFrame, durableVars, historyVars
<1>0. Callback \subseteq Call
  BY DEF ApprovalGateAssumption
<1>1. CASE Store
  BY <1>1, FreshStore
<1>2. ASSUME NEW c \in Call, Recorded(c) \/ AbortSettled(c) PROVE Fresh'
  <2>1. Learns(c) /\ UNCHANGED <<approval, ranBy>> /\ (Active(c) \/ settling[c] # "no")
    BY <1>2, RecordedLearns, AbortSettledLearns DEF Recorded, AbortSettled, Active
  <2>2. (pc'[c] # "idle" \/ pc'[c] = pc[c]) /\ \A d \in Call : d # c => pc'[d] = pc[d]
    BY <2>1 DEF Learns, Leaves, Resolves, Verdict, Approving
  <2> QED BY <2>1, <2>2, FreshMoves
<1>3. ASSUME NEW k \in Client, Answered(k) PROVE Fresh'
  <2>1. PICK c \in Call : Hears(c) \/ Learns(c)
    BY <1>3, AnsweredLearns
  <2>2. UNCHANGED <<approval, ranBy>> /\ request[k].state = "asked"
    BY <1>3 DEF Answered
  <2>3. (pc'[c] # "idle" \/ pc'[c] = pc[c]) /\ \A d \in Call : d # c => pc'[d] = pc[d]
    BY <2>1 DEF Hears, Learns, Leaves, Resolves, Verdict, Approving
  <2> QED BY <2>2, <2>3, FreshMoves
<1>4. ASSUME NEW k \in Client, NEW c \in Call, NEW a \in Answers, Approve(k, c, a)
      PROVE  Fresh'
  <2>1. UNCHANGED <<approval, ranBy, pc, cell, grants, settling>>
    BY <1>4 DEF Approve
  <2>2. CASE Pending(c)
    BY <2>1, <2>2, FreshMoves DEF Pending, Active
  <2>3. CASE ~Pending(c)
    <3>1. request' = [request EXCEPT ![k] = Served]
      BY <1>4, <2>3 DEF Approve, Told
    <3>2. \A j \in Client : request'[j].state = "asked" => request[j].state = "asked"
      BY <3>1 DEF TypeOK, Served, NoRequest
    <3> QED BY <2>1, <3>2, FreshFrame DEF Replayed, Active
  <2> QED BY <2>2, <2>3
<1>5. ASSUME NEW c \in Call, Check(c) PROVE Fresh'
  <2>1. /\ UNCHANGED approval /\ \A d \in Call : d # c => pc'[d] = pc[d]
        /\ pc'[c] # "idle" /\ \A d \in Call : ranBy'[d] = ranBy[d] \/ pc'[d] # "idle"
    BY <1>5 DEF Check, Execute, TypeOK
  <2>2. \A d \in Call \ Callback : d # c => ~Replayed(d)
    BY <1>5 DEF Check, MayStart, Fresh
  <2>3. ASSUME NEW d \in Call \ Callback PROVE ~Replayed(d)'
    BY <2>1, <2>2 DEF Replayed
  <2> QED BY <2>3 DEF Fresh
<1>6. ASSUME NEW c \in Call, Wait(c) \/ Revalidate(c) \/ GivesUp(c) \/ Finish(c)
      PROVE  Fresh'
  <2>1. /\ UNCHANGED approval /\ \A d \in Call : d # c => pc'[d] = pc[d]
        /\ pc'[c] # "idle" /\ Active(c)
        /\ \A d \in Call : ranBy'[d] = ranBy[d] \/ pc'[d] # "idle"
    BY <1>6 DEF Wait, Revalidate, GivesUp, Finish, Execute, TypeOK, Active
  <2> QED BY <2>1, FreshMoves
<1>7. ASSUME NEW W \in SUBSET {c \in Call : Pending(c)}, NEW f, RequestAbort(W, f)
      PROVE  (\A d \in Call : ~Active(d) /\ settling[d] = "no") =>
               \A d \in Call : settling'[d] = "no"
  BY <1>7 DEF RequestAbort, Pending, Active
<1>8. CASE Cancel \/ ClearRun \/ \E c \in Call : CallbackStops(c)
  <2>1. /\ UNCHANGED <<pc, approval, ranBy, cell, request>> /\ grants' \subseteq grants
        /\ \E W \in SUBSET {c \in Call : Pending(c)}, f \in BOOLEAN : RequestAbort(W, f)
    BY <1>8 DEF Cancel, ClearRun, Cleared, CallbackStops
  <2> QED BY <1>7, <2>1, FreshFrame DEF Replayed, Active
<1>9. CASE EndRun \/ AskSettle \/ Settled
  <2>1. UNCHANGED <<pc, approval, ranBy, cell, request, grants, settling>>
    BY <1>9 DEF EndRun, AskSettle, Settled
  <2> QED BY <2>1, FreshFrame DEF Replayed, Active
<1>10. CASE Bind
  <2>1. /\ UNCHANGED <<pc, approval, ranBy, cell, request, settling>>
        /\ grants = {} => grants' = {}
    BY <1>10 DEF Bind
  <2> QED BY <2>1, FreshFrame DEF Replayed, Active
<1>11. CASE Crash
  <2>1. /\ ~cell' /\ grants' = {} /\ \A d \in Call : settling'[d] = "no"
        /\ \A d \in Call : pc'[d] \in {"idle", "done"}
    BY <1>11 DEF Crash, Active
  <2>2. \A k \in Client : request'[k].state # "asked"
    BY <1>11 DEF Crash, Served, NoRequest
  <2> QED BY <2>1, <2>2 DEF Fresh, Active
<1> QED BY <1>1, <1>2, <1>3, <1>4, <1>5, <1>6, <1>8, <1>9, <1>10, <1>11 DEF Next, Resume

-----------------------------------------------------------------------------
\* A run that was not recovered has one session.
LEMMA OursFrame ==
  ASSUME Ours, UNCHANGED owner, context' \in {context, "daemon"},
         \A c \in Call : session'[c] \in {session[c], context, "daemon"},
         \A c \in Call : resolved'[c] \in {resolved[c], NoResolved}
                         \/ resolved'[c].session = session[c],
         \A g \in grants' : g.session = "daemon" \/ g \in grants
                            \/ \E c \in Call : g.session = session[c]
  PROVE  Ours'
BY DEF Ours, NoResolved

LEMMA OursStep ==
  ASSUME ApprovalGateAssumption, TypeOK, Queue, Replies, Phases, Undecided, Truthful,
         Ours, Next
  PROVE  Ours'
<1> USE DEF gateVars, entryVars, runVars, CallFrame, RunFrame
<1>1. ASSUME NEW c \in Call, Learns(c) \/ Hears(c), UNCHANGED <<session, context, owner>>
      PROVE  Ours'
  <2>1. /\ \A d \in Call : \/ resolved'[d] \in {resolved[d], NoResolved}
                           \/ resolved'[d].session = session[d]
        /\ \A g \in grants' : g \in grants \/ g.session = session[c]
    BY <1>1 DEF Learns, Leaves, Resolves, Hears
  <2> QED BY <1>1, <2>1, OursFrame
<1>2. ASSUME UNCHANGED <<session, context, owner, resolved>>, grants' \subseteq grants
      PROVE  Ours'
  BY <1>2, OursFrame
<1>3. CASE Store
  <2>1. UNCHANGED <<session, context, owner, resolved, grants>>
    BY <1>3, QueueStore DEF OutsideStore
  <2> QED BY <1>2, <2>1
<1>4. ASSUME NEW c \in Call, Recorded(c) \/ AbortSettled(c) PROVE Ours'
  <2>1. UNCHANGED <<session, context, owner>>
    BY <1>4 DEF Recorded, AbortSettled
  <2> QED BY <1>1, <1>4, <2>1, RecordedLearns, AbortSettledLearns
<1>5. ASSUME NEW k \in Client, Answered(k) PROVE Ours'
  <2>1. UNCHANGED <<session, context, owner>>
    BY <1>5 DEF Answered
  <2> QED BY <1>1, <1>5, <2>1, AnsweredLearns
<1>6. CASE \/ \E k \in Client, c \in Call, a \in Answers : Approve(k, c, a)
           \/ \E c \in Call : \/ Check(c) \/ Revalidate(c) \/ GivesUp(c)
                              \/ Finish(c) \/ CallbackStops(c)
           \/ Cancel \/ EndRun \/ AskSettle \/ Settled
  <2>1. UNCHANGED <<session, context, owner, resolved, grants>>
    BY <1>6 DEF Approve, Check, Revalidate, GivesUp, Finish, CallbackStops,
       Cancel, EndRun, AskSettle, Settled
  <2> QED BY <1>2, <2>1
<1>7. ASSUME NEW c \in Call, Wait(c) PROVE Ours'
  <2>1. UNCHANGED <<context, owner, resolved, grants>>
    BY <1>7 DEF Wait
  <2>2. \A d \in Call : session'[d] \in {session[d], context}
    BY <1>7 DEF Wait, TypeOK
  <2> QED BY <2>1, <2>2, OursFrame
<1>8. CASE ClearRun
  <2>1. UNCHANGED <<context, owner, session>> /\ grants' \subseteq grants
    BY <1>8 DEF ClearRun, Cleared
  <2>2. \A c \in Call : resolved'[c] \in {resolved[c], NoResolved}
    BY <1>8 DEF ClearRun, Cleared
  <2> QED BY <2>1, <2>2, OursFrame
<1>9. CASE Bind
  <2>1. UNCHANGED <<owner, resolved>> /\ context' \in {context, "daemon"}
    BY <1>9 DEF Bind
  <2>2. \A c \in Call : session'[c] \in {session[c], "daemon"}
    BY <1>9 DEF Bind
  <2>3. \A g \in grants' : g.session = "daemon" \/ g \in grants
    <3>1. \A g \in grants : [g EXCEPT !.session = "daemon"].session = "daemon"
      BY DEF TypeOK, Grant
    <3> QED BY <1>9, <3>1 DEF Bind
  <2> QED BY <2>1, <2>2, <2>3, OursFrame
<1>10. CASE Crash
  BY <1>10 DEF Crash, Ours
<1> QED BY <1>3, <1>4, <1>5, <1>6, <1>7, <1>8, <1>9, <1>10 DEF Next, Resume

-----------------------------------------------------------------------------
\* Consent.
LEMMA ConsentFrame ==
  ASSUME ApprovalGateAssumption, TypeOK, Queue, ConsentBehindExecution, Settles,
         savedMode = "full" => savedMode' = "full",
         \A c \in Call :
           \/ ranBy'[c] = ranBy[c]
           \/ ranBy'[c] = "approval" /\ approval[c] \in Approving
           \/ /\ ranBy'[c] = "grant"
              /\ \E d \in Call : Level(d) = Level(c) /\ approval[d] \in {"run", "session"}
           \/ ranBy'[c] = "mode" /\ savedMode = "full"
  PROVE  ConsentBehindExecution'
<1>1. \A d \in Call : approval[d] \in Approving => approval'[d] = approval[d]
  BY VerdictKept, NoVerdict
<1>2. {"run", "session"} \subseteq Approving
  BY DEF Approving
<1>3. ASSUME NEW c \in Call
      PROVE  /\ ranBy'[c] = "approval" => approval'[c] \in Approving
             /\ ranBy'[c] = "grant" =>
                  \E d \in Call : Level(d) = Level(c) /\ approval'[d] \in {"run", "session"}
             /\ ranBy'[c] = "mode" => savedMode' = "full"
  <2>1. ranBy'[c] = "approval" => approval[c] \in Approving
    BY DEF ConsentBehindExecution
  <2>2. ranBy'[c] = "grant" =>
          \E d \in Call : Level(d) = Level(c) /\ approval[d] \in {"run", "session"}
    BY DEF ConsentBehindExecution
  <2>3. ranBy'[c] = "mode" => savedMode = "full"
    BY DEF ConsentBehindExecution
  <2> QED BY <1>1, <1>2, <2>1, <2>2, <2>3
<1> QED BY <1>3 DEF ConsentBehindExecution

\* What executes a call.
LEMMA Runs ==
  ASSUME ApprovalGateAssumption, TypeOK, Truthful, Backed, NEW c \in Call,
         Check(c) \/ Revalidate(c)
  PROVE  \/ UNCHANGED ranBy /\ pc'[c] # "executing"
         \/ /\ pc'[c] = "executing" /\ \A d \in Call : d # c => ranBy'[d] = ranBy[d]
            /\ \/ ranBy'[c] = "approval" /\ pc[c] = "approved" /\ approval[c] \in Approving
               \/ /\ ranBy'[c] = "grant" /\ pc[c] = "idle" /\ grants # {} /\ MayStart(c)
                  /\ \E d \in Call : Level(d) = Level(c) /\ approval[d] \in {"run", "session"}
               \/ ranBy'[c] = "mode" /\ savedMode = "full"
<1>1. ASSUME NEW why, Execute(c, why)
      PROVE  \/ UNCHANGED ranBy /\ pc'[c] # "executing"
             \/ /\ pc'[c] = "executing" /\ \A d \in Call : d # c => ranBy'[d] = ranBy[d]
                /\ ranBy'[c] = why
  BY <1>1 DEF Execute, TypeOK
<1>2. CASE pc[c] = "idle" /\ MayStart(c) /\ Execute(c, "grant") /\ \E g \in grants : Covers(g, c)
  <2>1. PICK g \in grants : Covers(g, c)
    BY <1>2
  <2>2. g.scope \in {"run", "session"}
    BY DEF TypeOK, Grant
  <2>3. \E d \in Call : Level(d) = Level(c) /\ approval[d] \in {"run", "session"}
    BY <2>1, <2>2 DEF Backed, Covers
  <2> QED BY <1>1, <1>2, <2>1, <2>3
<1>3. CASE mode = "full" /\ Execute(c, "mode")
  BY <1>1, <1>3 DEF Backed
<1>4. CASE pc[c] = "approved" /\ Execute(c, "approval")
  BY <1>1, <1>4 DEF Truthful
<1>5. CASE UNCHANGED ranBy /\ pc' = [pc EXCEPT ![c] = "preflight"]
  BY <1>5 DEF TypeOK
<1>6. CASE UNCHANGED ranBy /\ pc' = [pc EXCEPT ![c] = "done"]
  BY <1>6 DEF TypeOK
<1> QED BY <1>2, <1>3, <1>4, <1>5, <1>6 DEF Check, Revalidate

LEMMA ConsentStep ==
  ASSUME ApprovalGateAssumption, TypeOK, Queue, Truthful, Backed,
         ConsentBehindExecution, Next
  PROVE  ConsentBehindExecution'
<1> USE DEF gateVars, entryVars, runVars, CallFrame, RunFrame, durableVars, historyVars
<1>0. Settles
  BY StoreOrSame
<1>1. ASSUME UNCHANGED ranBy, savedMode = "full" => savedMode' = "full"
      PROVE  ConsentBehindExecution'
  BY <1>0, <1>1, ConsentFrame
<1>2. CASE Store
  <2>1. UNCHANGED ranBy
    BY <1>2, QueueStore DEF OutsideStore
  <2>2. savedMode = "full" => savedMode' = "full"
    BY <1>2 DEF Store, RecordPending, RecordDecision, SettleRun, Only
  <2> QED BY <1>1, <2>1, <2>2
<1>3. ASSUME NEW c \in Call, Check(c) \/ Revalidate(c) PROVE ConsentBehindExecution'
  <2>1. UNCHANGED savedMode
    BY <1>3 DEF Check, Revalidate
  <2> QED BY <1>0, <1>3, <2>1, Runs, ConsentFrame
<1>4. CASE \/ Resume
           \/ \E k \in Client, c \in Call, a \in Answers : Approve(k, c, a)
           \/ \E c \in Call : Wait(c) \/ GivesUp(c) \/ Finish(c) \/ CallbackStops(c)
           \/ Cancel \/ EndRun \/ AskSettle \/ ClearRun \/ Bind \/ Crash
  <2>1. UNCHANGED <<ranBy, savedMode>>
    BY <1>4 DEF Resume, Recorded, AbortSettled, Answered, Settled, Approve, Wait,
       GivesUp, Finish, CallbackStops, Cancel, EndRun, AskSettle, ClearRun, Bind, Crash
  <2> QED BY <1>1, <2>1
<1> QED BY <1>2, <1>3, <1>4 DEF Next

-----------------------------------------------------------------------------
\* The end of the run.
LEMMA EndFrame ==
  ASSUME EndLeavesNothing, UNCHANGED owner, run' = "cleared" => run = "cleared",
         run = "cleared" =>
           /\ \A c \in Call : pc'[c] = "waiting" => pc[c] = "waiting"
           /\ \A c \in Call : \/ /\ abortReq[c] => abortReq'[c]
                                 /\ forget[c] => forget'[c]
                              \/ pc'[c] # "waiting"
           /\ \A c \in Call : \/ resolved'[c] \in {resolved[c], NoResolved}
                              \/ resolved'[c].verdict = "aborted"
           /\ \A g \in grants' : g \in grants
  PROVE  EndLeavesNothing'
BY DEF EndLeavesNothing, NoResolved

\* Calls that go on after the end learn that it was aborted.
LEMMA EndLearns ==
  ASSUME ApprovalGateAssumption, TypeOK, Phases, Replies, Undecided, EndLeavesNothing,
         NEW c \in Call, Recorded(c) \/ AbortSettled(c)
  PROVE  EndLeavesNothing'
<1>1. UNCHANGED <<owner, run, abortReq, forget>>
  BY DEF Recorded, AbortSettled, runVars
<1>2. ASSUME run = "cleared"
      PROVE  /\ \A d \in Call : pc'[d] = "waiting" => pc[d] = "waiting"
             /\ \A d \in Call : \/ resolved'[d] \in {resolved[d], NoResolved}
                                \/ resolved'[d].verdict = "aborted"
             /\ \A g \in grants' : g \in grants
  <2>1. reply[c] \in {"none", "terminal", "ok", "error"}
    BY <1>2, Distinct DEF Phases, Replies
  <2>2. reply[c] \notin Verdict /\ reply[c] \notin {"pending", "conflict", "not_pending"}
    BY <2>1, NoVerdict
  <2>3. CASE UNCHANGED <<resolved, grants>> /\ (UNCHANGED pc \/ RejectOnce(c))
    <3>1. \A d \in Call : pc'[d] = "waiting" => pc[d] = "waiting"
      BY <2>3 DEF RejectOnce, TypeOK
    <3> QED BY <2>3, <3>1
  <2>4. CASE ResolveOnce(c, "aborted", "none") /\ UNCHANGED grants
    <3>1. \A d \in Call : pc'[d] = "waiting" => pc[d] = "waiting"
      BY <2>4 DEF ResolveOnce, TypeOK, Approving
    <3>2. \A d \in Call : \/ resolved'[d] \in {resolved[d], NoResolved}
                          \/ resolved'[d].verdict = "aborted"
      BY <2>4 DEF ResolveOnce, TypeOK
    <3> QED BY <2>4, <3>1, <3>2
  <2>5. CASE Recorded(c)
    BY <2>2, <2>3, <2>4, <2>5 DEF Recorded, RejectOnce
  <2>6. CASE AbortSettled(c)
    BY <2>2, <2>3, <2>4, <2>6 DEF AbortSettled, RejectOnce
  <2> QED BY <2>5, <2>6
<1> QED BY <1>1, <1>2, EndFrame

LEMMA EndStep ==
  ASSUME ApprovalGateAssumption, TypeOK, Queue, Phases, Replies, Undecided, Truthful,
         Ours, EndLeavesNothing, Next
  PROVE  EndLeavesNothing'
<1> USE DEF gateVars, entryVars, runVars, CallFrame, RunFrame, durableVars
<1>1. ASSUME UNCHANGED <<owner, run, abortReq, forget, resolved, grants>>,
             \A c \in Call : pc'[c] = "waiting" => pc[c] = "waiting"
      PROVE  EndLeavesNothing'
  BY <1>1, EndFrame
<1>2. CASE Store
  <2>1. UNCHANGED <<owner, run, abortReq, forget, resolved, grants, pc>>
    BY <1>2, QueueStore DEF OutsideStore
  <2> QED BY <1>1, <2>1
<1>3. ASSUME NEW c \in Call, Recorded(c) \/ AbortSettled(c) PROVE EndLeavesNothing'
  BY <1>3, EndLearns
<1>4. ASSUME NEW k \in Client, Answered(k) PROVE EndLeavesNothing'
  <2>1. UNCHANGED <<owner, run, abortReq, forget>>
    BY <1>4 DEF Answered
  <2>2. CASE run = "cleared"
    <3>1. reply[k] \notin Verdict
      BY <2>2, Distinct, NoVerdict DEF Phases, Replies
    <3>2. UNCHANGED <<pc, resolved, grants>>
      BY <1>4, <3>1 DEF Answered
    <3> QED BY <1>1, <2>1, <3>2
  <2>3. CASE run # "cleared"
    BY <2>1, <2>3, EndFrame
  <2> QED BY <2>2, <2>3
<1>5. CASE \E k \in Client, c \in Call, a \in Answers : Approve(k, c, a)
  <2>1. UNCHANGED <<owner, run, abortReq, forget, resolved, grants, pc>>
    BY <1>5 DEF Approve
  <2> QED BY <1>1, <2>1
<1>6. ASSUME NEW c \in Call, Check(c) \/ Revalidate(c) \/ GivesUp(c) \/ Finish(c)
      PROVE  EndLeavesNothing'
  <2>1. UNCHANGED <<owner, run, abortReq, forget, resolved, grants>>
    BY <1>6 DEF Check, Revalidate, GivesUp, Finish
  <2>2. \A d \in Call : pc'[d] = "waiting" => pc[d] = "waiting"
    BY <1>6 DEF Check, Revalidate, GivesUp, Finish, Execute, TypeOK
  <2> QED BY <1>1, <2>1, <2>2
<1>7. ASSUME NEW c \in Call, Wait(c) PROVE EndLeavesNothing'
  <2>1. UNCHANGED <<owner, run, resolved, grants>>
    BY <1>7 DEF Wait
  <2>2. \A d \in Call : pc'[d] = "waiting" => pc[d] = "waiting" /\ d # c
    BY <1>7 DEF Wait, TypeOK
  <2>3. \A d \in Call : d # c => abortReq'[d] = abortReq[d]
    BY <1>7 DEF Wait, TypeOK
  <2>4. \A d \in Call : d # c => forget'[d] = forget[d]
    BY <1>7 DEF Wait, TypeOK
  <2> QED BY <2>1, <2>2, <2>3, <2>4, EndFrame
<1>8. ASSUME NEW c \in Call, CallbackStops(c) PROVE EndLeavesNothing'
  <2>1. UNCHANGED <<owner, run, pc, resolved, grants>> /\ RequestAbort({c}, FALSE)
    BY <1>8 DEF CallbackStops
  <2>2. \A d \in Call : abortReq[d] => abortReq'[d]
    BY <2>1 DEF RequestAbort
  <2>3. \A d \in Call : forget[d] => forget'[d]
    BY <2>1 DEF RequestAbort
  <2> QED BY <2>1, <2>2, <2>3, EndFrame
<1>9. CASE Cancel \/ EndRun \/ AskSettle \/ Settled \/ Bind \/ Crash
  <2>1. run' # "cleared"
    BY <1>9 DEF Cancel, EndRun, AskSettle, Settled, Bind, Crash
  <2> QED BY <2>1 DEF EndLeavesNothing
<1>10. CASE ClearRun
  <2> SUFFICES ASSUME owner = "daemon" PROVE EndLeavesNothing'
    BY <1>10 DEF EndLeavesNothing, ClearRun
  <2>1. /\ RequestAbort({c \in Call : Pending(c) /\ session[c] = "daemon"}, TRUE)
        /\ resolved' = [c \in Call |-> IF resolved[c].session = "daemon" THEN NoResolved
                                       ELSE resolved[c]]
        /\ grants' = {g \in grants : g.session # "daemon" \/ g.scope # "run"}
        /\ UNCHANGED pc
    BY <1>10 DEF ClearRun, Cleared
  <2>2. ASSUME NEW c \in Call, pc'[c] = "waiting" PROVE abortReq'[c] /\ forget'[c]
    <3>1. c \in {d \in Call : Pending(d) /\ session[d] = "daemon"}
      BY <2>1, <2>2 DEF Pending, Ours
    <3>2. abortReq'[c]
      BY <2>1, <3>1 DEF RequestAbort
    <3>3. forget'[c]
      BY <2>1, <3>1 DEF RequestAbort
    <3> QED BY <3>2, <3>3
  <2>3. ASSUME NEW c \in Call PROVE resolved'[c].verdict = "none"
    <3>1. resolved[c].session \in {"daemon", "none"}
      BY DEF Ours
    <3>2. resolved[c].session = "none" => resolved[c] = NoResolved
      BY DEF TypeOK, Session
    <3> QED BY <2>1, <3>1, <3>2 DEF NoResolved
  <2>4. \A g \in grants' : g.scope = "session"
    BY <2>1 DEF Ours, TypeOK, Grant
  <2> QED BY <2>2, <2>3, <2>4 DEF EndLeavesNothing
<1> QED BY <1>2, <1>3, <1>4, <1>5, <1>6, <1>7, <1>8, <1>9, <1>10 DEF Next, Resume

-----------------------------------------------------------------------------
\* The invariant.
LEMMA InitInv == ApprovalGateAssumption /\ Init => Inv
<1> SUFFICES ASSUME ApprovalGateAssumption, Init PROVE Inv
  OBVIOUS
<1> USE DEF Init
<1>1. TypeOK
  <2>1. asked \in Seq([by : Caller, kind : {"pending", "decision", "settle"},
                       call : Call \cup {Run},
                       answer : AllAnswers \cup {"aborted", "none"}])
    BY EmptySeq
  <2>2. MaxCrashes \in Nat /\ 0 \in 0..MaxCrashes
    BY DEF ApprovalGateAssumption
  <2>3. reply \in [Caller -> Verdict \cup {"none", "pending", "terminal", "conflict",
                                           "not_pending", "error", "ok"}]
    OBVIOUS
  <2>4. ranBy \in [Call -> {"none", "approval", "grant", "mode"}]
    OBVIOUS
  <2>5. resolved \in [Call -> [session : Session, verdict : Verdict,
                               mode : {"none", "basic", "full"}] \cup {NoResolved}]
    OBVIOUS
  <2>6. request \in [Client -> [call : Call, answer : AllAnswers, state : {"asked"}]
                               \cup {NoRequest, Served}]
    OBVIOUS
  <2>7. session \in [Call -> Session] /\ context \in Session /\ owner \in Session
    BY DEF Session
  <2> QED BY <2>1, <2>2, <2>3, <2>4, <2>5, <2>6, <2>7 DEF TypeOK
<1>2. Queue
  BY EmptySeq DEF Queue
<1>3. Replies
  BY NoVerdict, Distinct DEF Replies
<1>4. Phases /\ Fifo /\ Undecided
  BY Distinct DEF Phases, Fifo, Undecided, NoRequest, ApprovalGateAssumption, Active
<1>5. Truthful /\ Backed /\ Fresh /\ Ours
  BY DEF Truthful, Backed, Fresh, Ours, Replayed, NoResolved
<1>6. ConsentBehindExecution /\ EndLeavesNothing
  BY DEF ConsentBehindExecution, EndLeavesNothing
<1> QED BY <1>1, <1>2, <1>3, <1>4, <1>5, <1>6 DEF Inv

LEMMA NextInv == ApprovalGateAssumption /\ Inv /\ Next => Inv'
<1> SUFFICES ASSUME ApprovalGateAssumption, Inv, Next PROVE Inv'
  OBVIOUS
<1>1. /\ TypeOK /\ Queue /\ Replies /\ Phases /\ Fifo /\ Undecided /\ Truthful /\ Backed
      /\ Fresh /\ Ours /\ ConsentBehindExecution /\ EndLeavesNothing
  BY DEF Inv
<1>2. TypeOK' /\ Queue' /\ Replies' /\ Phases' /\ Fifo'
  BY <1>1, TypeStep, QueueStep, RepliesStep, PhasesStep, FifoStep
<1>3. Undecided' /\ Truthful' /\ Backed'
  BY <1>1, UndecidedStep, TruthfulStep, BackedStep
<1>4. Fresh' /\ Ours'
  BY <1>1, FreshStep, OursStep
<1>5. ConsentBehindExecution' /\ EndLeavesNothing'
  BY <1>1, ConsentStep, EndStep
<1> QED BY <1>2, <1>3, <1>4, <1>5 DEF Inv

LEMMA StutterInv == Inv /\ UNCHANGED vars => Inv'
<1> SUFFICES ASSUME Inv, UNCHANGED vars PROVE Inv'
  OBVIOUS
<1> USE DEF vars, durableVars, callVars, gateVars, entryVars, runVars, historyVars, Inv
<1>1. TypeOK'
  BY DEF TypeOK
<1>2. Queue' /\ Replies'
  BY DEF Queue, Entitled, EntitledIn, Replies, Expected
<1>3. Phases' /\ Fifo' /\ Undecided'
  BY DEF Phases, Active, Fifo, Undecided
<1>4. Truthful' /\ Backed'
  BY DEF Truthful, Outcome, Backed
<1>5. Fresh' /\ Ours'
  BY DEF Fresh, Replayed, Active, Ours
<1>6. ConsentBehindExecution' /\ EndLeavesNothing'
  BY DEF ConsentBehindExecution, EndLeavesNothing
<1> QED BY <1>1, <1>2, <1>3, <1>4, <1>5, <1>6

\* The parts of the invariant hold together in every reachable state.
THEOREM Invariance == Spec => []Inv
<1>1. Init => Inv
  BY InitInv, ApprovalGateAssumption
<1>2. Inv /\ [Next]_vars => Inv'
  BY NextInv, StutterInv, ApprovalGateAssumption
<1> QED BY <1>1, <1>2, PTL DEF Spec

\* The types of the model are right.
THEOREM Types == Spec => []TypeOK
<1>1. Inv => TypeOK
  BY DEF Inv
<1> QED BY <1>1, Invariance, PTL

\* Whatever runs has the consent of the user on record, by its own approval, by
\* the grant of another one or by full access (loop-tool-approval.ts), also
\* after any number of restarts.
THEOREM Consent == Spec => []ConsentBehindExecution
<1>1. Inv => ConsentBehindExecution
  BY DEF Inv
<1> QED BY <1>1, Invariance, PTL

\* The end of a run leaves no question that waits on, no verdict to answer
\* with and no grant of the run behind (clearRunRuntime).
THEOREM End == Spec => []EndLeavesNothing
<1>1. Inv => EndLeavesNothing
  BY DEF Inv
<1> QED BY <1>1, Invariance, PTL

-----------------------------------------------------------------------------
\* A step that starts to execute a call.
LEMMA Starts ==
  ASSUME ApprovalGateAssumption, Inv, Next, NEW c \in Call,
         pc[c] # "executing", pc'[c] = "executing"
  PROVE  Check(c) \/ Revalidate(c)
<1> USE DEF gateVars, entryVars, CallFrame, RunFrame, Inv
<1>1. CASE Store
  BY <1>1, QueueStore DEF OutsideStore
<1>2. ASSUME NEW d \in Call, Recorded(d) \/ AbortSettled(d) PROVE FALSE
  <2>1. Learns(d)
    BY <1>2, RecordedLearns, AbortSettledLearns
  <2> QED BY <2>1 DEF Learns, Leaves, Resolves, Verdict, Approving
<1>3. ASSUME NEW k \in Client, Answered(k) PROVE FALSE
  <2>1. PICK d \in Call : Hears(d) \/ Learns(d)
    BY <1>3, AnsweredLearns
  <2> QED BY <2>1 DEF Hears, Learns, Leaves, Resolves, Verdict, Approving
<1>4. ASSUME NEW d \in Call, Wait(d) \/ GivesUp(d) \/ Finish(d) PROVE FALSE
  BY <1>4 DEF Wait, GivesUp, Finish, TypeOK
<1>5. ASSUME NEW d \in Call, d # c, Check(d) \/ Revalidate(d) PROVE FALSE
  BY <1>5 DEF Check, Revalidate, Execute, TypeOK
<1>6. CASE \/ Settled \/ Cancel \/ EndRun \/ AskSettle \/ ClearRun \/ Bind
           \/ \E d \in Call : CallbackStops(d)
           \/ \E k \in Client, d \in Call, a \in Answers : Approve(k, d, a)
  BY <1>6 DEF Settled, Cancel, EndRun, AskSettle, ClearRun, Bind, CallbackStops, Approve
<1>7. CASE Crash
  BY <1>7 DEF Crash, Active
<1> QED BY <1>1, <1>2, <1>3, <1>4, <1>5, <1>6, <1>7 DEF Next, Resume

\* What the user has denied is not run, unless the run has full access: its own
\* question has another verdict, and the grants of other calls are gone before
\* a call whose question is on record comes again.
THEOREM Denied == Spec => DeniedStaysUndone
<1> DEFINE Undone(c) == /\ pc[c] # "executing" /\ pc'[c] = "executing"
                        /\ approval[c] = "denied" \/ <<c, "denied">> \in heard
                        => ranBy'[c] = "mode"
<1>1. ASSUME Inv, Next, NEW c \in Call, pc[c] # "executing", pc'[c] = "executing",
             approval[c] = "denied" \/ <<c, "denied">> \in heard
      PROVE  ranBy'[c] = "mode"
  <2>1. approval[c] = "denied"
    <3>1. CASE <<c, "denied">> \in heard
      <4>1. Outcome(c) = "denied"
        BY <1>1, <3>1 DEF Inv, Truthful
      <4> QED BY <4>1 DEF Outcome
    <3> QED BY <1>1, <3>1
  <2>2. Check(c) \/ Revalidate(c)
    BY <1>1, Starts, ApprovalGateAssumption
  <2>3. approval[c] \notin Approving
    BY <2>1 DEF Approving
  <2>4. ~(pc[c] = "idle" /\ grants # {} /\ MayStart(c))
    <3>1. CASE c \in Callback
      BY <1>1, <2>1, <3>1 DEF Inv, Phases
    <3>2. CASE c \notin Callback
      BY <1>1, <2>1, <3>2 DEF Inv, Fresh, Replayed
    <3> QED BY <3>1, <3>2
  <2> QED BY <1>1, <2>2, <2>3, <2>4, Runs, ApprovalGateAssumption DEF Inv
<1>2. Inv /\ [Next]_vars => [\A c \in Call : Undone(c)]_vars
  BY <1>1
<1> QED BY <1>2, Invariance, PTL DEF Spec, DeniedStaysUndone

-----------------------------------------------------------------------------
\* The gate implements the promise.
LEMMA PromiseInit == ApprovalGateAssumption /\ Init => Promise!Init
<1> SUFFICES ASSUME ApprovalGateAssumption, Init PROVE Promise!Init
  OBVIOUS
<1>1. \A c \in Call : Outcome(c) = "open"
  BY NoVerdict DEF Init, Outcome
<1> QED BY <1>1 DEF Init, Promise!Init, Promise!Open

LEMMA PromiseStep ==
  ASSUME ApprovalGateAssumption, Inv, Next
  PROVE  \/ Promise!Next
         \/ UNCHANGED <<[c \in Call |-> Outcome(c)], heard>>
<1> USE DEF gateVars, entryVars, CallFrame, RunFrame, historyVars
<1> DEFINE V == [c \in Call |-> Outcome(c)]
<1>1. CASE Store
  <2>1. UNCHANGED heard
    BY <1>1, QueueStore DEF OutsideStore, Inv
  <2>2. \/ \A c \in Call : Outcome(c)' = Outcome(c)
        \/ \E c \in Call, v \in Verdict :
             /\ Outcome(c) = "open" /\ Outcome(c)' = v
             /\ \A d \in Call : d # c => Outcome(d)' = Outcome(d)
        \/ \A c \in Call : Outcome(c)' = IF Outcome(c) = "open" THEN "aborted"
                                         ELSE Outcome(c)
    BY <1>1, VerdictStore DEF Inv
  <2>3. CASE \A c \in Call : Outcome(c)' = Outcome(c)
    BY <2>1, <2>3
  <2>4. ASSUME NEW c \in Call, NEW v \in Verdict, Outcome(c) = "open", Outcome(c)' = v,
               \A d \in Call : d # c => Outcome(d)' = Outcome(d)
        PROVE  Promise!Next
    <3>1. V' = [V EXCEPT ![c] = v]
      BY <2>4
    <3>2. Promise!Decide(c, v)
      BY <2>1, <2>4, <3>1 DEF Promise!Decide, Promise!Open
    <3> QED BY <3>2 DEF Promise!Next
  <2>5. CASE \A c \in Call : Outcome(c)' = IF Outcome(c) = "open" THEN "aborted"
                                           ELSE Outcome(c)
    <3>1. Promise!Close
      BY <2>1, <2>5 DEF Promise!Close, Promise!Open
    <3> QED BY <3>1 DEF Promise!Next
  <2> QED BY <2>2, <2>3, <2>4, <2>5
<1>2. CASE UNCHANGED <<approval, status>>
  <2>1. V' = V
    BY <1>2 DEF Outcome
  <2>2. ASSUME NEW c \in Call, Outcome(c) \in Verdict, heard' = heard \cup {<<c, Outcome(c)>>}
        PROVE  Promise!Next
    <3>1. Promise!Tell(c)
      BY <2>1, <2>2, NoVerdict DEF Promise!Tell, Promise!Open
    <3> QED BY <3>1 DEF Promise!Next
  <2>3. ASSUME NEW c \in Call, Learns(c) \/ Hears(c)
        PROVE  Promise!Next \/ UNCHANGED <<V, heard>>
    <3>1. \/ UNCHANGED heard
          \/ Outcome(c) \in Verdict /\ heard' = heard \cup {<<c, Outcome(c)>>}
      BY <2>3 DEF Learns, Leaves, Resolves, Hears
    <3> QED BY <2>1, <2>2, <3>1
  <2>4. ASSUME NEW c \in Call, Recorded(c) \/ AbortSettled(c)
        PROVE  Promise!Next \/ UNCHANGED <<V, heard>>
    BY <2>3, <2>4, RecordedLearns, AbortSettledLearns DEF Inv
  <2>5. ASSUME NEW k \in Client, Answered(k)
        PROVE  Promise!Next \/ UNCHANGED <<V, heard>>
    BY <2>3, <2>5, AnsweredLearns DEF Inv
  <2>6. ASSUME NEW k \in Client, NEW c \in Call, NEW a \in Answers, Approve(k, c, a)
        PROVE  Promise!Next \/ UNCHANGED <<V, heard>>
    BY <2>3, <2>6, ApproveHears DEF Inv
  <2>7. CASE \/ Settled \/ Cancel \/ EndRun \/ AskSettle \/ ClearRun \/ Bind \/ Crash
             \/ \E c \in Call : \/ Check(c) \/ Wait(c) \/ Revalidate(c) \/ GivesUp(c)
                                \/ Finish(c) \/ CallbackStops(c)
    <3>1. UNCHANGED heard
      BY <2>7 DEF Settled, Cancel, EndRun, AskSettle, ClearRun, Bind, Crash, Check, Wait,
         Revalidate, GivesUp, Finish, CallbackStops
    <3> QED BY <2>1, <3>1
  <2> QED BY <1>1, <2>4, <2>5, <2>6, <2>7 DEF Next, Resume
<1> QED BY <1>1, <1>2, StoreOrSame DEF Settles

\* The gate keeps the promise of ApprovalVerdict: the question of a call is
\* settled once, by a decision on record or by the end of the run, and whoever
\* is told a verdict is told that one.
THEOREM Keeps == Spec => KeepsPromise
<1>1. Init => Promise!Init
  BY PromiseInit, ApprovalGateAssumption
<1>2. Inv /\ [Next]_vars => [Promise!Next]_<<[c \in Call |-> Outcome(c)], heard>>
  <2>1. ASSUME Inv, UNCHANGED vars PROVE UNCHANGED <<[c \in Call |-> Outcome(c)], heard>>
    BY <2>1 DEF vars, durableVars, historyVars, Outcome
  <2> QED BY <2>1, PromiseStep, ApprovalGateAssumption
<1> QED BY <1>1, <1>2, Invariance, PTL DEF Spec, KeepsPromise, Promise!Spec
=============================================================================
