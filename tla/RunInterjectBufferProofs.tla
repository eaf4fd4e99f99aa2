----------------------- MODULE RunInterjectBufferProofs -----------------------
(***************************************************************************)
(* Until a write fails or a recovery starts from something outdated, the   *)
(* buffer of a run covers its checkpoint and the loop keeps step with it;  *)
(* and, whatever fails, checkpoint and transcript implement the ledger of  *)
(* the messages.  All of it for any set of messages and any number of      *)
(* recoveries.                                                             *)
(***************************************************************************)
EXTENDS RunInterjectToldProofs

-----------------------------------------------------------------------------
\* What holds of the buffer until a write fails or a recovery starts from
\* something outdated.
Current == ~drifted /\ pc \notin {"off", "recovering", "restoring"}

\* The buffer holds what the checkpoint has to give, in order, and every number
\* past the checkpoint's count has a first request in the store's queue.
Buffered ==
  /\ Rising(items) /\ Held \subseteq ToSet(items)
  /\ interjectSeq <= received
  /\ \A x \in ToSet(items) : x.seq <= interjectSeq => x.msg \in entered
  /\ \A n \in Int : interjectSeq < n /\ n <= received =>
       \E m \in Message : Sending(m) /\ mine[m] = n

\* First requests are served in the order of their numbers, and none is refused.
Requested ==
  /\ \A m \in Message : Sending(m) =>
       /\ Own(m) \in ToSet(items) /\ mine[m] > interjectSeq
       /\ \A n \in Message : told[n] = "sending" /\ Precedes(m, n) => mine[m] < mine[n]
  /\ \A m \in Message : told[m] = "sending" => reply[m] \in {"none", "ok"}

\* The loop applies the first message of the buffer.
InStep ==
  /\ pc \in {"enqueue", "claim"} =>
       /\ \A x \in ToSet(items) : cur.seq <= x.seq
       /\ cur \in ToSet(items) \/ cur.msg \in entered
       /\ applying # NoItem => applying.seq = cur.seq
  /\ applying # NoItem => \A x \in ToSet(items) : applying.seq <= x.seq
  /\ pc = "complete" => cur \in ToSet(items)
  /\ outcome = "done" => items = <<>> /\ ~accepting
  /\ reply[Loop] \notin {"conflict", "busy"}

Coverage == Current => Buffered /\ Requested /\ InStep

\* A recovery whose buffer has seen no message since is not raced by a request
\* from before.
Fresh ==
  /\ pc \in {"recovering", "restoring"} /\ received = 0 =>
       /\ \A m \in Message : Sending(m) => Precedes(m, Loop)
       /\ \A m \in Message : told[m] = "sending" /\ reply[m] # "none" => Waits(Loop)
  /\ pc = "recovering" => reply[Loop] \notin {"conflict", "busy"}

\* An outcome is set on the way out only.
Decided ==
  outcome = "done" => pc \in {"ending", "settle", "commit", "failed", "commitFailure"}

BParts == Coverage /\ Fresh /\ Decided
BInv == IInv /\ BParts

LEMMA NoElements ==
  ASSUME NEW S, NEW q \in Seq(S), ToSet(q) = {}
  PROVE  q = <<>>
<1>1. Len(q) \in Nat /\ DOMAIN q = 1..Len(q)
  BY LenProperties
<1>2. DOMAIN q = {}
  BY DEF ToSet
<1>3. Len(q) = 0
  BY <1>1, <1>2
<1> QED BY <1>3, EmptySeq

\* In a rising queue a number names one element.
LEMMA RisingOne ==
  ASSUME NEW q \in Seq(Item), Rising(q), NEW x \in ToSet(q), NEW y \in ToSet(q),
         x.seq = y.seq
  PROVE  x = y
<1>1. PICK i \in DOMAIN q, j \in DOMAIN q : x = q[i] /\ y = q[j]
  BY DEF ToSet
<1>2. i \in Nat /\ j \in Nat /\ x.seq \in Nat /\ y.seq \in Nat
  <2>1. x \in Item /\ y \in Item
    BY ToSetTyped
  <2> QED BY <1>1, <2>1, LenProperties, ItemFields
<1>3. ~(i < j) /\ ~(j < i)
  BY <1>1, <1>2 DEF Rising
<1> QED BY <1>1, <1>2, <1>3

LEMMA RisingHead ==
  ASSUME NEW q \in Seq(Item), Rising(q), q # <<>>
  PROVE  Head(q) \in ToSet(q) /\ \A x \in ToSet(q) : Head(q).seq <= x.seq
<1>1. Head(q) \in Item /\ Head(q) \in ToSet(q)
  BY ToSetHeadTail
<1>2. Head(q) = q[1] /\ 1 \in DOMAIN q /\ DOMAIN q = 1..Len(q) /\ Len(q) \in Nat
  BY HeadTailProperties, LenProperties, EmptySeq
<1>3. ASSUME NEW x \in ToSet(q) PROVE Head(q).seq <= x.seq
  <2>1. PICK i \in DOMAIN q : x = q[i]
    BY DEF ToSet
  <2>2. i = 1 \/ 1 < i
    BY <1>2
  <2>3. x \in Item /\ x.seq \in Nat /\ Head(q).seq \in Nat
    BY <1>1, ToSetTyped, ItemFields
  <2> QED BY <1>2, <2>1, <2>2, <2>3 DEF Rising
<1> QED BY <1>1, <1>3

LEMMA RisingAppend ==
  ASSUME NEW q \in Seq(Item), NEW x \in Item, Rising(q),
         \A y \in ToSet(q) : y.seq < x.seq
  PROVE  Rising(Append(q, x))
<1>1. RisesPast(q, -1)
  BY DEF Rising, RisesPast
<1>2. RisesPast(Append(q, x), -1)
  BY <1>1, RisesAppend
<1>3. Append(q, x) \in Seq(Item)
  BY AppendProperties
<1>4. \A i \in DOMAIN Append(q, x) : Append(q, x)[i].seq > -1
  BY <1>3, ElementOfSeq, LenProperties, ItemFields
<1> QED BY <1>2, <1>4 DEF Rising, RisesPast

\* The head of the store's queue comes before everybody else in it.
LEMMA HeadPrecedes ==
  ASSUME Shapes, asked # <<>>, NEW c, Waits(c), c # Head(asked).by
  PROVE  Precedes(Head(asked).by, c)
<1>1. Head(asked) = asked[1] /\ 1 \in DOMAIN asked /\ DOMAIN asked = 1..Len(asked)
      /\ Len(asked) \in Nat
  BY HeadTailProperties, LenProperties, EmptySeq DEF Shapes
<1>2. PICK i \in DOMAIN asked : asked[i].by = c
  BY DEF Waits, ToSet
<1>3. i # 1 /\ 1 < i
  BY <1>1, <1>2
<1> QED BY <1>1, <1>2, <1>3 DEF Precedes

LEMMA HeadIsFirst ==
  ASSUME Shapes, Asks, asked # <<>>, NEW c
  PROVE  ~Precedes(c, Head(asked).by)
<1> SUFFICES ASSUME Precedes(c, Head(asked).by) PROVE FALSE
  OBVIOUS
<1>1. Head(asked) = asked[1] /\ 1 \in DOMAIN asked /\ DOMAIN asked = 1..Len(asked)
      /\ Len(asked) \in Nat
  BY HeadTailProperties, LenProperties, EmptySeq DEF Shapes
<1>2. PICK i \in DOMAIN asked, j \in DOMAIN asked : i < j /\ asked[j].by = Head(asked).by
  BY DEF Precedes
<1>3. 1 < j
  BY <1>1, <1>2
<1>4. asked[1].by = asked[j].by
  BY <1>1, <1>2
<1>5. Precedes(asked[j].by, asked[j].by)
  BY <1>1, <1>3, <1>4 DEF Precedes
<1> QED BY <1>5 DEF Asks

LEMMA InitBParts == Init => BParts
<1> SUFFICES ASSUME Init PROVE BParts
  OBVIOUS
<1>1. Buffered
  BY ToSetEmpty DEF Init, Buffered, Rising, Held
<1>2. Requested
  BY ToSetEmpty DEF Init, Requested, Sending
<1>3. InStep
  BY ToSetEmpty, ItemFields DEF Init, InStep
<1>4. Fresh /\ Decided
  BY DEF Init, Fresh, Decided
<1> QED BY <1>1, <1>2, <1>3, <1>4 DEF BParts, Coverage

-----------------------------------------------------------------------------
\* The store.
LEMMA ServedFresh ==
  ASSUME BInv, Inv', NEW kind, Turn(kind), NEW code, Answer(code),
         UNCHANGED OutsideStore,
         kind = "round" => code \notin {"conflict", "busy"}
  PROVE  Fresh' /\ Decided'
<1> DEFINE h == Head(asked).by
<1>1. Serves(h, code) /\ Sensible(Head(asked)) /\ Head(asked).kind = kind
  BY ServesHead DEF BInv
<1>2. h = Loop /\ pc = "recovering" => kind = "round"
  BY <1>1, RunInterjectAssumption DEF Sensible
<1> HIDE DEF h
<1>3. UNCHANGED <<pc, received, told, outcome>>
  BY <1>1 DEF Serves, bufferVars
<1>4. \A m \in Message : Sending(m)' <=> Sending(m) /\ m # h
  BY <1>1, <1>3 DEF Serves, Sending
<1>5. ASSUME pc \in {"recovering", "restoring"}, received = 0, NEW m \in Message
      PROVE  /\ Sending(m)' => Precedes(m, Loop)'
             /\ told[m] = "sending" /\ reply'[m] # "none" => Waits(Loop)'
  <2>1. Sending(m) => Precedes(m, Loop)
    BY <1>5 DEF BInv, BParts, Fresh
  <2>2. reply'[m] # "none" => m = h
    BY <1>1, ItemFields DEF Serves
  <2>3. m = h /\ told[m] = "sending" => Precedes(m, Loop)
    BY <1>1, <2>1 DEF Serves, Sending
  <2>4. m = h /\ told[m] = "sending" => Waits(Loop)'
    BY <1>1, <2>3, PrecedesOne, RunInterjectAssumption DEF Serves
  <2> QED BY <1>1, <1>4, <2>1, <2>2, <2>4 DEF Serves
<1>6. pc = "recovering" => reply'[Loop] \notin {"conflict", "busy"}
  <2>1. h # Loop => reply'[Loop] = "none"
    BY <1>1, ItemFields DEF Serves
  <2> QED BY <1>1, <1>2, <2>1 DEF Serves
<1>7. Fresh'
  BY <1>3, <1>5, <1>6 DEF Fresh
<1> QED BY <1>3, <1>7 DEF BInv, BParts, Decided

\* A write that fails leaves the checkpoint and the buffer to drift apart.
LEMMA FailedWriteBuffer ==
  ASSUME BInv, Inv', NEW kind, Turn(kind), kind # "round", WriteFails,
         UNCHANGED OutsideStore
  PROVE  BParts'
<1>1. Fresh' /\ Decided'
  BY ServedFresh DEF WriteFails
<1> QED BY <1>1 DEF WriteFails, BParts, Coverage, Current

\* A mutation that takes no message in.
LEMMA QuietKeeps ==
  ASSUME BInv, Inv', NEW kind, Turn(kind), NEW code, Answer(code),
         UNCHANGED OutsideStore, UNCHANGED <<interjectSeq, entered, drifted>>,
         kind = "round" => code \notin {"conflict", "busy"},
         Held' \subseteq Held,
         Current => /\ Head(asked).by \in Message => told[Head(asked).by] # "sending"
                    /\ Head(asked).by = Loop => code \notin {"conflict", "busy"},
         \/ applying' = applying \/ applying' = NoItem
         \/ pc = "claim" /\ applying'.seq = cur.seq
  PROVE  BParts'
<1> DEFINE h == Head(asked).by
<1>1. Fresh' /\ Decided'
  BY ServedFresh
<1>2. Serves(h, code)
  BY ServesHead DEF BInv
<1> HIDE DEF h
<1>3. /\ UNCHANGED <<items, received, accepting, pc, cur, outcome, told, mine, entered,
                     interjectSeq, drifted>>
      /\ \A m : Own(m)' = Own(m)
  BY <1>2 DEF Serves, bufferVars, Own
<1> SUFFICES ASSUME Current, Buffered, Requested, InStep
             PROVE  Buffered' /\ Requested' /\ InStep'
  BY <1>1, <1>3 DEF BInv, BParts, Coverage, Current
<1>4. \A m \in Message : Sending(m)' <=> Sending(m)
  BY <1>2, <1>3 DEF Serves, Sending, h
<1>5. Buffered'
  BY <1>3, <1>4 DEF Buffered
<1>6. Requested'
  <2>1. \A m \in Message : told[m] = "sending" => reply'[m] = "none"
    BY <1>2, ItemFields DEF Serves, h
  <2>2. \A m, n \in Message : Precedes(m, n)' => Precedes(m, n)
    BY <1>2 DEF Serves
  <2> QED BY <1>3, <1>4, <2>1, <2>2 DEF Requested
<1>7. InStep'
  <2>1. reply'[Loop] \notin {"conflict", "busy"}
    BY <1>2, ItemFields DEF Serves, h
  <2> QED BY <1>3, <2>1 DEF InStep
<1> QED BY <1>5, <1>6, <1>7

\* A first request at the head of the queue asks for the next number.
LEMMA RequestIsNext ==
  ASSUME BInv, Current, Turn("enqueue"), NEW m \in Message, Sending(m),
         Head(asked).by = m
  PROVE  mine[m] = interjectSeq + 1
<1>0. Shapes /\ Buffered /\ Requested
  BY InvShapes DEF BInv, IInv, BParts, Coverage
<1>1. Own(m) \in ToSet(items) /\ Own(m).seq = mine[m] /\ mine[m] > interjectSeq
  BY <1>0 DEF Requested, Shapes, Owns
<1>2. mine[m] <= received
  BY <1>1 DEF BInv, IInv, Parts, Numbered
<1>3. interjectSeq \in Nat /\ received \in Nat /\ mine[m] \in Nat
  BY <1>0 DEF Shapes
<1>4. PICK n \in Message : Sending(n) /\ mine[n] = interjectSeq + 1
  <2>1. interjectSeq + 1 \in Int /\ interjectSeq < interjectSeq + 1
        /\ interjectSeq + 1 <= received
    BY <1>1, <1>2, <1>3
  <2> QED BY <1>0, <2>1 DEF Buffered
<1>5. CASE n # m
  <2>1. Precedes(m, n)
    BY <1>0, <1>4, <1>5, HeadPrecedes DEF Turn, Sending
  <2>2. mine[m] < mine[n]
    BY <1>0, <1>4, <2>1 DEF Requested, Sending
  <2> QED BY <1>1, <1>3, <1>4, <2>2
<1> QED BY <1>4, <1>5

\* The loop's own request for a message is one for a message that is in already.
LEMMA LoopRequestIsOld ==
  ASSUME BInv, Current, Turn("enqueue"), Head(asked).by = Loop,
         Sensible(Head(asked)), Head(asked).kind = "enqueue"
  PROVE  /\ Head(asked).item = cur /\ cur.msg \in entered
         /\ cur.seq <= interjectSeq
         /\ Known(cur.seq) => Contains(Queue, cur)
<1>0. Shapes /\ Buffered /\ Requested /\ InStep /\ CheckpointTypeOK
  BY InvShapes DEF BInv, IInv, BParts, Coverage, Inv, Types
<1>1. pc = "enqueue" /\ Head(asked).item = cur
  BY RunInterjectAssumption DEF Sensible
<1>2. cur \in Item /\ cur = Own(cur.msg) /\ cur.seq = mine[cur.msg]
  BY <1>0, <1>1 DEF Shapes, InHand, BInv, IInv, Parts, Owned
<1>3. cur.msg \in entered
  <2> SUFFICES ASSUME cur.msg \notin entered PROVE FALSE
    OBVIOUS
  <2>1. cur \in ToSet(items) /\ ~(cur.seq <= interjectSeq) /\ cur.seq <= received
    BY <1>0, <1>1 DEF InStep, Buffered, BInv, IInv, Parts, Numbered
  <2>2. interjectSeq \in Nat /\ received \in Nat /\ cur.seq \in Nat
    BY <1>0, <1>2, ItemFields DEF Shapes
  <2>3. PICK n \in Message : Sending(n) /\ mine[n] = interjectSeq + 1
    <3>1. interjectSeq + 1 \in Int /\ interjectSeq < interjectSeq + 1
          /\ interjectSeq + 1 <= received
      BY <2>1, <2>2
    <3> QED BY <1>0, <3>1 DEF Buffered
  <2>4. Own(n) \in ToSet(items) /\ Own(n).seq = interjectSeq + 1
    BY <1>0, <2>3 DEF Requested, Shapes, Owns
  <2>5. cur.seq <= Own(n).seq
    BY <1>0, <1>1, <2>4 DEF InStep
  <2>6. cur.seq = Own(n).seq
    BY <2>1, <2>2, <2>4, <2>5
  <2>7. cur = Own(n)
    BY <1>0, <2>1, <2>4, <2>6, RisingOne DEF Buffered, Shapes
  <2>8. Precedes(n, Loop)
    BY <1>1, <2>3, <2>7 DEF BInv, IInv, Parts, Entries, InHand
  <2>9. \A c : ~Precedes(c, Loop)
    BY <1>0, HeadIsFirst DEF BInv, IInv, Parts, Turn
  <2> QED BY <2>8, <2>9
<1>4. cur.seq <= interjectSeq
  BY <1>2, <1>3 DEF BInv, IInv, Parts, Entries
<1>5. Known(cur.seq) => Contains(Queue, cur)
  <2> SUFFICES ASSUME NEW x \in Held, x.seq = cur.seq PROVE cur \in Held
    BY <1>0, QueueHeld
  <2>1. x = Own(cur.msg)
    BY <1>0, <1>2, <1>3, Numbers DEF BInv, IInv, Parts
  <2> QED BY <1>2, <2>1
<1> QED BY <1>1, <1>3, <1>4, <1>5

\* The write that takes a message in, asked for by the message's own handler.
LEMMA TakenBuffer ==
  ASSUME BInv, Inv', Current, Turn("enqueue"), Answer("ok"), UNCHANGED OutsideStore,
         NEW h \in Message, Head(asked).by = h, Sending(h), Head(asked).item = Own(h),
         Taken(Own(h)), entered' = entered \cup {h}, applying' = applying
  PROVE  Buffered' /\ Requested' /\ InStep'
<1>0. Shapes /\ Shapes' /\ Buffered /\ Requested /\ InStep
  BY BothShapes DEF BInv, IInv, BParts, Coverage
<1>1. Serves(h, "ok")
  BY ServesHead DEF BInv
<1>2. mine[h] = interjectSeq + 1 /\ Own(h) \in Item /\ Own(h).seq = mine[h]
      /\ Own(h).msg = h
  BY <1>0, RequestIsNext DEF Shapes, Owns
<1>3. interjectSeq' = interjectSeq + 1 /\ interjectSeq \in Nat /\ received \in Nat
  BY <1>0, <1>2 DEF Taken, Shapes
<1>4. ToSet(pending)' = ToSet(pending) \cup {Own(h)}
  BY <1>0, <1>2, ToSetAppend DEF Taken, Shapes
<1>5. /\ UNCHANGED <<items, received, accepting, pc, cur, outcome, told, mine>>
      /\ \A m : Own(m)' = Own(m)
      /\ Held' = Held \cup {Own(h)}
  <2>1. UNCHANGED <<items, received, accepting, pc, cur, outcome, told, mine>>
    BY <1>1 DEF Serves, bufferVars
  <2> QED BY <2>1, <1>4 DEF Own, Held
<1>6. \A m \in Message : Sending(m)' <=> Sending(m) /\ m # h
  BY <1>1, <1>5 DEF Serves, Sending
<1>7. Own(h) \in ToSet(items) /\ mine[h] <= received
  <2>1. Own(h) \in ToSet(items)
    BY <1>0 DEF Requested
  <2> QED BY <1>2, <2>1 DEF BInv, IInv, Parts, Numbered
<1>8. Buffered'
  <2>1. Rising(items)' /\ Held' \subseteq ToSet(items)'
    BY <1>0, <1>5, <1>7 DEF Buffered
  <2>2. interjectSeq' <= received'
    BY <1>2, <1>3, <1>5, <1>7
  <2>3. ASSUME NEW x \in ToSet(items), x.seq <= interjectSeq + 1
        PROVE  x.msg \in entered \cup {h}
    <3>1. x.seq \in Nat
      BY <1>0, ItemFields DEF Shapes
    <3>2. CASE x.seq <= interjectSeq
      BY <1>0, <3>2 DEF Buffered
    <3>3. CASE x.seq = interjectSeq + 1
      <4>1. x = Own(h)
        BY <1>0, <1>2, <1>7, <3>3, RisingOne DEF Buffered, Shapes
      <4> QED BY <1>2, <4>1
    <3> QED BY <1>3, <2>3, <3>1, <3>2, <3>3
  <2>4. ASSUME NEW n \in Int, interjectSeq + 1 < n, n <= received
        PROVE  \E m \in Message : Sending(m) /\ m # h /\ mine[m] = n
    <3>1. interjectSeq < n
      BY <1>3, <2>4
    <3>2. PICK m \in Message : Sending(m) /\ mine[m] = n
      BY <1>0, <2>4, <3>1 DEF Buffered
    <3> QED BY <1>2, <1>3, <2>4, <3>2
  <2> QED BY <1>3, <1>5, <1>6, <2>1, <2>2, <2>3, <2>4 DEF Buffered
<1>9. Requested'
  <2>1. ASSUME NEW m \in Message, Sending(m), m # h
        PROVE  mine[m] > interjectSeq + 1
    <3>1. Precedes(h, m)
      BY <1>0, <2>1, HeadPrecedes DEF Turn, Sending
    <3>2. mine[h] < mine[m]
      BY <1>0, <2>1, <3>1 DEF Requested, Sending
    <3> QED BY <1>2, <3>2
  <2>2. \A m, n \in Message : Precedes(m, n)' => Precedes(m, n)
    BY <1>1 DEF Serves
  <2>3. \A m \in Message : reply'[m] \in {"none", "ok"}
    BY <1>1, ItemFields DEF Serves
  <2> QED BY <1>0, <1>3, <1>5, <1>6, <2>1, <2>2, <2>3 DEF Requested
<1>10. InStep'
  <2>1. reply'[Loop] = "none"
    BY <1>1, RunInterjectAssumption, ItemFields DEF Serves
  <2> QED BY <1>0, <1>5, <2>1 DEF InStep
<1> QED BY <1>8, <1>9, <1>10

LEMMA EnqueueBuffer ==
  ASSUME BInv, Inv', EnqueueInterject
  PROVE  BParts'
<1> DEFINE e == Head(asked)
<1>0. Shapes /\ CheckpointTypeOK
  BY InvShapes DEF BInv, IInv, Inv, Types
<1>1. Turn("enqueue") /\ UNCHANGED OutsideStore
  BY DEF EnqueueInterject
<1>2. PICK code : Answer(code)
  BY DEF EnqueueInterject, Only, WriteFails
<1>3. Sensible(e) /\ e.kind = "enqueue" /\ Serves(e.by, code)
  BY <1>1, <1>2, ServesHead DEF BInv
<1>4. Fresh' /\ Decided'
  BY <1>1, <1>2, ServedFresh
<1>5. pc' = pc /\ (drifted' = FALSE => drifted = FALSE)
  <2>1. drifted' = drifted \/ drifted' = TRUE
    BY DEF EnqueueInterject, Only, WriteFails
  <2> QED BY <1>3, <2>1 DEF Serves
<1>6. CASE ~Current
  <2>1. drifted \in BOOLEAN /\ drifted' \in BOOLEAN
    BY DEF BInv, IInv, Inv, Types, RecoveryTypeOK
  <2> QED BY <1>4, <1>5, <1>6, <2>1 DEF BParts, Coverage, Current
<1>7. CASE Current /\ e.by \in Message
  <2> DEFINE m == e.by
  <2>1. m \in Message /\ e.item = Own(m) /\ told[m] = "sending" /\ Sending(m)
    BY <1>3, <1>7, RunInterjectAssumption DEF Sensible, Serves, Sending
  <2>2. mine[m] = interjectSeq + 1 /\ Own(m).seq = mine[m] /\ Own(m).msg = m
        /\ interjectSeq \in Nat
    BY <1>0, <1>1, <1>7, <2>1, RequestIsNext DEF Shapes, Owns
  <2> HIDE DEF m
  <2>3. status = "running"
    <3>1. reply[Loop] = "none"
      BY <1>1, ItemFields DEF Turn
    <3> QED BY <1>7, <3>1 DEF Current, BInv, IInv, Parts, Stages
  <2>4. ~Known(Own(m).seq) /\ ~Contains(Queue, Own(m))
    <3>1. \A x \in Held : x.seq <= interjectSeq
      BY <1>0, Numbers DEF BInv, IInv, Parts
    <3> QED BY <1>0, <2>2, <3>1, QueueHeld
  <2>5. \/ WriteFails
        \/ /\ Answer("ok") /\ Taken(Own(m)) /\ entered' = entered \cup {m}
           /\ applying' = applying /\ drifted' = drifted
    <3>1. Head(asked).item = Own(m) /\ TakesNext(Own(m).seq)
          /\ ~(Own(m).seq <= interjectSeq)
      BY <2>1, <2>2 DEF TakesNext, e, m
    <3>2. PICK x : x = Own(m)
      OBVIOUS
    <3>3. /\ Head(asked).item = x /\ TakesNext(x.seq) /\ ~(x.seq <= interjectSeq)
          /\ status = "running" /\ ~Known(x.seq) /\ ~Contains(Queue, x) /\ x.msg = m
      BY <2>2, <2>3, <2>4, <3>1, <3>2
    <3>4. \/ WriteFails
          \/ /\ Answer("ok") /\ Taken(x) /\ entered' = entered \cup {x.msg}
             /\ UNCHANGED <<status, applying, transcript, drifted>>
      BY <3>3 DEF EnqueueInterject
    <3> QED BY <3>2, <3>3, <3>4
  <2>6. CASE WriteFails
    BY <1>1, <2>6, FailedWriteBuffer
  <2>7. CASE ~WriteFails
    <3>1. Buffered' /\ Requested' /\ InStep'
      BY <1>1, <1>7, <2>1, <2>5, <2>7, TakenBuffer DEF m
    <3> QED BY <1>4, <3>1 DEF BParts, Coverage
  <2> QED BY <2>6, <2>7
<1>8. CASE Current /\ e.by = Loop
  <2>1. e.item = cur /\ cur.seq <= interjectSeq /\ (Known(cur.seq) => Contains(Queue, cur))
    BY <1>1, <1>3, <1>8, LoopRequestIsOld
  <2>2. interjectSeq \in Nat /\ cur.seq \in Nat
    BY <1>0, <1>3, <1>8, ItemFields DEF Shapes, Sensible, InHand
  <2>3. PICK word \in {"terminal", "ok", "not_pending"} :
          Answer(word) /\ UNCHANGED durableVars /\ drifted' = drifted
    BY <2>1, <2>2 DEF EnqueueInterject, Only, TakesNext
  <2>4. UNCHANGED <<interjectSeq, entered, applying>> /\ Held' = Held
    BY <2>3 DEF durableVars, Held
  <2> QED BY <1>1, <1>8, <2>3, <2>4, QuietKeeps, RunInterjectAssumption
<1> QED BY <1>3, <1>6, <1>7, <1>8, ItemFields DEF Sensible

LEMMA ClaimBuffer ==
  ASSUME BInv, Inv', ClaimInterject
  PROVE  BParts'
<1>0. Shapes /\ CheckpointTypeOK
  BY InvShapes DEF BInv, IInv, Inv, Types
<1>1. Turn("claim") /\ UNCHANGED OutsideStore
  BY DEF ClaimInterject
<1>2. PICK code : Answer(code)
  BY DEF ClaimInterject, Only, WriteFails
<1>3. /\ Head(asked).by = Loop /\ pc = "claim" /\ Head(asked).item = cur
      /\ cur.msg \in entered /\ cur \in Item /\ cur = Own(cur.msg)
  <2>1. Head(asked).by = Loop /\ pc = "claim" /\ Head(asked).item = cur
    BY <1>1, <1>2, ServesHead, LoopCall DEF BInv
  <2>2. cur.msg \in entered
    BY <2>1 DEF BInv, IInv, Parts, Stages
  <2>3. cur \in Item /\ cur = Own(cur.msg)
    BY <1>0, <2>1 DEF Shapes, InHand, BInv, IInv, Parts, Owned
  <2> QED BY <2>1, <2>2, <2>3
<1>4. Current => (applying # NoItem => applying.seq = cur.seq)
  BY <1>3 DEF BInv, BParts, Coverage, InStep
<1>5. ASSUME Current, NEW i \in DOMAIN pending, pending[i].seq = cur.seq
      PROVE  Head(pending).seq = cur.seq /\ pending # <<>>
  <2>1. i \in Nat /\ 1 \in DOMAIN pending /\ Head(pending) = pending[1] /\ pending # <<>>
        /\ Head(pending) \in ToSet(pending)
    BY <1>0, LenProperties, EmptySeq, HeadTailProperties, ToSetHeadTail DEF Shapes
  <2>2. Head(pending) \in ToSet(items) /\ Head(pending) \in Item
    BY <1>0, <1>5, <2>1 DEF BInv, BParts, Coverage, Buffered, Held, Shapes
  <2>3. cur.seq <= Head(pending).seq
    BY <1>3, <1>5, <2>2 DEF BInv, BParts, Coverage, InStep
  <2>4. i = 1 \/ 1 < i
    BY <1>0, <2>1, LenProperties DEF Shapes
  <2>5. 1 < i => Head(pending).seq < cur.seq
    BY <1>5, <2>1 DEF BInv, IInv, Inv, Ordered, Rising
  <2> QED BY <1>3, <1>5, <2>1, <2>2, <2>3, <2>4, <2>5, ItemFields
<1>6. ASSUME NEW word \in {"ok", "terminal", "not_pending", "busy"}, Only(word),
             Current => word # "busy"
      PROVE  BParts'
  <2>1. Answer(word) /\ UNCHANGED <<interjectSeq, entered, applying, pending, drifted>>
    BY <1>6 DEF Only, durableVars
  <2>2. Held' = Held
    BY <2>1 DEF Held
  <2> QED BY <1>1, <1>3, <1>6, <2>1, <2>2, QuietKeeps, RunInterjectAssumption
<1>7. CASE /\ Answer("ok") /\ applying = NoItem
           /\ pending # <<>> /\ Head(pending).seq = cur.seq
           /\ applying' = Head(pending) /\ pending' = Tail(pending)
           /\ UNCHANGED <<status, interjectSeq, transcript, entered, drifted>>
  <2>1. ToSet(pending) = {Head(pending)} \cup ToSet(pending)'
    BY <1>0, <1>7, ToSetHeadTail DEF Shapes
  <2>2. Held' \subseteq Held
    BY <1>7, <2>1 DEF Held
  <2> QED BY <1>1, <1>3, <1>7, <2>2, QuietKeeps, RunInterjectAssumption
<1>8. WriteFails => BParts'
  BY <1>1, FailedWriteBuffer
<1> QED BY <1>3, <1>4, <1>5, <1>6, <1>7, <1>8 DEF ClaimInterject

LEMMA CompleteBuffer ==
  ASSUME BInv, Inv', CompleteInterject
  PROVE  BParts'
<1>1. Turn("complete") /\ UNCHANGED OutsideStore
  BY DEF CompleteInterject
<1>2. PICK code : Answer(code)
  BY DEF CompleteInterject, Only, WriteFails
<1>3. Head(asked).by = Loop /\ pc = "complete" /\ Head(asked).item = cur
  BY <1>1, <1>2, ServesHead, LoopCall DEF BInv
<1>4. applying = cur
  <2>1. reply[Loop] = "none"
    BY <1>1, ItemFields DEF Turn
  <2> QED BY <1>3, <2>1 DEF BInv, IInv, Parts, Stages
<1>5. ASSUME NEW word \in {"terminal", "not_pending"}, Only(word)
      PROVE  BParts'
  <2>1. Answer(word) /\ UNCHANGED <<interjectSeq, entered, applying, pending, drifted>>
    BY <1>5 DEF Only, durableVars
  <2>2. Held' = Held
    BY <2>1 DEF Held
  <2> QED BY <1>1, <1>3, <1>5, <2>1, <2>2, QuietKeeps, RunInterjectAssumption
<1>6. CASE /\ Answer("ok") /\ applying' = NoItem
           /\ UNCHANGED <<status, interjectSeq, pending, transcript, entered, drifted>>
  <2>1. Held' \subseteq Held
    BY <1>6 DEF Held
  <2> QED BY <1>1, <1>3, <1>6, <2>1, QuietKeeps, RunInterjectAssumption
<1>7. WriteFails => BParts'
  BY <1>1, FailedWriteBuffer
<1> QED BY <1>3, <1>4, <1>5, <1>6, <1>7 DEF CompleteInterject

LEMMA CancelBuffer ==
  ASSUME BInv, Inv', CancelInterject
  PROVE  BParts'
<1>0. Shapes /\ CheckpointTypeOK
  BY InvShapes DEF BInv, IInv, Inv, Types
<1>1. Turn("cancel") /\ UNCHANGED OutsideStore
  BY DEF CancelInterject
<1>2. PICK code : Answer(code)
  BY DEF CancelInterject, Only, WriteFails
<1>3. PICK m \in Message : Head(asked).by = m /\ told[m] = "cancelling" /\ m # Loop
  BY <1>1, <1>2, ServesHead, LoopCall, RunInterjectAssumption DEF BInv
<1>4. ASSUME NEW word \in {"terminal", "unchanged"}, Only(word)
      PROVE  BParts'
  <2>1. Answer(word) /\ UNCHANGED <<interjectSeq, entered, applying, pending, drifted>>
    BY <1>4 DEF Only, durableVars
  <2>2. Held' = Held
    BY <2>1 DEF Held
  <2> QED BY <1>1, <1>3, <1>4, <2>1, <2>2, QuietKeeps
<1>5. ASSUME NEW n, Answer("ok"), pending' = Without(pending, n),
             applying' = IF applying.seq = n THEN NoItem ELSE applying,
             UNCHANGED <<status, interjectSeq, transcript, entered, drifted>>
      PROVE  BParts'
  <2>1. ToSet(pending)' \subseteq ToSet(pending)
    BY <1>0, <1>5, WithoutSet DEF Shapes
  <2>2. Held' \subseteq Held
    BY <1>5, <2>1 DEF Held
  <2>3. applying' = applying \/ applying' = NoItem
    BY <1>5
  <2> QED BY <1>1, <1>3, <1>5, <2>2, <2>3, QuietKeeps
<1>6. WriteFails => BParts'
  BY <1>1, FailedWriteBuffer
<1> QED BY <1>4, <1>5, <1>6 DEF CancelInterject

LEMMA SettleBuffer ==
  ASSUME BInv, Inv', SettleRun
  PROVE  BParts'
<1>1. PICK kind \in {"settle", "discard"} : Turn(kind)
  BY DEF SettleRun
<1>2. UNCHANGED OutsideStore
  BY DEF SettleRun
<1>3. PICK word \in {"error", "ok"} :
        /\ Answer(word)
        /\ UNCHANGED <<interjectSeq, entered, drifted>>
        /\ \/ UNCHANGED <<applying, pending>>
           \/ applying' = NoItem /\ pending' = <<>>
  BY DEF SettleRun, Only, durableVars
<1>4. Head(asked).by = Loop
  BY <1>1, <1>2, <1>3, ServesHead, LoopCall DEF BInv
<1>5. Held' \subseteq Held
  BY <1>3, ToSetEmpty DEF Held
<1> QED BY <1>1, <1>2, <1>3, <1>4, <1>5, QuietKeeps, RunInterjectAssumption

LEMMA RoundBuffer ==
  ASSUME BInv, Inv', ClaimModelRound
  PROVE  BParts'
<1>1. Turn("round") /\ UNCHANGED OutsideStore
  BY DEF ClaimModelRound
<1>2. PICK word \in {"terminal", "ok", "error"} :
        Answer(word) /\ UNCHANGED <<interjectSeq, entered, drifted, applying, pending>>
  BY DEF ClaimModelRound, Only, durableVars
<1>3. Head(asked).by = Loop
  BY <1>1, <1>2, ServesHead, LoopCall DEF BInv
<1>4. Held' = Held
  BY <1>2 DEF Held
<1> QED BY <1>1, <1>2, <1>3, <1>4, QuietKeeps, RunInterjectAssumption

LEMMA StoreBuffer == BInv /\ Inv' /\ Store => BParts'
BY EnqueueBuffer, ClaimBuffer, CompleteBuffer, CancelBuffer, SettleBuffer, RoundBuffer
   DEF Store

-----------------------------------------------------------------------------
\* The client.

\* Nothing the parts speak of changes.
LEMMA SameParts ==
  ASSUME BInv, UNCHANGED <<items, received, accepting, pc, cur, outcome, interjectSeq,
                           applying, pending, entered, asked, reply, told, mine, drifted>>
  PROVE  BParts'
<1>1. (\A n : Own(n)' = Own(n)) /\ (\A c : Waits(c)' = Waits(c))
      /\ (\A c, d : Precedes(c, d)' = Precedes(c, d)) /\ Held' = Held
  BY DEF Own, Waits, Precedes, Held
<1>2. \A m \in Message : Sending(m)' = Sending(m)
  BY <1>1 DEF Sending
<1>3. Buffered' = Buffered
  BY <1>1, <1>2 DEF Buffered
<1>4. Requested' = Requested
  BY <1>1, <1>2 DEF Requested
<1>5. InStep' = InStep /\ Decided' = Decided /\ Current' = Current
  BY DEF InStep, Decided, Current
<1>6. Fresh' = Fresh
  BY <1>1, <1>2 DEF Fresh
<1> QED BY <1>3, <1>4, <1>5, <1>6 DEF BInv, BParts, Coverage

\* A new message takes the next number, and stands last in the buffer and in the
\* store's queue.
LEMMA InterjectBuffer ==
  ASSUME BInv, Inv', NEW m \in Message, Interject(m)
  PROVE  BParts'
<1>0. Shapes /\ Shapes'
  BY BothShapes DEF BInv, IInv
<1>a. PICK x \in Item : x = [seq |-> received + 1, msg |-> m]
  <2>1. [seq |-> received + 1, msg |-> m] \in Item
    BY <1>0 DEF Shapes, Item
  <2> QED BY <2>1
<1>1. x.seq = received + 1 /\ x.msg = m /\ received \in Nat /\ interjectSeq \in Nat
  BY <1>0, <1>a DEF Shapes
<1>2. /\ told[m] = "nothing" /\ accepting
      /\ items' = Append(items, x) /\ received' = received + 1
      /\ Ask(m, "enqueue", x)
      /\ told' = [told EXCEPT ![m] = "sending"] /\ mine' = [mine EXCEPT ![m] = x.seq]
      /\ UNCHANGED <<pc, cur, outcome, interjectSeq, applying, pending, entered, reply,
                     accepting, drifted>>
  BY <1>a, <1>1 DEF Interject, loopVars, durableVars
<1>3. /\ told'[m] = "sending" /\ mine'[m] = x.seq /\ Own(m)' = x
      /\ \A n \in Message : n # m =>
           told'[n] = told[n] /\ mine'[n] = mine[n] /\ Own(n)' = Own(n)
      /\ Held' = Held
  BY <1>0, <1>a, <1>1, <1>2 DEF Shapes, Own, Held
<1>4. ~Waits(m) /\ reply[m] = "none"
  <2>1. \A e \in ToSet(asked) : e.by # m
    BY <1>2, ItemFields DEF BInv, IInv, Parts, Asks, Sensible
  <2> QED BY <1>2, <2>1 DEF Waits, BInv, IInv, Parts, Asks
<1>5. /\ \A d : Waits(d)' <=> Waits(d) \/ d = m
      /\ \A d, e : Precedes(d, e)' <=> Precedes(d, e) \/ (Waits(d) /\ e = m)
  <2>1. [by |-> m, kind |-> "enqueue", item |-> x] \in Calls
    BY ItemFields DEF Calls, Kinds
  <2> QED BY <1>0, <1>2, <2>1, AskWaits DEF Shapes
<1>6. \A n \in Message : Sending(n)' <=> Sending(n) \/ n = m
  BY <1>3, <1>5 DEF Sending
<1>7. ToSet(items)' = ToSet(items) \cup {x}
  BY <1>0, <1>2, ToSetAppend DEF Shapes
<1>8. \A y \in ToSet(items) : y.seq <= received /\ y.seq \in Nat /\ y.seq < x.seq
  <2>1. \A y \in ToSet(items) : y.seq <= received /\ y.seq \in Nat
    BY <1>0, ItemFields DEF BInv, IInv, Parts, Numbered, Shapes
  <2> QED BY <1>1, <2>1
<1>9. Fresh' /\ Decided'
  <2>1. received' # 0
    BY <1>1, <1>2
  <2> QED BY <1>2, <2>1 DEF Fresh, Decided, BInv, BParts
<1> SUFFICES ASSUME Current, Buffered, Requested, InStep
             PROVE  Buffered' /\ Requested' /\ InStep'
  BY <1>2, <1>9 DEF BInv, BParts, Coverage, Current
<1>10. interjectSeq <= received /\ Held \subseteq ToSet(items)
  BY DEF Buffered
<1>11. Buffered'
  <2>1. Rising(items')
    BY <1>0, <1>2, <1>8, RisingAppend DEF Buffered, Shapes
  <2>2. ~(x.seq <= interjectSeq) /\ interjectSeq <= received'
    BY <1>1, <1>2, <1>10
  <2>3. ASSUME NEW n \in Int, interjectSeq < n, n <= received + 1
        PROVE  \E k \in Message : Sending(k)' /\ mine'[k] = n
    <3>1. CASE n = received + 1
      BY <1>1, <1>3, <1>6, <3>1
    <3>2. CASE n # received + 1
      <4>1. n <= received
        BY <1>1, <2>3, <3>2
      <4>2. PICK k \in Message : Sending(k) /\ mine[k] = n
        BY <2>3, <4>1 DEF Buffered
      <4>3. k # m
        BY <1>4, <4>2 DEF Sending
      <4> QED BY <1>3, <1>6, <4>2, <4>3
    <3> QED BY <3>1, <3>2
  <2>4. \A y \in ToSet(items)' : y.seq <= interjectSeq' => y.msg \in entered'
    BY <1>2, <1>7, <2>2 DEF Buffered
  <2> QED BY <1>2, <1>3, <1>7, <1>10, <2>1, <2>2, <2>3, <2>4 DEF Buffered
<1>12. Requested'
  <2>1. ASSUME NEW n \in Message, Sending(n), n # m
        PROVE  /\ Own(n)' \in ToSet(items)' /\ mine'[n] > interjectSeq
               /\ \A k \in Message : told'[k] = "sending" /\ Precedes(n, k)' => mine'[n] < mine'[k]
    <3>1. Own(n) \in ToSet(items) /\ mine[n] > interjectSeq
          /\ \A k \in Message : told[k] = "sending" /\ Precedes(n, k) => mine[n] < mine[k]
      BY <2>1 DEF Requested
    <3>2. mine[n] < x.seq
      BY <1>0, <1>8, <3>1 DEF Shapes, Owns
    <3>3. ASSUME NEW k \in Message, told'[k] = "sending", Precedes(n, k)'
          PROVE  mine[n] < mine'[k]
      <4>1. CASE k = m
        BY <1>3, <3>2, <4>1
      <4>2. CASE k # m
        BY <1>3, <1>5, <3>1, <3>3, <4>2
      <4> QED BY <4>1, <4>2
    <3> QED BY <1>3, <1>7, <2>1, <3>1, <3>3
  <2>2. /\ Own(m)' \in ToSet(items)' /\ mine'[m] > interjectSeq
        /\ \A k \in Message : ~Precedes(m, k)'
    <3>1. \A k : ~Precedes(m, k)'
      BY <1>4, <1>5, PrecedesOne
    <3> QED BY <1>1, <1>3, <1>7, <1>10, <3>1
  <2>3. \A n \in Message : told'[n] = "sending" => reply'[n] \in {"none", "ok"}
    BY <1>2, <1>3, <1>4 DEF Requested
  <2> QED BY <1>2, <1>6, <2>1, <2>2, <2>3 DEF Requested
<1>13. InStep'
  <2>1. ASSUME pc \in {"enqueue", "claim"} PROVE cur.seq <= x.seq
    <3>1. cur \in Item /\ cur.seq \in Nat /\ cur.seq = mine[cur.msg]
      BY <1>0, <2>1, ItemFields DEF Shapes, InHand, BInv, IInv, Parts, Owned
    <3>2. pc = "enqueue" => cur.seq <= received
      BY DEF BInv, IInv, Parts, Numbered
    <3>3. pc = "claim" => cur.seq <= interjectSeq
      BY <3>1 DEF BInv, IInv, Parts, Stages, Entries
    <3> QED BY <1>1, <1>10, <2>1, <3>1, <3>2, <3>3
  <2>2. applying # NoItem => applying.seq <= x.seq
    <3>1. applying # NoItem => applying \in ToSet(items)
      BY <1>10 DEF Held
    <3> QED BY <1>1, <1>8, <3>1
  <2>3. outcome # "done"
    BY <1>2 DEF InStep
  <2> QED BY <1>2, <1>7, <2>1, <2>2, <2>3 DEF InStep
<1> QED BY <1>11, <1>12, <1>13

\* A client consumes its answer.  The buffer may lose its message, when the
\* checkpoint has it no more.
LEMMA ConsumedBuffer ==
  ASSUME BInv, Inv', NEW m \in Message, reply[m] # "none", Consumed(m),
         NEW word \in {"accepted", "kept", "cancelled", "refused", "unsure"},
         told' = [told EXCEPT ![m] = word],
         UNCHANGED <<loopVars, durableVars, asked, mine, drifted, received, accepting>>,
         Current =>
           \/ items' = items
           \/ /\ items' = Without(items, mine[m])
              /\ m \in entered /\ Own(m) \notin Held \cup ToSet(transcript)
  PROVE  BParts'
<1>0. Shapes /\ Shapes'
  BY BothShapes DEF BInv, IInv
<1>1. /\ UNCHANGED <<pc, cur, outcome, interjectSeq, applying, pending, transcript,
                     entered, asked, mine, drifted, received, accepting>>
      /\ Held' = Held /\ (\A n : Own(n)' = Own(n))
      /\ (\A c : Waits(c)' = Waits(c)) /\ (\A c, d : Precedes(c, d)' = Precedes(c, d))
  BY DEF loopVars, durableVars, Held, Own, Waits, Precedes
<1>2. \A c \in Caller : reply'[c] = "none"
  BY <1>0, ItemFields DEF Consumed, Shapes, BInv, IInv, Parts, Asks
<1>3. /\ told'[m] = word /\ \A n \in Message : n # m => told'[n] = told[n]
      /\ ~Waits(m)
  BY <1>0 DEF Shapes, BInv, IInv, Parts, Asks, Waits
<1>4. /\ \A n \in Message : Sending(n)' <=> Sending(n)
      /\ \A n \in Message : told'[n] = "sending" => told[n] = "sending"
  BY <1>1, <1>3 DEF Sending
<1>5. reply'[Loop] = "none" /\ \A n \in Message : reply'[n] = "none"
  BY <1>2, ItemFields
<1>6. Fresh' /\ Decided'
  BY <1>1, <1>4, <1>5 DEF Fresh, Decided, BInv, BParts
<1> SUFFICES ASSUME Current, Buffered, Requested, InStep
             PROVE  Buffered' /\ Requested' /\ InStep'
  BY <1>1, <1>6 DEF BInv, BParts, Coverage, Current
<1>7. /\ Rising(items') /\ ToSet(items)' \subseteq ToSet(items)
      /\ \A x \in ToSet(items) : x.seq # mine[m] => x \in ToSet(items)'
      /\ \/ items' = items
         \/ m \in entered /\ Own(m) \notin Held \cup ToSet(transcript)
  <2>1. CASE items' = items
    BY <2>1 DEF Buffered
  <2>2. CASE /\ items' = Without(items, mine[m])
             /\ m \in entered /\ Own(m) \notin Held \cup ToSet(transcript)
    <3>1. Rising(Without(items, mine[m]))
      BY <1>0, WithoutRises DEF Shapes, Buffered
    <3>2. /\ ToSet(Without(items, mine[m])) \subseteq ToSet(items)
          /\ \A x \in ToSet(items) : x.seq # mine[m] => x \in ToSet(Without(items, mine[m]))
      BY <1>0, WithoutSet DEF Shapes
    <3> QED BY <2>2, <3>1, <3>2
  <2> QED BY <2>1, <2>2
<1>8. m \in entered => mine[m] <= interjectSeq
  BY DEF BInv, IInv, Parts, Entries
<1>9. Buffered'
  <2>1. ASSUME NEW x \in Held PROVE x \in ToSet(items)'
    <3>1. x \in ToSet(items)
      BY DEF Buffered
    <3>2. CASE items' # items /\ x.seq = mine[m]
      BY <1>0, <1>7, <3>2, Numbers DEF BInv, IInv, Parts
    <3> QED BY <1>7, <3>1, <3>2
  <2> QED BY <1>1, <1>4, <1>7, <2>1 DEF Buffered
<1>10. Requested'
  <2>1. ASSUME NEW n \in Message, Sending(n) PROVE Own(n) \in ToSet(items)'
    <3>1. Own(n) \in ToSet(items) /\ Own(n).seq = mine[n] /\ mine[n] > interjectSeq
          /\ mine[n] \in Nat /\ mine[m] \in Nat /\ interjectSeq \in Nat
      BY <1>0, <2>1 DEF Requested, Shapes, Owns
    <3>2. m \in entered => mine[n] # mine[m]
      BY <1>8, <3>1
    <3> QED BY <1>7, <3>1, <3>2
  <2> QED BY <1>1, <1>4, <1>5, <2>1 DEF Requested
<1>11. InStep'
  <2>1. pc \in {"enqueue", "claim"} => cur \in ToSet(items)' \/ cur.msg \in entered
    BY <1>7, <1>8 DEF InStep, Buffered
  <2>2. pc = "complete" => cur \in ToSet(items)'
    <3> SUFFICES ASSUME pc = "complete" PROVE cur \in ToSet(items)'
      OBVIOUS
    <3>1. cur \in ToSet(items) /\ cur \in ToSet(transcript)
      BY DEF InStep, BInv, IInv, Parts, Stages
    <3>2. CASE items' # items /\ cur.seq = mine[m]
      BY <1>0, <1>7, <3>1, <3>2, Numbers DEF BInv, IInv, Parts
    <3> QED BY <1>7, <3>1, <3>2
  <2>3. outcome = "done" => items' = <<>> /\ ~accepting
    <3>1. items = <<>> => ToSet(items)' = {}
      BY <1>7, ToSetEmpty
    <3> QED BY <1>0, <3>1, NoElements DEF InStep, Shapes
  <2> QED BY <1>1, <1>5, <1>7, <2>1, <2>2, <2>3 DEF InStep
<1> QED BY <1>9, <1>10, <1>11

LEMMA InterjectAnsweredBuffer ==
  ASSUME BInv, Inv', NEW m \in Message, InterjectAnswered(m)
  PROVE  BParts'
<1>1. /\ told[m] = "sending" /\ reply[m] # "none" /\ Consumed(m)
      /\ UNCHANGED <<loopVars, durableVars, asked, mine, drifted>>
  BY DEF InterjectAnswered
<1>2. Current => reply[m] = "ok"
  BY <1>1 DEF BInv, BParts, Coverage, Requested
<1>3. UNCHANGED <<received, accepting>>
  BY DEF InterjectAnswered, CancelPending, Withdrawn, bufferVars
<1>4. Current => items' = items
  BY <1>2 DEF InterjectAnswered, bufferVars
<1>5. PICK word \in {"accepted", "refused", "unsure"} : told' = [told EXCEPT ![m] = word]
  BY DEF InterjectAnswered
<1> QED BY <1>1, <1>3, <1>4, <1>5, ConsumedBuffer

LEMMA CancelAnsweredBuffer ==
  ASSUME BInv, Inv', NEW m \in Message, CancelAnswered(m)
  PROVE  BParts'
<1>1. /\ told[m] = "cancelling" /\ reply[m] # "none" /\ Consumed(m)
      /\ UNCHANGED <<loopVars, durableVars, asked, mine, drifted>>
  BY DEF CancelAnswered
<1>2. reply[m] = "ok" => m \in entered /\ Own(m) \notin Held \cup ToSet(transcript)
  BY <1>1 DEF BInv, IInv, Parts, Said
<1>3. UNCHANGED <<received, accepting>>
  BY DEF CancelAnswered, CancelPending, Withdrawn, bufferVars
<1>4. items' = items \/ (reply[m] = "ok" /\ items' = Without(items, mine[m]))
  BY DEF CancelAnswered, CancelPending, Withdrawn, bufferVars
<1>5. PICK word \in {"cancelled", "kept"} : told' = [told EXCEPT ![m] = word]
  BY DEF CancelAnswered
<1> QED BY <1>1, <1>2, <1>3, <1>4, <1>5, ConsumedBuffer

LEMMA CancelAskedBuffer ==
  ASSUME BInv, Inv', NEW m \in Message, Cancel(m)
  PROVE  BParts'
<1>0. Shapes
  BY InvShapes DEF BInv, IInv
<1>1. /\ told[m] = "accepted" /\ Ask(m, "cancel", Own(m))
      /\ told' = [told EXCEPT ![m] = "cancelling"]
      /\ UNCHANGED <<items, received, accepting, pc, cur, outcome, interjectSeq,
                     applying, pending, entered, reply, mine, drifted>>
  BY DEF Cancel, bufferVars, loopVars, durableVars, Own
<1>2. /\ told'[m] = "cancelling" /\ \A n \in Message : n # m => told'[n] = told[n]
      /\ Held' = Held /\ \A n : Own(n)' = Own(n)
  BY <1>0, <1>1 DEF Shapes, Held, Own
<1>3. /\ \A d : Waits(d)' <=> Waits(d) \/ d = m
      /\ \A d, e : Precedes(d, e)' <=> Precedes(d, e) \/ (Waits(d) /\ e = m)
  <2>1. PICK x \in Item : x = Own(m)
    BY <1>0 DEF Shapes, Owns
  <2>2. [by |-> m, kind |-> "cancel", item |-> x] \in Calls
    BY ItemFields DEF Calls, Kinds
  <2> QED BY <1>0, <1>1, <2>1, <2>2, AskWaits DEF Shapes
<1>4. /\ \A n \in Message : Sending(n)' <=> Sending(n)
      /\ \A n \in Message : told'[n] = "sending" => told[n] = "sending" /\ n # m
  BY <1>1, <1>2, <1>3 DEF Sending
<1>5. Fresh' /\ Decided'
  BY <1>1, <1>3, <1>4 DEF Fresh, Decided, BInv, BParts
<1>6. Buffered => Buffered'
  BY <1>1, <1>2, <1>4 DEF Buffered
<1>7. Requested => Requested'
  BY <1>1, <1>2, <1>3, <1>4 DEF Requested
<1>8. InStep => InStep'
  BY <1>1 DEF InStep
<1> QED BY <1>1, <1>5, <1>6, <1>7, <1>8 DEF BInv, BParts, Coverage, Current

LEMMA ClientBufferKeeps == BInv /\ Inv' /\ Client => BParts'
<1>1. Flush \/ Abort =>
        UNCHANGED <<items, received, accepting, pc, cur, outcome, interjectSeq,
                    applying, pending, entered, asked, reply, told, mine, drifted>>
  BY DEF Flush, Abort, bufferVars, loopVars, durableVars, callVars, clientVars
<1> QED BY <1>1, SameParts, InterjectBuffer, InterjectAnsweredBuffer,
           CancelAskedBuffer, CancelAnsweredBuffer DEF Client

-----------------------------------------------------------------------------
\* The loop.
LEMMA ExecutorDecides ==
  ASSUME BInv, Executor
  PROVE  Fresh' /\ Decided'
<1> USE DEF Goes, Ends, Throws, Leaves, AskToSettle, ModelListens
<1>1. pc' \notin {"recovering", "restoring"}
  BY DEF Executor, RoundStarts, Enqueued, Claimed, AppendTranscript, Completed,
         RoundGoesOn, ToolCalls, ToolsDone, ResultResolved, RoundFails,
         LoopThrows, BufferCloses, SettleTerminal, SettleFailure, Settled
<1>2. outcome' = "done" =>
        pc' \in {"ending", "settle", "commit", "failed", "commitFailure"}
  BY DEF Executor, RoundStarts, Enqueued, Claimed, AppendTranscript, Completed,
         RoundGoesOn, ToolCalls, ToolsDone, ResultResolved, RoundFails,
         LoopThrows, BufferCloses, SettleTerminal, SettleFailure, Settled,
         BInv, BParts, Decided
<1> QED BY <1>1, <1>2 DEF Fresh, Decided

\* The requests of the clients stay in the store's queue, in their order, and
\* their answers stay out.
LEMMA ExecutorCalls ==
  ASSUME BInv, Inv', Executor
  PROVE  /\ \A m \in Message : (Sending(m)' <=> Sending(m)) /\ reply'[m] = reply[m]
         /\ \A m, n \in Message : Precedes(m, n)' => Precedes(m, n)
         /\ reply'[Loop] \in {"none", reply[Loop]}
<1>0. Shapes
  BY InvShapes DEF BInv, IInv
<1>1. reply' = reply \/ Consumed(Loop)
  BY DEF Executor, RoundStarts, Enqueued, Claimed, AppendTranscript, Completed,
         RoundGoesOn, ToolCalls, ToolsDone, ResultResolved, RoundFails,
         LoopThrows, BufferCloses, SettleTerminal, SettleFailure, Settled, callVars
<1>2. reply'[Loop] \in {"none", reply[Loop]} /\ \A m \in Message : reply'[m] = reply[m]
  BY <1>0, <1>1, LoopConsumes
<1>3. asked' = asked \/ \E kind \in Kinds, item \in Item \cup {NoItem} : Ask(Loop, kind, item)
  <2>1. CASE RoundStarts
    <3>1. items # <<>> => Head(items) \in Item
      BY <1>0, ToSetHeadTail DEF Shapes
    <3> QED BY <2>1, <3>1 DEF RoundStarts, callVars, Kinds
  <2>2. CASE Enqueued
    BY <1>0, <2>2 DEF Enqueued, Shapes, InHand, Kinds
  <2>3. CASE AppendTranscript
    BY <1>0, <2>3 DEF AppendTranscript, Shapes, InHand, Kinds
  <2>4. CASE SettleTerminal \/ SettleFailure
    BY <2>4 DEF SettleTerminal, SettleFailure, AskToSettle, Kinds
  <2>5. CASE \/ Claimed \/ Completed \/ RoundGoesOn \/ ToolCalls \/ ToolsDone
             \/ ResultResolved \/ RoundFails \/ LoopThrows \/ BufferCloses \/ Settled
    BY <2>5 DEF Claimed, Completed, RoundGoesOn, ToolCalls, ToolsDone, ResultResolved,
                RoundFails, LoopThrows, BufferCloses, Settled, callVars
  <2> QED BY <2>1, <2>2, <2>3, <2>4, <2>5 DEF Executor
<1>4. told' = told
  BY ExecutorFrame DEF clientVars
<1>5. CASE asked' = asked
  <2>1. (\A c : Waits(c)' = Waits(c)) /\ (\A c, d : Precedes(c, d)' = Precedes(c, d))
    BY <1>5 DEF Waits, Precedes
  <2> QED BY <1>2, <1>4, <2>1 DEF Sending
<1>6. ASSUME NEW kind \in Kinds, NEW item \in Item \cup {NoItem}, Ask(Loop, kind, item)
      PROVE  /\ \A m \in Message : (Sending(m)' <=> Sending(m))
             /\ \A m, n \in Message : Precedes(m, n)' => Precedes(m, n)
  <2>1. [by |-> Loop, kind |-> kind, item |-> item] \in Calls
    BY ItemFields DEF Calls
  <2>2. /\ \A d : Waits(d)' <=> Waits(d) \/ d = Loop
        /\ \A d, e : Precedes(d, e)' <=> Precedes(d, e) \/ (Waits(d) /\ e = Loop)
    BY <1>0, <1>6, <2>1, AskWaits DEF Shapes
  <2> QED BY <1>4, <2>2, RunInterjectAssumption DEF Sending
<1> QED BY <1>2, <1>3, <1>5, <1>6

\* A stage that leaves the buffer alone, or takes a message out that the
\* checkpoint has no more.
LEMMA LosesOne ==
  ASSUME BInv, Inv', Executor, Current, received' = received, NEW n \in Nat,
         \/ items' = items
         \/ /\ items' = Without(items, n)
            /\ n <= interjectSeq /\ \A x \in Held : x.seq # n
  PROVE  Buffered' /\ Requested' /\ ToSet(items)' \subseteq ToSet(items)
<1>0. Shapes /\ Buffered /\ Requested
  BY InvShapes DEF BInv, IInv, BParts, Coverage
<1>1. /\ UNCHANGED <<told, mine, interjectSeq, entered, applying, pending>>
      /\ Held' = Held /\ \A m : Own(m)' = Own(m)
  BY ExecutorFrame DEF clientVars, Held, Own
<1>2. /\ \A m \in Message : (Sending(m)' <=> Sending(m)) /\ reply'[m] = reply[m]
      /\ \A m, k \in Message : Precedes(m, k)' => Precedes(m, k)
  BY ExecutorCalls
<1>3. /\ Rising(items') /\ ToSet(items)' \subseteq ToSet(items)
      /\ \A x \in ToSet(items) : x \in ToSet(items)' \/ (x.seq = n /\ n <= interjectSeq)
      /\ Held \subseteq ToSet(items)'
  <2>1. CASE items' = items
    BY <1>0, <2>1 DEF Buffered
  <2>2. CASE /\ items' = Without(items, n)
             /\ n <= interjectSeq /\ \A x \in Held : x.seq # n
    <3>1. Rising(Without(items, n))
      BY <1>0, WithoutRises DEF Shapes, Buffered
    <3>2. /\ ToSet(Without(items, n)) \subseteq ToSet(items)
          /\ \A x \in ToSet(items) : x.seq # n => x \in ToSet(Without(items, n))
      BY <1>0, WithoutSet DEF Shapes
    <3> QED BY <1>0, <2>2, <3>1, <3>2 DEF Buffered
  <2> QED BY <2>1, <2>2
<1>4. Buffered'
  BY <1>0, <1>1, <1>2, <1>3 DEF Buffered
<1>5. \A m \in Message : Sending(m) => Own(m) \in ToSet(items)'
  <2> SUFFICES ASSUME NEW m \in Message, Sending(m) PROVE Own(m) \in ToSet(items)'
    OBVIOUS
  <2>1. Own(m) \in ToSet(items) /\ Own(m).seq = mine[m] /\ mine[m] > interjectSeq
        /\ mine[m] \in Nat /\ interjectSeq \in Nat
    BY <1>0 DEF Requested, Shapes, Owns
  <2> QED BY <1>3, <2>1
<1>6. Requested'
  BY <1>0, <1>1, <1>2, <1>5 DEF Requested
<1> QED BY <1>3, <1>4, <1>6

\* A stage at which no message is in hand to be asked for.
LEMMA OutOfHand ==
  ASSUME BInv, Inv', Executor, Current, ToSet(items)' \subseteq ToSet(items),
         pc' \notin {"enqueue", "claim", "complete"},
         outcome' = "done" => items' = <<>> /\ ~accepting'
  PROVE  InStep'
<1>1. applying' = applying /\ reply'[Loop] \in {"none", reply[Loop]}
  BY ExecutorFrame, ExecutorCalls
<1>2. InStep
  BY DEF BInv, BParts, Coverage
<1> QED BY <1>1, <1>2 DEF InStep

LEMMA FreeCovers ==
  ASSUME BInv, Inv', Executor, Current, UNCHANGED <<items, received>>,
         pc' \notin {"enqueue", "claim", "complete"},
         outcome' = "done" => items' = <<>> /\ ~accepting'
  PROVE  Coverage'
<1>1. Buffered' /\ Requested' /\ ToSet(items)' \subseteq ToSet(items)
  BY LosesOne
<1>2. InStep'
  BY <1>1, OutOfHand
<1> QED BY <1>1, <1>2 DEF Coverage

LEMMA FreeStagesCover ==
  ASSUME BInv, Inv', Current,
         \/ RoundGoesOn \/ ToolCalls \/ ToolsDone \/ ResultResolved
         \/ RoundFails \/ LoopThrows \/ BufferCloses
  PROVE  Coverage'
<1>1. Executor
  BY DEF Executor
<1> USE DEF RoundGoesOn, ToolCalls, ToolsDone, ResultResolved, RoundFails,
            LoopThrows, BufferCloses, ModelListens, Goes, Ends, Throws
<1>2. UNCHANGED <<items, received>> /\ pc' \notin {"enqueue", "claim", "complete"}
  BY DEF bufferVars
<1>3. outcome' = "done" => items' = <<>> /\ ~accepting'
  BY DEF MayFinish, BInv, BParts, Coverage, InStep, Decided
<1> QED BY <1>1, <1>2, <1>3, FreeCovers

LEMMA SettlingCovers ==
  ASSUME BInv, Inv', Current, SettleTerminal \/ SettleFailure \/ Settled
  PROVE  Coverage'
<1>1. Executor
  BY DEF Executor
<1> USE DEF SettleTerminal, SettleFailure, Settled, Goes, Throws, AskToSettle
<1>2. CASE ~Leaves
  <2>1. UNCHANGED bufferVars /\ pc' \notin {"enqueue", "claim", "complete"}
    BY <1>2
  <2>2. outcome' \in {outcome, "error"}
    BY <1>2
  <2>3. outcome' = "done" => items' = <<>> /\ ~accepting'
    BY <2>1, <2>2 DEF bufferVars, BInv, BParts, Coverage, InStep
  <2> QED BY <1>1, <2>1, <2>3, FreeCovers DEF bufferVars
<1>3. CASE Leaves
  BY <1>3 DEF Leaves, Coverage, Current
<1> QED BY <1>2, <1>3

LEMMA RoundStartsCovers ==
  ASSUME BInv, Inv', Current, RoundStarts
  PROVE  Coverage'
<1>0. Shapes /\ Shapes' /\ Buffered /\ Requested /\ InStep /\ Executor
  BY BothShapes DEF BInv, IInv, BParts, Coverage, Executor
<1>1. UNCHANGED <<items, received>> /\ pc = "top"
  BY DEF RoundStarts, bufferVars, ModelListens
<1>2. CASE pc' # "enqueue"
  <2>1. pc' \notin {"enqueue", "claim", "complete"} /\ outcome' # "done"
    BY <1>1, <1>2 DEF RoundStarts, ModelListens, Goes, Ends, BInv, BParts, Decided
  <2> QED BY <1>0, <1>1, <2>1, FreeCovers
<1>3. CASE pc' = "enqueue"
  <2>1. items # <<>> /\ cur' = Head(items) /\ outcome' = outcome /\ reply' = reply
    BY <1>3 DEF RoundStarts, ModelListens, Goes, Ends
  <2>2. Head(items) \in ToSet(items) /\ \A x \in ToSet(items) : Head(items).seq <= x.seq
    BY <1>0, <2>1, RisingHead DEF Shapes, Buffered
  <2>3. applying # NoItem => applying.seq = Head(items).seq
    <3> SUFFICES ASSUME applying # NoItem PROVE applying.seq = Head(items).seq
      OBVIOUS
    <3>1. applying \in ToSet(items)
      BY <1>0 DEF Buffered, Held
    <3>2. applying.seq <= Head(items).seq /\ Head(items).seq <= applying.seq
      BY <1>0, <2>2, <3>1 DEF InStep
    <3>3. applying.seq \in Nat /\ Head(items).seq \in Nat
      BY <1>0, <2>2, <3>1, ItemFields DEF Shapes
    <3> QED BY <3>2, <3>3
  <2>4. Buffered' /\ Requested'
    BY <1>0, <1>1, LosesOne
  <2>5. InStep'
    <3>1. applying' = applying /\ outcome' # "done" /\ pc' = "enqueue"
      BY <1>0, <1>1, <1>3, <2>1, ExecutorFrame DEF BInv, BParts, Decided
    <3> QED BY <1>0, <1>1, <2>1, <2>2, <2>3, <3>1 DEF InStep
  <2> QED BY <2>4, <2>5 DEF Coverage
<1> QED BY <1>2, <1>3

LEMMA EnqueuedCovers ==
  ASSUME BInv, Inv', Current, Enqueued \/ Claimed
  PROVE  Coverage'
<1>0. Shapes /\ Executor /\ InStep
  BY InvShapes DEF BInv, IInv, BParts, Coverage, Executor
<1>1. /\ pc \in {"enqueue", "claim"} /\ reply[Loop] # "none" /\ cur' = cur
      /\ cur.seq \in Nat /\ outcome # "done"
  <2>1. pc \in {"enqueue", "claim"} /\ reply[Loop] # "none" /\ cur' = cur
    BY DEF Enqueued, Claimed, Goes, Throws
  <2> QED BY <1>0, <2>1, ItemFields DEF Shapes, InHand, BInv, BParts, Decided
<1>2. outcome' # "done" /\ pc' \in {"claim", "append", "applied", "failed"}
  BY <1>1 DEF Enqueued, Claimed, Goes, Throws
<1>3. \/ UNCHANGED bufferVars
      \/ Withdrawn(cur.seq) /\ reply[Loop] = "not_pending"
  BY DEF Enqueued, Claimed
<1>4. reply[Loop] = "not_pending" =>
        cur.seq <= interjectSeq /\ \A x \in Held : x.seq # cur.seq
  BY <1>1 DEF BInv, IInv, Parts, Stages
<1>5. Buffered' /\ Requested' /\ ToSet(items)' \subseteq ToSet(items)
  BY <1>0, <1>1, <1>3, <1>4, LosesOne DEF Withdrawn, bufferVars
<1>6. CASE pc' # "claim"
  BY <1>0, <1>2, <1>5, <1>6, OutOfHand DEF Coverage
<1>7. CASE pc' = "claim"
  <2>1. UNCHANGED <<items, cur>> /\ pc = "enqueue"
    BY <1>7 DEF Enqueued, Claimed, Goes, Throws, bufferVars
  <2>2. applying' = applying /\ entered' = entered /\ reply'[Loop] \in {"none", reply[Loop]}
    BY <1>0, ExecutorFrame, ExecutorCalls
  <2>3. InStep'
    BY <1>0, <1>2, <1>7, <2>1, <2>2 DEF InStep
  <2> QED BY <1>5, <2>3 DEF Coverage
<1> QED BY <1>6, <1>7

LEMMA AppendCovers ==
  ASSUME BInv, Inv', Current, AppendTranscript
  PROVE  Coverage'
<1>0. Shapes /\ Executor /\ InStep /\ Buffered
  BY InvShapes DEF BInv, IInv, BParts, Coverage, Executor
<1>1. /\ pc = "append" /\ pc' = "complete" /\ outcome # "done"
      /\ UNCHANGED <<items, received, cur, outcome, applying, reply>>
  BY DEF AppendTranscript, Goes, bufferVars, BInv, BParts, Decided
<1>2. cur \in ToSet(items)
  BY <1>0, <1>1, ItemFields DEF BInv, IInv, Parts, Stages, Shapes, InHand, Held, Buffered
<1>3. Buffered' /\ Requested'
  BY <1>0, <1>1, LosesOne
<1>4. InStep'
  BY <1>0, <1>1, <1>2 DEF InStep
<1> QED BY <1>3, <1>4 DEF Coverage

LEMMA CompletedCovers ==
  ASSUME BInv, Inv', Current, Completed
  PROVE  Coverage'
<1>0. Shapes /\ Executor
  BY InvShapes DEF BInv, IInv, Executor
<1>1. pc = "complete" /\ cur \in ToSet(transcript) /\ cur.seq \in Nat /\ outcome # "done"
      /\ (reply[Loop] = "ok" => applying = NoItem)
  <2>1. pc = "complete"
    BY DEF Completed
  <2> QED BY <1>0, <2>1, ItemFields DEF Shapes, InHand, BInv, IInv, Parts, Stages,
                                        BParts, Decided
<1>2. /\ pc' \in {"applied", "failed"} /\ outcome' # "done" /\ received' = received
      /\ \/ items' = items
         \/ reply[Loop] = "ok" /\ items' = Without(items, cur.seq)
  BY <1>1 DEF Completed, Goes, Throws, bufferVars
<1>3. cur.seq <= interjectSeq
  BY <1>0, <1>1, Numbers DEF BInv, IInv, Parts
<1>4. ASSUME applying = NoItem, NEW x \in Held PROVE x.seq # cur.seq
  <2>1. x \in ToSet(pending) /\ x.seq \in Nat
    BY <1>0, <1>4, ItemFields DEF Held, Shapes
  <2>2. cur.seq < x.seq
    BY <1>1, <2>1 DEF BInv, IInv, Parts, InTurn
  <2> QED BY <1>1, <2>1, <2>2
<1>5. Buffered' /\ Requested' /\ ToSet(items)' \subseteq ToSet(items)
  BY <1>0, <1>1, <1>2, <1>3, <1>4, LosesOne
<1>6. InStep'
  BY <1>0, <1>2, <1>5, OutOfHand
<1> QED BY <1>5, <1>6 DEF Coverage

LEMMA ExecutorCovers == BInv /\ Inv' /\ Executor => BParts'
<1> SUFFICES ASSUME BInv, Inv', Executor PROVE BParts'
  OBVIOUS
<1>1. Current => Coverage'
  BY FreeStagesCover, SettlingCovers, RoundStartsCovers, EnqueuedCovers, AppendCovers,
     CompletedCovers DEF Executor
<1>2. Current' => Current
  <2>1. pc \notin {"off", "recovering", "restoring"}
    BY DEF Executor, RoundStarts, Enqueued, Claimed, AppendTranscript, Completed,
           RoundGoesOn, ToolCalls, ToolsDone, ResultResolved, RoundFails,
           LoopThrows, BufferCloses, SettleTerminal, SettleFailure, Settled
  <2> QED BY <2>1, ExecutorFrame DEF Current
<1> QED BY <1>1, <1>2, ExecutorDecides DEF BParts, Coverage

-----------------------------------------------------------------------------
\* Recovery.
LEMMA LeavingParts == Leaves => BParts'
BY DEF Leaves, BParts, Coverage, Current, Fresh, Decided

LEMMA StartBuffer ==
  ASSUME BInv, Inv', RecoveryStarts
  PROVE  BParts'
<1>0. Shapes
  BY InvShapes DEF BInv, IInv
<1>1. /\ pc = "off" /\ pc' = "recovering" /\ Ask(Loop, "round", NoItem)
      /\ UNCHANGED <<told, reply, outcome>>
  BY DEF RecoveryStarts, Executing, clientVars
<1>2. reply[Loop] = "none"
  BY <1>1, LoopAwaits DEF BInv, IInv, Parts
<1>3. [by |-> Loop, kind |-> "round", item |-> NoItem] \in Calls
  BY ItemFields DEF Calls, Kinds
<1>4. /\ \A d : Waits(d)' <=> Waits(d) \/ d = Loop
      /\ \A d, e : Precedes(d, e)' <=> Precedes(d, e) \/ (Waits(d) /\ e = Loop)
  BY <1>0, <1>1, <1>3, AskWaits DEF Shapes
<1>5. \A m \in Message : Sending(m)' => Precedes(m, Loop)'
  BY <1>1, <1>4, RunInterjectAssumption DEF Sending
<1>6. Fresh'
  BY <1>1, <1>2, <1>4, <1>5 DEF Fresh
<1> QED BY <1>1, <1>6 DEF BParts, Coverage, Current, Decided, BInv

LEMMA RoundClaimedBuffer ==
  ASSUME BInv, Inv', RoundClaimed
  PROVE  BParts'
<1>0. Shapes
  BY InvShapes DEF BInv, IInv
<1>1. /\ pc = "recovering" /\ pc' = "restoring" /\ Consumed(Loop)
      /\ UNCHANGED <<told, outcome, asked, received>>
  BY DEF RoundClaimed, Goes, Elsewhere, clientVars, bufferVars
<1>2. \A m \in Message : reply'[m] = reply[m]
  BY <1>0, <1>1, LoopConsumes
<1>3. (\A c : Waits(c)' = Waits(c)) /\ (\A c, d : Precedes(c, d)' = Precedes(c, d))
  BY <1>1 DEF Waits, Precedes
<1>4. \A m \in Message : Sending(m)' <=> Sending(m)
  BY <1>1, <1>3 DEF Sending
<1>5. Fresh'
  BY <1>1, <1>2, <1>3, <1>4 DEF Fresh, BInv, BParts
<1> QED BY <1>1, <1>5 DEF BParts, Coverage, Current, Decided, BInv

\* A recovery that finds its buffer untouched and its listing up to date starts
\* with the very queue of the checkpoint, and nobody waits for the store.
LEMMA RestoreBuffer ==
  ASSUME BInv, Inv', RecoveryRestores
  PROVE  BParts'
<1>0. Shapes /\ CheckpointTypeOK /\ CheckpointParses
  BY InvShapes, OrderedParses DEF BInv, IInv, Inv, Types
<1>1. /\ pc = "restoring" /\ pc' = "top"
      /\ UNCHANGED <<interjectSeq, applying, pending, entered, asked, reply, told, mine,
                     outcome>>
      /\ items' = listed.queue \o items
      /\ received' = IF listed.seq > received THEN listed.seq ELSE received
      /\ drifted' = (drifted \/ items # <<>> \/ received # 0
                     \/ listed # [seq |-> interjectSeq, queue |-> Queue])
  BY DEF RecoveryRestores, Restored, Goes, durableVars, callVars, clientVars
<1>2. ~Waits(Loop) /\ reply[Loop] = "none"
  BY <1>1, LoopAwaits DEF BInv, IInv, Parts
<1>3. Fresh' /\ Decided' /\ outcome # "done"
  BY <1>1 DEF Fresh, Decided, BInv, BParts
<1> SUFFICES ASSUME ~drifted' PROVE Buffered' /\ Requested' /\ InStep'
  BY <1>3 DEF BParts, Coverage, Current
<1>4. items = <<>> /\ received = 0 /\ listed.seq = interjectSeq /\ listed.queue = Queue
  <2> DEFINE l == [seq |-> interjectSeq, queue |-> Queue]
  <2>1. l.seq = interjectSeq /\ l.queue = Queue
    OBVIOUS
  <2> HIDE DEF l
  <2>2. drifted' = (drifted \/ items # <<>> \/ received # 0 \/ listed # l)
    BY <1>1 DEF l
  <2>3. items = <<>> /\ received = 0 /\ listed = l
    BY <2>2, Zenon
  <2> QED BY <2>1, <2>3
<1>5. Queue \in Seq(Item) /\ interjectSeq \in Nat
  BY <1>0, QueueTyped DEF Shapes
<1>6. items' = Queue /\ received' = interjectSeq
  <2>1. Queue \o <<>> = Queue
    BY <1>5, ConcatEmptySeq
  <2> QED BY <1>1, <1>4, <1>5, <2>1
<1>7. \A m \in Message : ~Sending(m) /\ (told[m] = "sending" => reply[m] = "none")
  BY <1>1, <1>2, <1>4, PrecedesOne DEF BInv, BParts, Fresh
<1>8. (\A c : Waits(c)' = Waits(c)) /\ Held' = Held /\ ToSet(Queue) = Held
  BY <1>0, <1>1, QueueHeld DEF Waits, Held
<1>9. \A m \in Message : ~Sending(m)'
  BY <1>1, <1>7, <1>8 DEF Sending
<1>10. Buffered'
  <2>1. Rising(Queue)
    BY <1>0 DEF CheckpointParses, Rising
  <2>2. \A x \in Held : x.msg \in entered
    BY DEF BInv, IInv, Parts, Entries
  <2>3. \A n \in Int : ~(interjectSeq < n /\ n <= interjectSeq)
    BY <1>5
  <2> QED BY <1>1, <1>5, <1>6, <1>8, <2>1, <2>2, <2>3 DEF Buffered
<1>11. Requested'
  BY <1>1, <1>7, <1>9 DEF Requested
<1>12. InStep'
  <2>1. ASSUME applying # NoItem, NEW x \in Held PROVE applying.seq <= x.seq
    <3>1. CASE x = applying
      <4>1. applying \in Item /\ applying.seq \in Nat
        BY <1>0, <2>1, ItemFields DEF Shapes
      <4> QED BY <3>1, <4>1
    <3>2. CASE x \in ToSet(pending)
      <4>1. PICK i \in DOMAIN pending : x = pending[i]
        BY <3>2 DEF ToSet
      <4>2. applying.seq < x.seq
        BY <2>1, <4>1 DEF BInv, IInv, Inv, Ordered
      <4>3. applying.seq \in Nat /\ x.seq \in Nat
        BY <1>0, <2>1, ItemFields DEF Shapes
      <4> QED BY <4>2, <4>3
    <3> QED BY <2>1, <3>1, <3>2 DEF Held
  <2> QED BY <1>1, <1>2, <1>3, <1>6, <1>8, <2>1 DEF InStep
<1> QED BY <1>10, <1>11, <1>12

LEMMA BufferStays ==
  ListCheckpoint \/ UNCHANGED vars =>
    UNCHANGED <<items, received, accepting, pc, cur, outcome, interjectSeq, applying,
                pending, entered, asked, reply, told, mine, drifted>>
BY DEF ListCheckpoint, vars, bufferVars, loopVars, durableVars, callVars, clientVars

LEMMA BPartsStep == BInv /\ Inv' /\ [Next]_vars => BParts'
<1>1. RecoveryFails \/ Crash => Leaves
  BY DEF RecoveryFails, Crash
<1>2. BInv /\ Inv' /\ (Recovery \/ Crash \/ UNCHANGED vars) => BParts'
  BY <1>1, BufferStays, SameParts, LeavingParts, StartBuffer, RoundClaimedBuffer,
     RestoreBuffer DEF Recovery
<1> QED BY <1>2, StoreBuffer, ClientBufferKeeps, ExecutorCovers DEF Next

\* The inductive invariant of the buffer holds in every run.
THEOREM BufferPartsHold == Spec => []BInv
<1>1. Init => BInv
  BY InitInv, InitParts, InitBParts DEF BInv, IInv
<1>2. BInv /\ [Next]_vars => BInv'
  <2>1. BInv /\ [Next]_vars => Inv'
    BY NextInv, StutterInv DEF BInv, IInv
  <2>2. BInv /\ [Next]_vars => Parts'
    BY <2>1, PartsStep DEF BInv
  <2> QED BY <2>1, <2>2, BPartsStep DEF BInv, IInv
<1> QED BY <1>1, <1>2, PTL DEF Spec

-----------------------------------------------------------------------------
\* What a run executes with: as long as no write failed and no recovery started
\* from something outdated, the loop finds in its buffer whatever the checkpoint
\* has to give, for any number of messages and recoveries.
THEOREM BufferAlwaysCovers == Spec => []BufferCoversCheckpoint
<1>1. BInv => BufferCoversCheckpoint
  <2> SUFFICES ASSUME BInv, Current, NEW x \in ToSet(Queue) PROVE Contains(items, x)
    BY DEF BufferCoversCheckpoint, Executing, Current
  <2>1. Shapes /\ CheckpointTypeOK
    BY InvShapes DEF BInv, IInv, Inv, Types
  <2>2. x \in ToSet(items)
    BY <2>1, QueueHeld DEF BInv, BParts, Coverage, Buffered
  <2> QED BY <2>1, <2>2, ContainsMember DEF Shapes
<1> QED BY <1>1, BufferPartsHold, PTL

\* The loop is never refused as out of step with the checkpoint, and never
\* appends a message under a number the transcript has for another.
THEOREM LoopAlwaysInStep == Spec => []LoopKeepsStep
<1>1. BInv => LoopKeepsStep
  <2> SUFFICES ASSUME BInv PROVE LoopKeepsStep
    OBVIOUS
  <2>1. Shapes
    BY InvShapes DEF BInv, IInv
  <2>2. pc = "append" => \A i \in DOMAIN transcript :
          transcript[i].seq = cur.seq => transcript[i].msg = cur.msg
    BY AppendedOnce DEF BInv
  <2>3. ASSUME ~drifted PROVE reply[Loop] \notin {"conflict", "busy"}
    <3>1. CASE Current
      BY <3>1 DEF BInv, BParts, Coverage, InStep
    <3>2. CASE pc = "recovering"
      BY <3>2 DEF BInv, BParts, Fresh
    <3>3. CASE pc \in {"off", "restoring"}
      BY <3>3 DEF BInv, IInv, Parts, Asks
    <3> QED BY <2>3, <3>1, <3>2, <3>3 DEF Current
  <2>4. ASSUME ~drifted, pc = "complete" PROVE Contains(items, cur)
    <3>1. cur \in ToSet(items)
      BY <2>4 DEF BInv, BParts, Coverage, InStep, Current
    <3> QED BY <2>1, <3>1, ContainsMember DEF Shapes
  <2> QED BY <2>2, <2>3, <2>4 DEF LoopKeepsStep
<1> QED BY <1>1, BufferPartsHold, PTL

\* A run that is heading for its normal end has applied everything it accepted.
THEOREM DoneHasAppliedAll == Spec => []DoneMeansApplied
<1>1. BInv => DoneMeansApplied
  <2> SUFFICES ASSUME BInv, ~drifted, outcome = "done" PROVE Queue = <<>>
    BY DEF DoneMeansApplied
  <2>1. CheckpointTypeOK
    BY DEF BInv, IInv, Inv, Types
  <2>2. items = <<>> /\ Held \subseteq ToSet(items)
    BY DEF BInv, BParts, Decided, Coverage, Current, InStep, Buffered
  <2>3. ToSet(Queue) = {} /\ Queue \in Seq(Item)
    BY <2>1, <2>2, QueueHeld, QueueTyped, ToSetEmpty
  <2> QED BY <2>3, NoElements
<1> QED BY <1>1, BufferPartsHold, PTL

-----------------------------------------------------------------------------
\* The ledger of the messages.  Names commutes with what the store does to its
\* queue.
LEMMA NamesElements ==
  ASSUME NEW q \in Seq(Item)
  PROVE  /\ Names(q) \in Seq(Message) /\ Len(Names(q)) = Len(q)
         /\ \A i \in 1..Len(q) : Names(q)[i] = q[i].msg
<1>1. Len(q) \in Nat /\ DOMAIN q = 1..Len(q) /\ \A i \in 1..Len(q) : q[i].msg \in Message
  BY LenProperties, ElementOfSeq, ItemFields
<1>2. Names(q) \in [1..Len(q) -> Message] /\ \A i \in 1..Len(q) : Names(q)[i] = q[i].msg
  BY <1>1 DEF Names
<1>3. Names(q) \in Seq(Message)
  BY <1>1, <1>2, SeqDef
<1>4. Len(Names(q)) = Len(q)
  BY <1>1, <1>2, <1>3, LenProperties
<1> QED BY <1>2, <1>3, <1>4

LEMMA NamesEmpty == Names(<<>>) = <<>>
<1>1. <<>> \in Seq(Item) /\ Len(<<>>) = 0
  BY EmptySeq
<1>2. Names(<<>>) \in Seq(Message) /\ Len(Names(<<>>)) = 0
  BY <1>1, NamesElements
<1> QED BY <1>2, EmptySeq

LEMMA NamesAppend ==
  ASSUME NEW q \in Seq(Item), NEW x \in Item
  PROVE  Names(Append(q, x)) = Append(Names(q), x.msg)
<1> DEFINE r == Append(q, x)
           s == Append(Names(q), x.msg)
<1>1. /\ r \in Seq(Item) /\ Len(r) = Len(q) + 1 /\ r[Len(q) + 1] = x
      /\ \A i \in 1..Len(q) : r[i] = q[i]
  BY AppendProperties
<1>2. /\ Names(q) \in Seq(Message) /\ Len(Names(q)) = Len(q) /\ x.msg \in Message
      /\ \A i \in 1..Len(q) : Names(q)[i] = q[i].msg
  BY NamesElements, ItemFields
<1>3. /\ s \in Seq(Message) /\ Len(s) = Len(q) + 1 /\ s[Len(q) + 1] = x.msg
      /\ \A i \in 1..Len(q) : s[i] = q[i].msg
  BY <1>2, AppendProperties
<1> HIDE DEF r, s
<1>4. /\ Names(r) \in Seq(Message) /\ Len(Names(r)) = Len(q) + 1
      /\ \A i \in 1..Len(q) + 1 : Names(r)[i] = r[i].msg
  BY <1>1, NamesElements
<1>5. Len(q) \in Nat
  BY LenProperties
<1>6. \A i \in 1..Len(q) + 1 : Names(r)[i] = s[i]
  BY <1>1, <1>3, <1>4, <1>5
<1>7. Names(r) = s
  BY <1>3, <1>4, <1>6, SeqEqual
<1> QED BY <1>7 DEF r, s

LEMMA NamesHeadTail ==
  ASSUME NEW q \in Seq(Item), q # <<>>
  PROVE  /\ Names(q) # <<>> /\ Head(Names(q)) = Head(q).msg
         /\ Names(Tail(q)) = Tail(Names(q))
<1>1. /\ Len(q) \in Nat \ {0} /\ Head(q) = q[1] /\ Tail(q) \in Seq(Item)
      /\ Len(Tail(q)) = Len(q) - 1
      /\ \A i \in 1..Len(q) - 1 : Tail(q)[i] = q[i + 1]
  BY EmptySeq, HeadTailProperties
<1>2. /\ Names(q) \in Seq(Message) /\ Len(Names(q)) = Len(q)
      /\ \A i \in 1..Len(q) : Names(q)[i] = q[i].msg
  BY NamesElements
<1>3. Names(q) # <<>>
  BY <1>1, <1>2, EmptySeq
<1>4. /\ Head(Names(q)) = Names(q)[1] /\ Tail(Names(q)) \in Seq(Message)
      /\ Len(Tail(Names(q))) = Len(q) - 1
      /\ \A i \in 1..Len(q) - 1 : Tail(Names(q))[i] = Names(q)[i + 1]
  BY <1>2, <1>3, HeadTailProperties
<1>5. /\ Names(Tail(q)) \in Seq(Message) /\ Len(Names(Tail(q))) = Len(q) - 1
      /\ \A i \in 1..Len(q) - 1 : Names(Tail(q))[i] = Tail(q)[i].msg
  BY <1>1, NamesElements
<1>6. \A i \in 1..Len(q) - 1 : i + 1 \in 1..Len(q)
  BY <1>1
<1>7. \A i \in 1..Len(q) - 1 : Names(Tail(q))[i] = Tail(Names(q))[i]
  BY <1>1, <1>2, <1>4, <1>5, <1>6
<1>8. Names(Tail(q)) = Tail(Names(q))
  BY <1>4, <1>5, <1>7, SeqEqual
<1> QED BY <1>1, <1>2, <1>3, <1>4, <1>8

\* Taking out the one element with a number takes out its message.
LEMMA NamesWithout ==
  ASSUME NEW q \in Seq(Item), NEW x \in ToSet(q),
         \A y \in ToSet(q) : y.seq = x.seq <=> y.msg = x.msg,
         \A i, j \in DOMAIN q : q[i] = q[j] => i = j
  PROVE  /\ Contains(Names(q), x.msg)
         /\ Names(Without(q, x.seq)) = RemoveFirst(Names(q), x.msg)
<1> DEFINE r == Names(q)
<1>1. Len(q) \in Nat /\ DOMAIN q = 1..Len(q) /\ \A i \in 1..Len(q) : q[i] \in ToSet(q)
  BY LenProperties DEF ToSet
<1>2. r \in Seq(Message) /\ Len(r) = Len(q) /\ \A i \in 1..Len(q) : r[i] = q[i].msg
  BY NamesElements
<1>3. PICK k \in 1..Len(q) : q[k].seq = x.seq /\ Without(q, x.seq) = RemoveAt(q, k)
  <2>1. PICK i \in DOMAIN q : q[i] = x
    BY DEF ToSet
  <2> QED BY <1>1, <2>1, WithoutRemoves
<1>4. \A i \in 1..Len(q) : r[i] = x.msg <=> i = k
  <2>1. \A y, z \in ToSet(q) : y.seq = x.seq /\ z.seq = x.seq => y = z
    <3>1. ToSet(q) \subseteq Item
      BY ToSetTyped
    <3> QED BY <3>1, ItemFields
  <2>2. \A i \in 1..Len(q) : q[i].seq = x.seq => q[i] = q[k]
    BY <1>1, <1>3, <2>1
  <2> QED BY <1>1, <1>2, <1>3, <2>2
<1> HIDE DEF r
<1>5. RemoveFirst(r, x.msg) = RemoveAt(r, k)
  <2> DEFINE I == {i \in 1..Len(r) : r[i] = x.msg}
  <2>1. I = {k}
    BY <1>2, <1>3, <1>4
  <2>2. Min(I) \in I
    <3>1. I \subseteq Nat /\ I # {}
      BY <1>1, <2>1
    <3> HIDE DEF I
    <3> QED BY <3>1, LeastPosition
  <2>3. RemoveFirst(r, x.msg) = RemoveAt(r, Min(I))
    BY <2>1 DEF RemoveFirst, SelectInSeq
  <2> QED BY <2>1, <2>2, <2>3
<1>6. Contains(r, x.msg)
  <2>1. k \in DOMAIN r /\ r[k] = x.msg
    BY <1>2, <1>4, LenProperties
  <2> QED BY <1>2, <2>1, ContainsMember DEF ToSet
<1>7. Names(RemoveAt(q, k)) = RemoveAt(r, k)
  <2> DEFINE a == RemoveAt(q, k)
             b == RemoveAt(r, k)
  <2>1. /\ a \in Seq(Item) /\ Len(a) = Len(q) - 1
        /\ \A i \in 1..Len(q) - 1 : a[i] = IF i < k THEN q[i] ELSE q[i + 1]
    BY RemoveAtElements
  <2>2. /\ b \in Seq(Message) /\ Len(b) = Len(q) - 1
        /\ \A i \in 1..Len(q) - 1 : b[i] = IF i < k THEN r[i] ELSE r[i + 1]
    <3>1. r \in Seq(Message) /\ Len(r) = Len(q) /\ k \in 1..Len(r)
      BY <1>2
    <3>2. /\ RemoveAt(r, k) \in Seq(Message) /\ Len(RemoveAt(r, k)) = Len(r) - 1
          /\ \A i \in 1..Len(r) - 1 :
               RemoveAt(r, k)[i] = IF i < k THEN r[i] ELSE r[i + 1]
      BY <3>1, RemoveAtElements
    <3> QED BY <3>1, <3>2
  <2> HIDE DEF a, b
  <2>3. /\ Names(a) \in Seq(Message) /\ Len(Names(a)) = Len(q) - 1
        /\ \A i \in 1..Len(q) - 1 : Names(a)[i] = a[i].msg
    BY <2>1, NamesElements
  <2>4. \A i \in 1..Len(q) - 1 : i \in 1..Len(q) /\ i + 1 \in 1..Len(q)
    BY <1>1
  <2>5. ASSUME NEW i \in 1..Len(q) - 1 PROVE Names(a)[i] = b[i]
    <3>1. /\ Names(a)[i] = a[i].msg
          /\ a[i] = IF i < k THEN q[i] ELSE q[i + 1]
          /\ b[i] = IF i < k THEN r[i] ELSE r[i + 1]
      BY <2>1, <2>2, <2>3
    <3>2. r[i] = q[i].msg /\ r[i + 1] = q[i + 1].msg
      BY <1>2, <2>4
    <3> QED BY <3>1, <3>2
  <2>6. Names(a) = b
    <3>1. Len(Names(a)) = Len(b) /\ \A i \in 1..Len(Names(a)) : Names(a)[i] = b[i]
      BY <2>2, <2>3, <2>5
    <3> QED BY <2>2, <2>3, <3>1, SeqEqual
  <2> QED BY <2>6 DEF a, b
<1> QED BY <1>3, <1>5, <1>6, <1>7 DEF r

\* The queue with the message being applied in front.
First(x, q) == <<x>> \o q

LEMMA FirstElements ==
  ASSUME NEW q \in Seq(Item), NEW x \in Item
  PROVE  /\ First(x, q) \in Seq(Item) /\ Len(First(x, q)) = Len(q) + 1
         /\ First(x, q)[1] = x /\ \A i \in 1..Len(q) : First(x, q)[i + 1] = q[i]
         /\ First(x, q) # <<>> /\ Head(First(x, q)) = x /\ Tail(First(x, q)) = q
<1> DEFINE o == <<x>>
           f == First(x, q)
<1>1. o \in Seq(Item) /\ Len(o) = 1 /\ o[1] = x /\ Len(q) \in Nat
  BY LenProperties
<1>2. f = o \o q
  BY DEF First
<1> HIDE DEF o, f
<1>3. /\ f \in Seq(Item) /\ Len(f) = Len(q) + 1
      /\ \A i \in 1..Len(q) + 1 : f[i] = IF i <= 1 THEN o[i] ELSE q[i - 1]
  <2>1. /\ o \o q \in Seq(Item) /\ Len(o \o q) = Len(o) + Len(q)
        /\ \A i \in 1..Len(o) + Len(q) :
             (o \o q)[i] = IF i <= Len(o) THEN o[i] ELSE q[i - Len(o)]
    BY <1>1, ConcatProperties
  <2> QED BY <1>1, <1>2, <2>1
<1>4. f[1] = x /\ \A i \in 1..Len(q) : f[i + 1] = q[i]
  <2>1. ASSUME NEW i \in 1..Len(q) PROVE f[i + 1] = q[i]
    <3>1. i + 1 \in 1..Len(q) + 1 /\ ~(i + 1 <= 1) /\ (i + 1) - 1 = i
      BY <1>1
    <3>2. f[i + 1] = q[(i + 1) - 1]
      BY <1>3, <3>1
    <3> QED BY <3>1, <3>2
  <2>2. 1 \in 1..Len(q) + 1 /\ 1 <= 1
    BY <1>1
  <2>3. f[1] = o[1]
    BY <1>3, <2>2
  <2> QED BY <1>1, <2>1, <2>3
<1>5. f # <<>>
  BY <1>1, <1>3, EmptySeq
<1>6. /\ Head(f) = f[1] /\ Tail(f) \in Seq(Item) /\ Len(Tail(f)) = Len(q)
      /\ \A i \in 1..Len(q) : Tail(f)[i] = f[i + 1]
  BY <1>1, <1>3, <1>5, HeadTailProperties
<1>7. Tail(f) = q
  BY <1>4, <1>6, SeqEqual
<1> QED BY <1>3, <1>4, <1>5, <1>6, <1>7 DEF f

LEMMA FirstAppend ==
  ASSUME NEW q \in Seq(Item), NEW x \in Item, NEW y \in Item
  PROVE  First(x, Append(q, y)) = Append(First(x, q), y)
<1> DEFINE a == Append(q, y)
           f == First(x, q)
<1>1. /\ a \in Seq(Item) /\ Len(a) = Len(q) + 1 /\ a[Len(q) + 1] = y
      /\ \A i \in 1..Len(q) : a[i] = q[i]
  BY AppendProperties
<1>2. /\ f \in Seq(Item) /\ Len(f) = Len(q) + 1 /\ f[1] = x /\ Len(q) \in Nat
      /\ \A i \in 1..Len(q) : f[i + 1] = q[i]
  BY FirstElements, LenProperties
<1> HIDE DEF a, f
<1> DEFINE g == First(x, a)
           h == Append(f, y)
<1>3. /\ g \in Seq(Item) /\ Len(g) = Len(q) + 2 /\ g[1] = x
      /\ \A i \in 1..Len(q) + 1 : g[i + 1] = a[i]
  <2>1. /\ g \in Seq(Item) /\ Len(g) = Len(a) + 1 /\ g[1] = x
        /\ \A i \in 1..Len(a) : g[i + 1] = a[i]
    BY <1>1, FirstElements
  <2>2. Len(a) + 1 = Len(q) + 2
    BY <1>1, <1>2
  <2> QED BY <1>1, <2>1, <2>2
<1>4. /\ h \in Seq(Item) /\ Len(h) = Len(q) + 2 /\ h[Len(q) + 2] = y
      /\ \A i \in 1..Len(q) + 1 : h[i] = f[i]
  BY <1>2, AppendProperties
<1> HIDE DEF g, h
<1>5. ASSUME NEW i \in 1..Len(q) + 2 PROVE g[i] = h[i]
  <2>1. CASE i = 1
    BY <1>2, <1>3, <1>4, <2>1
  <2>2. CASE i # 1
    <3>1. i - 1 \in 1..Len(q) + 1 /\ g[i] = a[i - 1]
      BY <1>2, <1>3, <2>2
    <3>2. CASE i = Len(q) + 2
      BY <1>1, <1>2, <1>4, <3>1, <3>2
    <3>3. CASE i # Len(q) + 2
      <4>1. i - 1 \in 1..Len(q) /\ i \in 1..Len(q) + 1 /\ f[i] = q[i - 1]
        BY <1>2, <2>2, <3>3
      <4> QED BY <1>1, <1>4, <3>1, <4>1
    <3> QED BY <3>2, <3>3
  <2> QED BY <2>1, <2>2
<1>6. g = h
  BY <1>3, <1>4, <1>5, SeqEqual
<1> QED BY <1>6 DEF a, f, g, h

LEMMA FirstWithout ==
  ASSUME NEW q \in Seq(Item), NEW x \in Item, NEW n, x.seq # n,
         \A i, j \in DOMAIN q : q[i].seq = q[j].seq => i = j
  PROVE  First(x, Without(q, n)) = Without(First(x, q), n)
<1> DEFINE f == First(x, q)
<1>1. /\ f \in Seq(Item) /\ Len(f) = Len(q) + 1 /\ f[1] = x
      /\ \A i \in 1..Len(q) : f[i + 1] = q[i]
  BY FirstElements
<1>2. Len(q) \in Nat /\ DOMAIN q = 1..Len(q)
  BY LenProperties
<1> HIDE DEF f
<1>3. \A j \in 1..Len(f) : f[j].seq = n => j - 1 \in 1..Len(q) /\ q[j - 1].seq = n
  <2> SUFFICES ASSUME NEW j \in 1..Len(f), f[j].seq = n
               PROVE  j - 1 \in 1..Len(q) /\ q[j - 1].seq = n
    OBVIOUS
  <2>1. j # 1
    BY <1>1
  <2>2. j - 1 \in 1..Len(q) /\ (j - 1) + 1 = j
    BY <1>1, <1>2, <2>1
  <2> QED BY <1>1, <2>2
<1>4. CASE Without(q, n) = q /\ \A i \in 1..Len(q) : q[i].seq # n
  <2>1. Without(f, n) = f
    BY <1>1, <1>3, <1>4, WithoutRemoves
  <2> QED BY <1>4, <2>1 DEF f
<1>5. ASSUME NEW k \in 1..Len(q), q[k].seq = n, Without(q, n) = RemoveAt(q, k)
      PROVE  First(x, RemoveAt(q, k)) = Without(f, n)
  <2>1. k + 1 \in 1..Len(f) /\ f[k + 1].seq = n
    BY <1>1, <1>2, <1>5
  <2>2. PICK j \in 1..Len(f) : f[j].seq = n /\ Without(f, n) = RemoveAt(f, j)
    BY <1>1, <2>1, WithoutRemoves
  <2>3. j - 1 = k
    BY <1>2, <1>3, <1>5, <2>2
  <2>4. j = k + 1
    BY <1>1, <1>2, <2>3
  <2> DEFINE a == RemoveAt(q, k)
             b == RemoveAt(f, k + 1)
             g == First(x, a)
  <2>5. /\ a \in Seq(Item) /\ Len(a) = Len(q) - 1
        /\ \A i \in 1..Len(q) - 1 : a[i] = IF i < k THEN q[i] ELSE q[i + 1]
    BY RemoveAtElements
  <2>6. /\ b \in Seq(Item) /\ Len(b) = Len(q)
        /\ \A i \in 1..Len(q) : b[i] = IF i < k + 1 THEN f[i] ELSE f[i + 1]
    <3>1. /\ b \in Seq(Item) /\ Len(b) = Len(f) - 1
          /\ \A i \in 1..Len(f) - 1 : b[i] = IF i < k + 1 THEN f[i] ELSE f[i + 1]
      BY <1>1, <2>1, RemoveAtElements
    <3> HIDE DEF b
    <3>2. Len(f) - 1 = Len(q)
      BY <1>1, <1>2
    <3> QED BY <3>1, <3>2
  <2> HIDE DEF a, b
  <2>7. /\ g \in Seq(Item) /\ Len(g) = Len(q) /\ g[1] = x
        /\ \A i \in 1..Len(q) - 1 : g[i + 1] = a[i]
    <3>1. /\ g \in Seq(Item) /\ Len(g) = Len(a) + 1 /\ g[1] = x
          /\ \A i \in 1..Len(a) : g[i + 1] = a[i]
      BY <2>5, FirstElements
    <3> HIDE DEF g
    <3>2. Len(a) + 1 = Len(q)
      BY <1>2, <2>5
    <3> QED BY <2>5, <3>1, <3>2
  <2> HIDE DEF g
  <2>8. ASSUME NEW i \in 1..Len(q) PROVE g[i] = b[i]
    <3>1. CASE i = 1
      <4>1. 1 < k + 1
        BY <1>2
      <4> QED BY <1>1, <2>6, <2>7, <3>1, <4>1
    <3>2. CASE i # 1
      <4>1. i - 1 \in 1..Len(q) - 1 /\ (i - 1) + 1 = i
        BY <1>2, <3>2
      <4>2. g[i] = IF i - 1 < k THEN q[i - 1] ELSE q[i]
        <5>1. g[(i - 1) + 1] = a[i - 1]
          BY <2>7, <4>1
        <5>2. a[i - 1] = IF i - 1 < k THEN q[i - 1] ELSE q[(i - 1) + 1]
          BY <2>5, <4>1
        <5> QED BY <4>1, <5>1, <5>2
      <4>3. b[i] = IF i < k + 1 THEN f[i] ELSE f[i + 1]
        BY <2>6
      <4>4. f[i + 1] = q[i]
        BY <1>1
      <4>5. f[i] = q[i - 1]
        <5>1. i - 1 \in 1..Len(q)
          BY <1>2, <4>1
        <5> QED BY <1>1, <4>1, <5>1
      <4>6. i - 1 < k <=> i < k + 1
        BY <1>2
      <4> QED BY <4>2, <4>3, <4>4, <4>5, <4>6
    <3> QED BY <3>1, <3>2
  <2>9. g = b
    BY <2>6, <2>7, <2>8, SeqEqual
  <2> QED BY <2>2, <2>4, <2>9 DEF a, b, g
<1> QED BY <1>4, <1>5, WithoutRemoves DEF f

-----------------------------------------------------------------------------
\* The line of the ledger: what waits, without the message being applied once
\* the transcript has it.
Line == IF applying # NoItem /\ Contains(transcript, applying) THEN pending ELSE Queue
Leads == applying # NoItem /\ applying \notin ToSet(transcript)

LEMMA LineIs ==
  ASSUME CheckpointTypeOK
  PROVE  /\ Line = IF Leads THEN First(applying, pending) ELSE pending
         /\ Line \in Seq(Item) /\ pending \in Seq(Item)
         /\ Leads => applying \in Item
<1>1. pending \in Seq(Item) /\ transcript \in Seq(Item) /\ applying \in Item \cup {NoItem}
  BY DEF CheckpointTypeOK
<1>2. Contains(transcript, applying) <=> applying \in ToSet(transcript)
  BY <1>1, ContainsMember
<1>3. applying = NoItem => Queue = pending
  BY <1>1, ConcatEmptySeq DEF Queue
<1>4. applying # NoItem => Queue = First(applying, pending)
  BY DEF Queue, First
<1>5. Line = IF Leads THEN First(applying, pending) ELSE pending
  BY <1>2, <1>3, <1>4 DEF Line, Leads
<1>6. Leads => applying \in Item /\ First(applying, pending) \in Seq(Item)
  BY <1>1, FirstElements DEF Leads
<1> QED BY <1>1, <1>5, <1>6

LineShape == Line = IF Leads THEN First(applying, pending) ELSE pending

LEMMA LineShaped == CheckpointTypeOK => LineShape
BY LineIs DEF LineShape

LEMMA LineShapedNext == CheckpointTypeOK' => LineShape'
BY LineShaped, PTL

LEMMA LineNext ==
  ASSUME CheckpointTypeOK'
  PROVE  Line' = IF Leads' THEN First(applying', pending') ELSE pending'
<1>1. LineShape'
  BY LineShapedNext
<1>2. Line' = IF Leads' THEN First(applying, pending)' ELSE pending'
  BY <1>1 DEF LineShape
<1> QED BY <1>2 DEF First

LEMMA LedgerVars ==
  Ledger!ledger = <<entered, Names(Line), Names(transcript), status>>
BY DEF Ledger!ledger, Line

LEMMA LedgerStays ==
  ASSUME UNCHANGED <<entered, status>>, Names(Line)' = Names(Line),
         Names(transcript)' = Names(transcript)
  PROVE  UNCHANGED Ledger!ledger
<1>1. Ledger!ledger' = <<entered', Names(Line)', Names(transcript)', status'>>
  BY DEF Ledger!ledger, Line
<1> QED BY <1>1, LedgerVars

LEMMA LedgerFrame ==
  ASSUME UNCHANGED durableVars
  PROVE  UNCHANGED Ledger!ledger
<1>1. UNCHANGED <<entered, status, applying, pending, transcript>>
  BY DEF durableVars
<1>2. Line' = Line
  BY <1>1 DEF Line, Queue
<1>3. Names(Line)' = Names(Line) /\ Names(transcript)' = Names(transcript)
  BY <1>1, <1>2 DEF Names
<1> QED BY <1>1, <1>3, LedgerStays

LEMMA LedgerEnters ==
  ASSUME NEW m \in Message, status = "running", m \notin entered,
         entered' = entered \cup {m}, status' = status,
         Names(Line)' = Append(Names(Line), m), Names(transcript)' = Names(transcript)
  PROVE  Ledger!LedgerNext
BY DEF Ledger!LedgerNext, Ledger!Enter, Line

LEMMA LedgerApplies ==
  ASSUME status = "running", Names(Line) # <<>>, UNCHANGED <<entered, status>>,
         Names(transcript)' = Append(Names(transcript), Head(Names(Line))),
         Names(Line)' = Tail(Names(Line))
  PROVE  Ledger!LedgerNext
BY DEF Ledger!LedgerNext, Ledger!Apply, Line

LEMMA LedgerWithdraws ==
  ASSUME NEW m \in Message, status = "running", Contains(Names(Line), m),
         Names(Line)' = RemoveFirst(Names(Line), m), UNCHANGED <<entered, status>>,
         Names(transcript)' = Names(transcript)
  PROVE  Ledger!LedgerNext
<1>1. Ledger!Contains(Names(Line), m)
  BY DEF Contains, Ledger!Contains
<1>2. Ledger!RemoveFirst(Names(Line), m) = RemoveFirst(Names(Line), m)
  BY DEF RemoveFirst, Ledger!RemoveFirst, RemoveAt, Ledger!RemoveAt,
         SelectInSeq, Ledger!SelectInSeq, Min, Ledger!Min
<1>3. Ledger!Withdraw(m)
  BY <1>1, <1>2 DEF Ledger!Withdraw, Line
<1> QED BY <1>3 DEF Ledger!LedgerNext

LEMMA LedgerEnds ==
  ASSUME status = "running", entered' = entered,
         Names(transcript)' = Names(transcript),
         \/ status' = "settled" /\ Names(Line) = <<>> /\ Names(Line)' = Names(Line)
         \/ status' = "aborted" /\ Names(Line)' = <<>>
  PROVE  Ledger!LedgerNext
BY DEF Ledger!LedgerNext, Ledger!Settle, Ledger!Drop, Line

\* What is taken in never entered before, and goes to the end of the line.
LEMMA EnqueueLedger ==
  ASSUME IInv, Inv', EnqueueInterject, ~UNCHANGED durableVars
  PROVE  Ledger!LedgerNext
<1>0. Shapes /\ CheckpointTypeOK /\ CheckpointTypeOK'
  BY InvShapes DEF IInv, Inv, Types
<1>1. PICK x : x = Head(asked).item
  OBVIOUS
<1>2. /\ Turn("enqueue") /\ Answer("ok") /\ UNCHANGED OutsideStore
      /\ status = "running" /\ TakesNext(x.seq) /\ Taken(x)
      /\ entered' = entered \cup {x.msg} /\ UNCHANGED <<status, applying, transcript>>
  BY <1>1 DEF EnqueueInterject, Only, WriteFails
<1>3. Sensible(Head(asked)) /\ Head(asked).kind = "enqueue" /\ Serves(Head(asked).by, "ok")
  BY <1>2, ServesHead
<1>4. x \in Item /\ x.msg \in Message /\ x.seq = mine[x.msg]
  <2>1. CASE Head(asked).by \in Message
    BY <1>0, <1>1, <1>3, <2>1, RunInterjectAssumption DEF Sensible, Shapes, Owns
  <2>2. CASE Head(asked).by = Loop
    BY <1>0, <1>1, <1>3, <2>2, RunInterjectAssumption, ItemFields
       DEF Sensible, Shapes, InHand, IInv, Parts, Owned
  <2> QED BY <1>3, <2>1, <2>2 DEF Sensible
<1>5. x.msg \notin entered
  <2>1. x.seq = interjectSeq + 1 /\ interjectSeq \in Nat
    BY <1>0, <1>2 DEF TakesNext, Shapes
  <2>2. \A m \in entered : mine[m] <= interjectSeq
    BY DEF IInv, Parts, Entries
  <2>3. mine[x.msg] \in Nat /\ mine[x.msg] = interjectSeq + 1
    BY <1>0, <1>4, <2>1 DEF Shapes
  <2> QED BY <2>1, <2>2, <2>3
<1>6. Leads' = Leads /\ pending' = Append(pending, x)
  BY <1>2 DEF Leads, Taken
<1>7. Line' = Append(Line, x)
  <2>1. Line' = IF Leads THEN First(applying, Append(pending, x)) ELSE Append(pending, x)
    <3>1. Line' = IF Leads' THEN First(applying', pending') ELSE pending'
      BY <1>0, LineNext
    <3> QED BY <1>2, <1>6, <3>1
  <2>2. pending \in Seq(Item) /\ (Leads => applying \in Item)
    BY <1>0, LineIs
  <2>3. CASE Leads
    <3>1. Line = First(applying, pending)
      BY <1>0, <2>3, LineIs
    <3>2. First(applying, Append(pending, x)) = Append(First(applying, pending), x)
      BY <1>4, <2>2, <2>3, FirstAppend
    <3> QED BY <2>1, <2>3, <3>1, <3>2
  <2>4. CASE ~Leads
    <3>1. Line = pending
      BY <1>0, <2>4, LineIs
    <3> QED BY <2>1, <2>4, <3>1
  <2> QED BY <2>3, <2>4
<1>8. Names(Line)' = Append(Names(Line), x.msg)
  <2>1. Names(Append(Line, x)) = Append(Names(Line), x.msg)
    BY <1>0, <1>4, LineIs, NamesAppend
  <2> QED BY <1>7, <2>1 DEF Names
<1>9. Names(transcript)' = Names(transcript)
  BY <1>2 DEF Names
<1> QED BY <1>2, <1>4, <1>5, <1>8, <1>9, LedgerEnters

\* What is claimed is not in the transcript yet: it stays first in the line.
LEMMA ClaimLedger ==
  ASSUME IInv, Inv', ClaimInterject, ~UNCHANGED durableVars
  PROVE  UNCHANGED Ledger!ledger
<1>0. Shapes /\ CheckpointTypeOK /\ CheckpointTypeOK'
  BY InvShapes DEF IInv, Inv, Types
<1>1. /\ applying = NoItem /\ pending # <<>>
      /\ applying' = Head(pending) /\ pending' = Tail(pending)
      /\ UNCHANGED <<status, transcript, entered>>
  BY DEF ClaimInterject, Only, WriteFails
<1>2. Head(pending) \in ToSet(pending) /\ Head(pending) \in Item
  BY <1>0, <1>1, ToSetHeadTail DEF Shapes
<1>3. Head(pending) \notin ToSet(transcript)
  <2>1. \A y \in ToSet(transcript) : y.seq < Head(pending).seq /\ y.seq \in Nat
    BY <1>0, <1>2, ItemFields DEF IInv, Parts, InTurn, Shapes
  <2> QED BY <2>1
<1>4. Leads' /\ ~Leads
  BY <1>1, <1>2, <1>3, ItemFields DEF Leads
<1>5. Line' = Line
  <2>1. Line' = IF Leads' THEN First(applying', pending') ELSE pending'
    BY <1>0, LineNext
  <2>2. Line' = First(Head(pending), Tail(pending)) /\ Line = pending
    BY <1>0, <1>1, <1>4, <2>1, LineIs
  <2> DEFINE h == Head(pending)
             t == Tail(pending)
             f == First(h, t)
  <2>3. /\ h = pending[1] /\ t \in Seq(Item) /\ Len(t) = Len(pending) - 1
        /\ \A i \in 1..Len(pending) - 1 : t[i] = pending[i + 1]
        /\ Len(pending) \in Nat \ {0}
    BY <1>0, <1>1, HeadTailProperties, EmptySeq DEF Shapes
  <2>4. /\ f \in Seq(Item) /\ Len(f) = Len(t) + 1 /\ f[1] = h
        /\ \A i \in 1..Len(t) : f[i + 1] = t[i]
    BY <1>2, <2>3, FirstElements
  <2> HIDE DEF h, t, f
  <2>5. ASSUME NEW i \in 1..Len(f) PROVE f[i] = pending[i]
    <3>1. CASE i = 1
      BY <2>3, <2>4, <3>1
    <3>2. CASE i # 1
      <4>1. i - 1 \in 1..Len(t) /\ i - 1 \in 1..Len(pending) - 1 /\ (i - 1) + 1 = i
        BY <2>3, <2>4, <3>2
      <4> QED BY <2>3, <2>4, <4>1
    <3> QED BY <3>1, <3>2
  <2>6. Len(f) = Len(pending) /\ pending \in Seq(Item)
    BY <1>0, <2>3, <2>4 DEF Shapes
  <2>7. f = pending
    BY <2>4, <2>5, <2>6, SeqEqual
  <2> QED BY <2>2, <2>7 DEF f, h, t
<1>6. Names(Line)' = Names(Line) /\ Names(transcript)' = Names(transcript)
  BY <1>1, <1>5 DEF Names
<1> QED BY <1>1, <1>6, LedgerStays

\* What is completed is in the transcript, and out of the line already.
LEMMA CompleteLedger ==
  ASSUME IInv, Inv', CompleteInterject, ~UNCHANGED durableVars
  PROVE  UNCHANGED Ledger!ledger
<1>0. Shapes /\ CheckpointTypeOK /\ CheckpointTypeOK'
  BY InvShapes DEF IInv, Inv, Types
<1>1. /\ Turn("complete") /\ Answer("ok") /\ UNCHANGED OutsideStore
      /\ applying' = NoItem /\ UNCHANGED <<status, pending, transcript, entered>>
  BY DEF CompleteInterject, Only, WriteFails
<1>2. pc = "complete" /\ reply[Loop] = "none"
  BY <1>1, ServesHead, LoopCall, ItemFields DEF Turn
<1>3. applying \in ToSet(transcript)
  BY <1>2 DEF IInv, Parts, Stages
<1>4. ~Leads /\ ~Leads'
  BY <1>1, <1>3 DEF Leads
<1>5. Line' = Line
  <2>1. Line' = IF Leads' THEN First(applying', pending') ELSE pending'
    BY <1>0, LineNext
  <2> QED BY <1>0, <1>1, <1>4, <2>1, LineIs
<1>6. Names(Line)' = Names(Line) /\ Names(transcript)' = Names(transcript)
  BY <1>1, <1>5 DEF Names
<1> QED BY <1>1, <1>6, LedgerStays

LEMMA CancelLedger ==
  ASSUME IInv, Inv', CancelInterject, ~UNCHANGED durableVars
  PROVE  Ledger!LedgerNext
<1>0. Shapes /\ CheckpointTypeOK /\ CheckpointTypeOK' /\ Ordered
  BY InvShapes DEF IInv, Inv, Types
<1>1. PICK n : n = Head(asked).item.seq
  OBVIOUS
<1>2. /\ status = "running" /\ Cancellable(n)
      /\ pending' = Without(pending, n)
      /\ applying' = IF applying.seq = n THEN NoItem ELSE applying
      /\ UNCHANGED <<status, transcript, entered>>
  BY <1>1 DEF CancelInterject, Only, WriteFails
<1>3. PICK k \in DOMAIN pending : pending[k].seq = n
  BY <1>2 DEF Cancellable
<1>4. PICK x \in ToSet(pending) : x = pending[k] /\ x.seq = n
  BY <1>3 DEF ToSet
<1>5. x \in Item /\ x \in Held /\ \A y \in Held : y.seq \in Nat
  BY <1>0, <1>4, ItemFields DEF Shapes, Held
<1>6. applying # NoItem => applying.seq # n
  <2> SUFFICES ASSUME applying # NoItem PROVE applying.seq # n
    OBVIOUS
  <2>1. applying.seq < n /\ applying.seq \in Nat /\ n \in Nat
    BY <1>0, <1>3, <1>4, <1>5, ItemFields DEF Ordered, Shapes
  <2> QED BY <2>1
<1>7. applying' = applying /\ Leads' = Leads
  BY <1>2, <1>6 DEF Leads
<1>8. \A i, j \in DOMAIN pending : pending[i].seq = pending[j].seq => i = j
  <2>1. \A i \in DOMAIN pending : i \in Nat /\ pending[i].seq \in Nat
    BY <1>0, LenProperties, ElementOfSeq, ItemFields DEF Shapes
  <2> SUFFICES ASSUME NEW i \in DOMAIN pending, NEW j \in DOMAIN pending, i # j
               PROVE  pending[i].seq # pending[j].seq
    OBVIOUS
  <2>2. i < j \/ j < i
    BY <2>1
  <2> QED BY <1>0, <2>1, <2>2 DEF Ordered, Rising
<1>9. Line' = Without(Line, n)
  <2>1. Line' = IF Leads' THEN First(applying', pending') ELSE pending'
    BY <1>0, LineNext
  <2>2. Line' = IF Leads THEN First(applying, Without(pending, n)) ELSE Without(pending, n)
    BY <1>2, <1>7, <2>1
  <2>3. Leads => First(applying, Without(pending, n)) = Without(First(applying, pending), n)
    BY <1>0, <1>6, <1>8, LineIs, FirstWithout DEF Leads
  <2> QED BY <1>0, <2>2, <2>3, LineIs
<1>10. /\ x \in ToSet(Line) /\ ToSet(Line) \subseteq Held
       /\ \A i, j \in DOMAIN Line : Line[i] = Line[j] => i = j
  <2>1. CASE ~Leads
    <3>1. Line = pending
      BY <1>0, <2>1, LineIs
    <3> QED BY <1>4, <1>8, <3>1 DEF Held
  <2>2. CASE Leads
    <3> DEFINE f == First(applying, pending)
    <3>1. Line = f /\ applying \in Item /\ pending \in Seq(Item)
      BY <1>0, <2>2, LineIs
    <3>2. /\ f \in Seq(Item) /\ Len(f) = Len(pending) + 1 /\ f[1] = applying
          /\ \A i \in 1..Len(pending) : f[i + 1] = pending[i]
      BY <3>1, FirstElements
    <3> HIDE DEF f
    <3>3. /\ DOMAIN f = 1..Len(pending) + 1 /\ Len(pending) \in Nat
          /\ DOMAIN pending = 1..Len(pending)
      BY <3>1, <3>2, LenProperties
    <3>4. \A i \in DOMAIN f : i # 1 => i - 1 \in DOMAIN pending /\ f[i] = pending[i - 1]
      <4> SUFFICES ASSUME NEW i \in DOMAIN f, i # 1
                   PROVE  i - 1 \in DOMAIN pending /\ f[i] = pending[i - 1]
        OBVIOUS
      <4>1. i - 1 \in 1..Len(pending) /\ (i - 1) + 1 = i
        BY <3>3
      <4> QED BY <3>2, <3>3, <4>1
    <3>5. x \in ToSet(f)
      <4>1. k + 1 \in DOMAIN f /\ f[k + 1] = x
        BY <1>4, <3>2, <3>3
      <4> QED BY <4>1 DEF ToSet
    <3>6. \A i \in DOMAIN f : f[i] \in Held
      BY <2>2, <3>2, <3>4 DEF Held, ToSet, Leads
    <3>7. \A i \in DOMAIN f : i # 1 => f[i] # applying
      <4>1. \A i \in DOMAIN pending : applying.seq < pending[i].seq
        BY <1>0, <2>2 DEF Ordered, Leads
      <4>2. applying.seq \in Nat
        BY <3>1, ItemFields
      <4>3. \A i \in DOMAIN pending : pending[i] # applying
        BY <4>1, <4>2
      <4> QED BY <3>4, <4>3
    <3>8. ASSUME NEW i \in DOMAIN f, NEW j \in DOMAIN f, f[i] = f[j] PROVE i = j
      <4>1. CASE i = 1 \/ j = 1
        BY <3>2, <3>7, <3>8, <4>1
      <4>2. CASE i # 1 /\ j # 1
        <5>1. i - 1 = j - 1
          BY <1>8, <3>4, <3>8, <4>2
        <5> QED BY <3>3, <5>1
      <4> QED BY <4>1, <4>2
    <3>9. ToSet(f) \subseteq Held
      BY <3>6 DEF ToSet
    <3> QED BY <3>1, <3>5, <3>8, <3>9
  <2> QED BY <2>1, <2>2
<1>11. x.msg \in Message /\ \A y \in ToSet(Line) : y.seq = x.seq <=> y.msg = x.msg
  <2>1. \A y \in Held : y = Own(y.msg) /\ y.seq = mine[y.msg] /\ y.msg \in entered
    BY <1>0, Numbers DEF IInv, Parts
  <2>2. \A y \in Held : y.seq = x.seq => y = x
    BY <1>0, <1>5, <2>1, Numbers DEF IInv, Parts
  <2> QED BY <1>5, <1>10, <2>1, <2>2, ItemFields
<1>12. Contains(Names(Line), x.msg) /\ Names(Line)' = RemoveFirst(Names(Line), x.msg)
  <2>1. Line \in Seq(Item)
    BY <1>0, LineIs
  <2>2. /\ Contains(Names(Line), x.msg)
        /\ Names(Without(Line, x.seq)) = RemoveFirst(Names(Line), x.msg)
    BY <1>10, <1>11, <2>1, NamesWithout
  <2>3. Names(Line)' = Names(Without(Line, x.seq))
    BY <1>4, <1>9 DEF Names
  <2> QED BY <2>2, <2>3
<1>13. Names(transcript)' = Names(transcript)
  BY <1>2 DEF Names
<1> QED BY <1>2, <1>11, <1>12, <1>13, LedgerWithdraws

LEMMA SettleLedger ==
  ASSUME IInv, Inv', SettleRun, ~UNCHANGED durableVars
  PROVE  Ledger!LedgerNext
<1>0. CheckpointTypeOK /\ CheckpointTypeOK'
  BY DEF IInv, Inv, Types
<1>1. /\ status = "running" /\ Settleable(Head(asked).kind)
      /\ status' = IF Head(asked).kind = "discard" THEN "aborted" ELSE "settled"
      /\ applying' = NoItem /\ pending' = <<>> /\ UNCHANGED <<transcript, entered>>
  BY DEF SettleRun, Only
<1>2. Line' = <<>>
  <2>1. Line' = IF Leads' THEN First(applying', pending') ELSE pending'
    BY <1>0, LineNext
  <2> QED BY <1>1, <2>1 DEF Leads
<1>3. Names(Line)' = <<>> /\ Names(transcript)' = Names(transcript)
  <2>1. Names(Line)' = Names(<<>>)
    BY <1>2 DEF Names
  <2>2. Names(transcript)' = Names(transcript)
    BY <1>1 DEF Names
  <2> QED BY <2>1, <2>2, NamesEmpty
<1>4. CASE Head(asked).kind = "discard"
  BY <1>1, <1>3, <1>4, LedgerEnds
<1>5. CASE Head(asked).kind # "discard"
  <2>1. Queue = <<>>
    BY <1>1, <1>5 DEF Settleable
  <2>2. ToSet(Queue) = {} /\ pending \in Seq(Item)
    BY <2>1, ToSetEmpty, <1>0 DEF CheckpointTypeOK
  <2>3. ToSet(pending) = {} /\ applying = NoItem
    BY <1>0, <2>2, QueueHeld DEF Held
  <2>4. Line = <<>>
    BY <1>0, <2>2, <2>3, NoElements, LineIs DEF Leads
  <2>5. Names(Line) = <<>>
    BY <2>4, NamesEmpty
  <2> QED BY <1>1, <1>3, <1>5, <2>5, LedgerEnds
<1> QED BY <1>4, <1>5

\* The message being applied is the first of the line until the transcript has it.
LEMMA AppendLedger ==
  ASSUME IInv, Inv', AppendTranscript
  PROVE  Ledger!LedgerNext \/ UNCHANGED Ledger!ledger
<1>0. Shapes /\ CheckpointTypeOK /\ CheckpointTypeOK'
  BY InvShapes DEF IInv, Inv, Types
<1>1. /\ pc = "append" /\ UNCHANGED <<status, applying, pending, entered>>
      /\ applying = cur /\ cur \in Item /\ status = "running"
  <2>1. pc = "append" /\ UNCHANGED <<status, applying, pending, entered>>
    BY DEF AppendTranscript
  <2>2. applying = cur /\ cur \in Item /\ status = "running"
    BY <1>0, <2>1 DEF IInv, Parts, Stages, Shapes, InHand
  <2> QED BY <2>1, <2>2
<1>2. CASE \E i \in DOMAIN transcript : transcript[i].seq = cur.seq
  <2>1. UNCHANGED durableVars
    <3>1. transcript' = transcript /\ interjectSeq' = interjectSeq
      BY <1>2 DEF AppendTranscript
    <3> QED BY <1>1, <3>1 DEF durableVars
  <2> QED BY <2>1, LedgerFrame
<1>3. CASE ~\E i \in DOMAIN transcript : transcript[i].seq = cur.seq
  <2>1. transcript' = Append(transcript, cur)
    BY <1>3 DEF AppendTranscript
  <2>2. ToSet(transcript)' = ToSet(transcript) \cup {cur}
    BY <1>0, <1>1, <2>1, ToSetAppend DEF Shapes
  <2>3. Leads /\ ~Leads'
    <3>1. cur \notin ToSet(transcript)
      BY <1>3 DEF ToSet
    <3> QED BY <1>1, <2>2, <3>1, ItemFields DEF Leads
  <2>4. Line = First(cur, pending) /\ pending \in Seq(Item) /\ Line' = pending
    <3>1. Line' = IF Leads' THEN First(applying', pending') ELSE pending'
      BY <1>0, LineNext
    <3> QED BY <1>0, <1>1, <2>3, <3>1, LineIs
  <2>5. Line \in Seq(Item) /\ Line # <<>> /\ Head(Line) = cur /\ Tail(Line) = pending
    BY <1>1, <2>4, FirstElements
  <2>6. /\ Names(Line) # <<>> /\ Head(Names(Line)) = cur.msg
        /\ Names(pending) = Tail(Names(Line))
    BY <2>5, NamesHeadTail
  <2>7. Names(Line)' = Names(pending)
    BY <2>4 DEF Names
  <2>8. Names(transcript)' = Append(Names(transcript), cur.msg)
    <3>1. Names(Append(transcript, cur)) = Append(Names(transcript), cur.msg)
      BY <1>0, <1>1, NamesAppend DEF Shapes
    <3> QED BY <2>1, <3>1 DEF Names
  <2> QED BY <1>1, <2>6, <2>7, <2>8, LedgerApplies
<1> QED BY <1>2, <1>3

LEMMA LedgerStep ==
  ASSUME IInv, Inv', [Next]_vars
  PROVE  [Ledger!LedgerNext]_(Ledger!ledger)
<1>1. CASE UNCHANGED durableVars
  BY <1>1, LedgerFrame
<1>2. CASE ~UNCHANGED durableVars
  <2>1. \/ Store \/ AppendTranscript
    <3>1. Executor /\ ~AppendTranscript => UNCHANGED durableVars
      BY DEF Executor, RoundStarts, Enqueued, Claimed, Completed,
             RoundGoesOn, ToolCalls, ToolsDone, ResultResolved, RoundFails,
             LoopThrows, BufferCloses, SettleTerminal, SettleFailure, Settled, Elsewhere
    <3>2. Client \/ Recovery \/ Crash \/ UNCHANGED vars => UNCHANGED durableVars
      BY ClientFrame, RecoveryFrame DEF Crash, vars
    <3> QED BY <1>2, <3>1, <3>2 DEF Next
  <2>2. CASE Store
    <3>1. ~ClaimModelRound
      BY <1>2 DEF ClaimModelRound, Only
    <3> QED BY <1>2, <2>2, <3>1, EnqueueLedger, ClaimLedger, CompleteLedger, CancelLedger,
               SettleLedger DEF Store
  <2>3. CASE AppendTranscript
    BY <2>3, AppendLedger
  <2> QED BY <2>1, <2>2, <2>3
<1> QED BY <1>1, <1>2

\* The checkpoint and the transcript implement the ledger of the messages, for
\* any number of messages and recoveries and whatever writes fail: a message
\* enters once, is applied in its turn or withdrawn while it waits, and only an
\* aborted run drops any.
THEOREM LedgerIsKept == Spec => MessageLedger
<1>1. Init => Ledger!LedgerInit
  <2> SUFFICES ASSUME Init PROVE Ledger!LedgerInit
    OBVIOUS
  <2>1. /\ entered = {} /\ status = "running" /\ transcript = <<>>
        /\ pending = <<>> /\ applying = NoItem
    BY DEF Init
  <2>2. Queue = <<>>
    <3>1. <<>> \in Seq(Item)
      BY EmptySeq
    <3> QED BY <2>1, <3>1, ConcatEmptySeq DEF Queue
  <2>3. Names(Queue) = <<>> /\ Names(transcript) = <<>>
    BY <2>1, <2>2, NamesEmpty
  <2> QED BY <2>1, <2>3 DEF Ledger!LedgerInit
<1>2. IInv /\ IInv' /\ [Next]_vars => [Ledger!LedgerNext]_(Ledger!ledger)
  BY LedgerStep DEF IInv
<1> QED BY <1>1, <1>2, PartsHold, PTL DEF Spec, MessageLedger, Ledger!LedgerSpec
=============================================================================
