-------------------------- MODULE JobEventsProofs --------------------------
(* That the streams of a job tell how it ended, for any clients, any size of the
   worker's queue, any number of progress lines and of streams.               *)
EXTENDS JobEvents, TLAPS

QueueType == [bounded : BOOLEAN, frames : Seq(Frame)]

\* What TypeOK says of the variables the proof is about.
Typed ==
  /\ status \in {"queued", "running"} \cup Terminal
  /\ queues \in Seq(QueueType)
  /\ registered \in QueueIds /\ workerQueue \in QueueIds
  /\ streamQueue \in [Clients -> QueueIds]
  /\ pc \in [Clients -> {"attached", "draining"} \cup Away]
  /\ seen \in [Clients -> {"nothing", "running"} \cup Terminal]

\* A terminal frame is the last of its queue and says what the row says.
Tells(q, st) ==
  /\ \A k \in 1 .. Len(q.frames) : q.frames[k] \in Terminal => k = Len(q.frames) /\ q.frames[k] = st
  /\ st \in Terminal /\ q.bounded /\ q.frames # <<>> => q.frames[Len(q.frames)] = st

\* The only bounded queue is the one the worker made, and it has it while it runs.
OneWorkerQueue ==
  /\ status = "running" => workerQueue # 0
  /\ status = "queued" => \A i \in 1 .. Len(queues) : ~queues[i].bounded
  /\ status = "running" => \A i \in 1 .. Len(queues) : queues[i].bounded => i = workerQueue

EndInv ==
  /\ Typed /\ OneWorkerQueue
  /\ \A i \in 1 .. Len(queues) : Tells(queues[i], status)
  /\ \A c \in Clients : pc[c] = "ended" => status \in Terminal /\ seen[c] = status
  /\ \A c \in Clients : pc[c] \in {"attached", "draining"} => streamQueue[c] # 0

----------------------------------------------------------------------------
\* The queue after a put: the new frame is last, what was before it was there.
LEMMA Enqueued ==
  ASSUME NEW q \in QueueType, NEW frame \in Frame
  PROVE  LET r == Enqueue(q, frame)
         IN  /\ r \in QueueType /\ r.bounded = q.bounded
             /\ Len(r.frames) > 0 /\ r.frames[Len(r.frames)] = frame
             /\ \A k \in 1 .. Len(r.frames) - 1 : \E i \in 1 .. Len(q.frames) : r.frames[k] = q.frames[i]
<1> DEFINE kept == IF q.bounded /\ Len(q.frames) >= QueueSize THEN Tail(q.frames) ELSE q.frames
           r == [q EXCEPT !.frames = Append(kept, frame)]
<1>1. q.frames \in Seq(Frame) /\ q.bounded \in BOOLEAN /\ Len(q.frames) \in Nat
  BY DEF QueueType
<1>2. CASE q.bounded /\ Len(q.frames) >= QueueSize
  <2>1. q.frames # <<>> /\ Len(q.frames) > 0
    BY <1>1, <1>2, QueueSizePositive
  <2>2. /\ kept \in Seq(Frame) /\ Len(kept) = Len(q.frames) - 1
        /\ \A k \in 1 .. Len(kept) : kept[k] = q.frames[k + 1]
    BY <1>1, <1>2, <2>1
  <2> HIDE DEF kept
  <2>3. /\ Append(kept, frame) \in Seq(Frame) /\ Len(Append(kept, frame)) = Len(kept) + 1
        /\ Append(kept, frame)[Len(kept) + 1] = frame
        /\ \A k \in 1 .. Len(kept) : Append(kept, frame)[k] = kept[k]
    BY <2>2
  <2>4. r \in QueueType /\ r.bounded = q.bounded /\ r.frames = Append(kept, frame)
    BY <2>3, <1>1 DEF QueueType
  <2>5. Enqueue(q, frame) = r
    BY DEF Enqueue, kept
  <2>6. ASSUME NEW k \in 1 .. Len(r.frames) - 1
        PROVE  \E i \in 1 .. Len(q.frames) : r.frames[k] = q.frames[i]
    <3>1. k \in 1 .. Len(kept) /\ k + 1 \in 1 .. Len(q.frames)
      BY <2>2, <2>3, <2>4, <1>1
    <3>2. r.frames[k] = q.frames[k + 1]
      BY <3>1, <2>2, <2>3, <2>4
    <3> QED
      BY <3>1, <3>2
  <2> QED
    BY <2>2, <2>3, <2>4, <2>5, <2>6, <1>1
<1>3. CASE ~(q.bounded /\ Len(q.frames) >= QueueSize)
  <2>2. kept = q.frames
    BY <1>3
  <2>3. /\ Append(q.frames, frame) \in Seq(Frame) /\ Len(Append(q.frames, frame)) = Len(q.frames) + 1
        /\ Append(q.frames, frame)[Len(q.frames) + 1] = frame
        /\ \A k \in 1 .. Len(q.frames) : Append(q.frames, frame)[k] = q.frames[k]
    BY <1>1
  <2>5. Enqueue(q, frame) = r
    BY DEF Enqueue
  <2> HIDE DEF kept
  <2>4. r \in QueueType /\ r.bounded = q.bounded /\ r.frames = Append(q.frames, frame)
    BY <2>2, <2>3, <1>1 DEF QueueType
  <2>6. ASSUME NEW k \in 1 .. Len(r.frames) - 1
        PROVE  \E i \in 1 .. Len(q.frames) : r.frames[k] = q.frames[i]
    <3>1. k \in 1 .. Len(q.frames)
      BY <2>3, <2>4, <1>1
    <3> QED
      BY <3>1, <2>3, <2>4
  <2> QED
    BY <2>3, <2>4, <2>5, <2>6, <1>1
<1> QED
  BY <1>2, <1>3

\* Before anybody does anything there is nothing to tell.
LEMMA InitHolds == Init => EndInv
<1> SUFFICES ASSUME Init PROVE EndInv
  OBVIOUS
<1>1. Typed
  BY DEF Init, Typed, QueueIds, Away
<1>2. Len(queues) = 0
  BY DEF Init
<1> QED
  BY <1>1, <1>2 DEF Init, EndInv, OneWorkerQueue

----------------------------------------------------------------------------
\* A put of a frame that is not terminal, while the row is not terminal.
LEMMA PutKeepsTells ==
  ASSUME NEW q \in QueueType, NEW st, NEW st2, Tells(q, st), st \notin Terminal, st2 \notin Terminal,
         NEW frame \in {"log", "running"}
  PROVE  Enqueue(q, frame) \in QueueType /\ Tells(Enqueue(q, frame), st2)
<1> DEFINE r == Enqueue(q, frame)
<1>0. frame \in Frame /\ frame \notin Terminal
  BY DEF Frame, Terminal
<1>1. /\ r \in QueueType
      /\ Len(r.frames) > 0 /\ r.frames[Len(r.frames)] = frame
      /\ \A k \in 1 .. Len(r.frames) - 1 : \E i \in 1 .. Len(q.frames) : r.frames[k] = q.frames[i]
  BY <1>0, Enqueued
<1> HIDE DEF r
<1>2. \A i \in 1 .. Len(q.frames) : q.frames[i] \notin Terminal
  BY DEF Tells
<1>3. Len(r.frames) \in Nat
  BY <1>1 DEF QueueType
<1>4. \A k \in 1 .. Len(r.frames) : r.frames[k] \notin Terminal
  BY <1>0, <1>1, <1>2, <1>3
<1>5. Tells(r, st2)
  BY <1>4 DEF Tells
<1> QED
  BY <1>1, <1>5 DEF r

\* The same of the worker's queue among the others.
LEMMA PutAt ==
  ASSUME EndInv, NEW w \in 1 .. Len(queues), NEW frame \in {"log", "running"},
         status \notin Terminal, status' \notin Terminal,
         queues' = [queues EXCEPT ![w] = Enqueue(queues[w], frame)]
  PROVE  /\ queues' \in Seq(QueueType) /\ Len(queues') = Len(queues)
         /\ \A i \in 1 .. Len(queues') : /\ Tells(queues'[i], status')
                                        /\ queues'[i].bounded = queues[i].bounded
<1>1. /\ queues \in Seq(QueueType) /\ Len(queues) \in Nat /\ queues[w] \in QueueType
      /\ Tells(queues[w], status)
  BY DEF EndInv, Typed
<1>2. frame \in Frame
  BY DEF Frame
<1>3. /\ Enqueue(queues[w], frame) \in QueueType /\ Tells(Enqueue(queues[w], frame), status')
      /\ Enqueue(queues[w], frame).bounded = queues[w].bounded
  BY <1>1, <1>2, PutKeepsTells, Enqueued
<1>4. /\ queues' \in Seq(QueueType) /\ Len(queues') = Len(queues)
      /\ queues'[w] = Enqueue(queues[w], frame)
      /\ \A i \in 1 .. Len(queues) : i # w => queues'[i] = queues[i]
  BY <1>1, <1>3
<1>5. \A i \in 1 .. Len(queues) : Tells(queues[i], status')
  BY DEF EndInv, Tells
<1> QED
  BY <1>3, <1>4, <1>5

\* What a step may do to the streams: leave one as it is, end it without a word,
\* attach it to a queue, or tell it the outcome.
Moves ==
  /\ pc' \in [Clients -> {"attached", "draining"} \cup Away]
  /\ seen' \in [Clients -> {"nothing", "running"} \cup Terminal]
  /\ streamQueue' \in [Clients -> QueueIds']
  /\ \A c \in Clients : \/ pc'[c] = pc[c] /\ seen'[c] = seen[c] /\ streamQueue'[c] = streamQueue[c]
                        \/ pc'[c] = "away"
                        \/ pc'[c] \in {"attached", "draining"} /\ streamQueue'[c] # 0
                        \/ pc'[c] = "ended" /\ status \in Terminal /\ seen'[c] = status

\* A step that moves the streams so, and leaves a terminal row alone.
LEMMA StepKeeps ==
  ASSUME EndInv, Moves, OneWorkerQueue', status' = status \/ status \notin Terminal,
         status' \in {"queued", "running"} \cup Terminal, queues' \in Seq(QueueType),
         registered' \in QueueIds', workerQueue' \in QueueIds',
         \A i \in 1 .. Len(queues') : Tells(queues'[i], status')
  PROVE  EndInv'
<1>1. \A c \in Clients : pc[c] = "ended" => status \in Terminal /\ seen[c] = status
  BY DEF EndInv
<1>n. \A x \in {"away", "attached", "draining"} : x # "ended"
  OBVIOUS
<1>2. \A c \in Clients : pc'[c] = "ended" => status' \in Terminal /\ seen'[c] = status'
  BY <1>1, <1>n DEF Moves
<1>3. \A c \in Clients : pc'[c] \in {"attached", "draining"} => streamQueue'[c] # 0
  BY DEF EndInv, Moves
<1>4. Typed'
  BY DEF Typed, Moves
<1> QED
  BY <1>2, <1>3, <1>4 DEF EndInv

\* The step, action by action.
LEMMA NextKeeps == EndInv /\ [Next]_vars => EndInv'
<1> SUFFICES ASSUME EndInv, [Next]_vars PROVE EndInv'
  OBVIOUS
<1>t. Typed /\ OneWorkerQueue /\ \A i \in 1 .. Len(queues) : Tells(queues[i], status)
  BY DEF EndInv
<1>q. /\ queues \in Seq(QueueType) /\ Len(queues) \in Nat
      /\ \A i \in 1 .. Len(queues) : queues[i] \in QueueType
  BY <1>t DEF Typed
<1>n. {"queued", "running"} \cap Terminal = {}
  BY DEF Terminal
\* Steps that leave queues and row alone.
<1>1. CASE List \/ ClaimLost \/ (\E c \in Clients : Snapshot(c) \/ Disconnect(c)) \/ UNCHANGED vars
  <2>1. UNCHANGED <<status, queues, workerQueue>>
    BY <1>1 DEF List, ClaimLost, Snapshot, Disconnect, vars, rowVars
  <2>2. registered' \in {registered, 0}
    BY <1>1 DEF List, ClaimLost, Snapshot, Disconnect, Leave, vars
  <2>3. Moves
    <3>t. /\ pc \in [Clients -> {"attached", "draining"} \cup Away]
          /\ seen \in [Clients -> {"nothing", "running"} \cup Terminal]
          /\ streamQueue \in [Clients -> QueueIds] /\ 0 \in QueueIds /\ QueueIds' = QueueIds
      BY <1>t, <1>q, <2>1 DEF Typed, QueueIds
    <3>1. CASE List \/ ClaimLost \/ UNCHANGED vars
      BY <3>1, <3>t DEF List, ClaimLost, clientVars, vars, Moves
    <3>2. ASSUME NEW c \in Clients, Disconnect(c) PROVE Moves
      BY <3>2, <3>t DEF Disconnect, Leave, Away, Moves
    <3>3. ASSUME NEW c \in Clients, Snapshot(c), status \in Terminal PROVE Moves
      BY <3>3, <3>t DEF Snapshot, Leave, Away, Moves
    <3>4. ASSUME NEW c \in Clients, Snapshot(c), status \notin Terminal PROVE Moves
      <4>1. /\ pc' = [pc EXCEPT ![c] = "draining"] /\ UNCHANGED <<seen, streamQueue>>
            /\ pc[c] = "attached"
        BY <3>4 DEF Snapshot
      <4>2. streamQueue[c] # 0
        BY <4>1 DEF EndInv
      <4> QED
        BY <4>1, <4>2, <3>t DEF Moves
    <3> QED
      BY <1>1, <3>1, <3>2, <3>3, <3>4
  <2>4. /\ registered' \in QueueIds' /\ workerQueue' \in QueueIds' /\ queues' \in Seq(QueueType)
        /\ status' \in {"queued", "running"} \cup Terminal
    BY <2>1, <2>2, <1>t, <1>q DEF Typed, QueueIds
  <2>5. OneWorkerQueue' /\ \A i \in 1 .. Len(queues') : Tells(queues'[i], status')
    BY <2>1, <1>t DEF OneWorkerQueue, Tells
  <2> QED
    BY <2>1, <2>3, <2>4, <2>5, StepKeeps
\* Puts of the worker.
<1>2. ASSUME Claim PROVE EndInv'
  <2>1. status = "queued" /\ status' = "running" /\ registered' = workerQueue' /\ UNCHANGED clientVars
    BY <1>2 DEF Claim
  <2>2. status \notin Terminal /\ status' \notin Terminal
    BY <2>1, <1>n
  <2>4. Len(queues') \in Nat /\ Len(queues) <= Len(queues') => Moves
    BY <2>1, <1>t, <1>q DEF Moves, Typed, clientVars, QueueIds
  <2>3. CASE registered # 0
    <3>1. /\ queues' = [queues EXCEPT ![registered] = Enqueue(queues[registered], "running")]
          /\ workerQueue' = registered /\ registered \in 1 .. Len(queues)
      <4>1. registered \in 1 .. Len(queues)
        BY <2>3, <1>t, <1>q DEF Typed, QueueIds
      <4> QED
        BY <1>2, <2>3, <4>1 DEF Claim
    <3>2. /\ queues' \in Seq(QueueType) /\ Len(queues') = Len(queues)
          /\ \A i \in 1 .. Len(queues') : /\ Tells(queues'[i], status')
                                         /\ queues'[i].bounded = queues[i].bounded
      BY <2>2, <3>1, PutAt
    <3>3. OneWorkerQueue'
      BY <2>1, <2>3, <3>1, <3>2, <1>t DEF OneWorkerQueue
    <3> QED
      BY <2>1, <2>2, <2>4, <3>1, <3>2, <3>3, <1>q, StepKeeps DEF QueueIds
  <2>5. CASE registered = 0
    <3> DEFINE q == Enqueue(NewQueue(TRUE), "running")
    <3>1. queues' = Append(queues, q) /\ workerQueue' = Len(queues) + 1
      BY <1>2, <2>5 DEF Claim
    <3>2. q \in QueueType /\ Tells(q, status')
      <4>1. NewQueue(TRUE) \in QueueType /\ Tells(NewQueue(TRUE), status)
        BY <2>2 DEF NewQueue, QueueType, Tells
      <4> QED
        BY <4>1, <2>2, PutKeepsTells
    <3> HIDE DEF q
    <3>3. /\ queues' \in Seq(QueueType) /\ Len(queues') = Len(queues) + 1
          /\ queues'[Len(queues) + 1] = q
          /\ \A i \in 1 .. Len(queues) : queues'[i] = queues[i]
      BY <3>1, <3>2, <1>q
    <3>4. \A i \in 1 .. Len(queues') : Tells(queues'[i], status')
      <4>1. \A i \in 1 .. Len(queues) : Tells(queues[i], status')
        BY <1>t, <2>2 DEF Tells
      <4> QED
        BY <3>2, <3>3, <4>1, <1>q
    <3>5. OneWorkerQueue'
      BY <2>1, <3>1, <3>3, <1>t, <1>q DEF OneWorkerQueue
    <3> QED
      BY <2>1, <2>2, <2>4, <3>1, <3>3, <3>4, <3>5, <1>q, StepKeeps DEF QueueIds
  <2> QED
    BY <2>3, <2>5
<1>3. ASSUME Log PROVE EndInv'
  <2>1. /\ status = "running" /\ UNCHANGED <<status, registered, workerQueue, clientVars>>
        /\ queues' = [queues EXCEPT ![workerQueue] = Enqueue(queues[workerQueue], "log")]
    BY <1>3 DEF Log
  <2>2. workerQueue \in 1 .. Len(queues) /\ status \notin Terminal /\ status' \notin Terminal
    BY <2>1, <1>t, <1>q, <1>n DEF OneWorkerQueue, Typed, QueueIds
  <2>3. /\ queues' \in Seq(QueueType) /\ Len(queues') = Len(queues)
        /\ \A i \in 1 .. Len(queues') : /\ Tells(queues'[i], status')
                                       /\ queues'[i].bounded = queues[i].bounded
    BY <2>1, <2>2, PutAt
  <2>4. OneWorkerQueue'
    BY <2>1, <2>3, <1>t DEF OneWorkerQueue
  <2>5. Moves /\ registered' \in QueueIds' /\ workerQueue' \in QueueIds'
    BY <2>1, <2>3, <1>t DEF Moves, Typed, clientVars, QueueIds
  <2> QED
    BY <2>1, <2>3, <2>4, <2>5, StepKeeps
\* The end of the run: the only bounded queue gets the outcome as its last frame.
<1>4. ASSUME NEW out \in Terminal, Finish(out) PROVE EndInv'
  <2> DEFINE q == queues[workerQueue]
             r == Enqueue(q, out)
  <2>1. /\ status = "running" /\ status' = out /\ registered' = 0 /\ workerQueue' = 0
        /\ UNCHANGED clientVars /\ queues' = [queues EXCEPT ![workerQueue] = r]
    BY <1>4 DEF Finish
  <2>2. workerQueue \in 1 .. Len(queues) /\ status \notin Terminal /\ out \in Frame
    BY <2>1, <1>t, <1>q, <1>n DEF OneWorkerQueue, Typed, QueueIds, Frame
  <2>3. q \in QueueType /\ Tells(q, status)
    BY <2>2, <1>q, <1>t
  <2>4. /\ r \in QueueType /\ r.bounded = q.bounded
        /\ Len(r.frames) > 0 /\ r.frames[Len(r.frames)] = out
        /\ \A k \in 1 .. Len(r.frames) - 1 : \E i \in 1 .. Len(q.frames) : r.frames[k] = q.frames[i]
    <3> HIDE DEF q
    <3> QED
      BY <2>2, <2>3, Enqueued
  <2>5. Tells(r, out)
    <3> HIDE DEF q, r
    <3>1. \A i \in 1 .. Len(q.frames) : q.frames[i] \notin Terminal
      BY <2>2, <2>3 DEF Tells
    <3>2. Len(r.frames) \in Nat
      BY <2>4 DEF QueueType
    <3>3. \A k \in 1 .. Len(r.frames) : r.frames[k] \in Terminal => k = Len(r.frames)
      BY <2>4, <3>1, <3>2
    <3> QED
      BY <2>4, <3>3 DEF Tells
  <2> HIDE DEF r
  <2>6. /\ queues' \in Seq(QueueType) /\ Len(queues') = Len(queues) /\ queues'[workerQueue] = r
        /\ \A i \in 1 .. Len(queues) : i # workerQueue => queues'[i] = queues[i]
    BY <2>1, <2>2, <2>4, <1>q
  <2>7. ASSUME NEW i \in 1 .. Len(queues), i # workerQueue PROVE Tells(queues[i], out)
    <3>1. ~queues[i].bounded
      BY <2>1, <2>7, <1>t DEF OneWorkerQueue
    <3>2. Tells(queues[i], status)
      BY <1>t
    <3> QED
      BY <3>1, <3>2, <2>2 DEF Tells
  <2>8. \A i \in 1 .. Len(queues') : Tells(queues'[i], status')
    BY <2>1, <2>5, <2>6, <2>7
  <2>9. OneWorkerQueue'
    BY <2>1, <1>n DEF OneWorkerQueue
  <2>10. Moves /\ registered' \in QueueIds' /\ workerQueue' \in QueueIds'
    BY <2>1, <2>6, <1>t, <1>q DEF Moves, Typed, clientVars, QueueIds
  <2> QED
    BY <2>1, <2>2, <2>6, <2>8, <2>9, <2>10, StepKeeps
\* No queue is bounded yet, so none owes the frame that is not put.
<1>5. ASSUME CancelQueued PROVE EndInv'
  <2>1. /\ status = "queued" /\ status' = "cancelled" /\ status' \in Terminal
        /\ UNCHANGED <<queues, registered, workerQueue, clientVars>>
    BY <1>5 DEF CancelQueued, Terminal
  <2>2. status \notin Terminal
    BY <2>1, <1>n
  <2>3. \A i \in 1 .. Len(queues) : ~queues[i].bounded /\ Tells(queues[i], status)
    BY <2>1, <1>t DEF OneWorkerQueue
  <2>4. \A i \in 1 .. Len(queues') : Tells(queues'[i], status')
    BY <2>1, <2>2, <2>3 DEF Tells
  <2>5. OneWorkerQueue'
    BY <2>1, <1>n DEF OneWorkerQueue
  <2>6. Moves /\ registered' \in QueueIds' /\ workerQueue' \in QueueIds'
    BY <2>1, <1>t, <1>q DEF Moves, Typed, clientVars, QueueIds
  <2> QED
    BY <2>1, <2>2, <2>4, <2>5, <2>6, <1>q, StepKeeps
<1>6. ASSUME NEW c \in Clients, Connect(c) PROVE EndInv'
  <2>1. /\ pc[c] = "away" /\ UNCHANGED <<status, workerQueue>>
        /\ streamQueue' = [streamQueue EXCEPT ![c] = registered']
        /\ pc' = [pc EXCEPT ![c] = "attached"] /\ seen' = [seen EXCEPT ![c] = "running"]
    BY <1>6 DEF Connect, rowVars
  <2>2. /\ queues' \in Seq(QueueType) /\ registered' \in QueueIds' /\ registered' # 0
        /\ QueueIds \subseteq QueueIds' /\ Len(queues') \in Nat
        /\ \A i \in 1 .. Len(queues') :
             \/ i \in 1 .. Len(queues) /\ queues'[i] = queues[i]
             \/ queues'[i] = NewQueue(FALSE)
    <3>1. CASE registered # 0
      BY <3>1, <1>6, <1>t, <1>q DEF Connect, Typed, QueueIds
    <3>2. CASE registered = 0
      <4> DEFINE q == NewQueue(FALSE)
      <4>1. queues' = Append(queues, q) /\ registered' = Len(queues) + 1
        BY <3>2, <1>6 DEF Connect
      <4>2. q \in QueueType
        BY DEF NewQueue, QueueType
      <4> HIDE DEF q
      <4>3. /\ queues' \in Seq(QueueType) /\ Len(queues') = Len(queues) + 1
            /\ queues'[Len(queues) + 1] = q
            /\ \A i \in 1 .. Len(queues) : queues'[i] = queues[i]
        BY <4>1, <4>2, <1>q
      <4>4. \A i \in 1 .. Len(queues') : \/ i \in 1 .. Len(queues) /\ queues'[i] = queues[i]
                                        \/ queues'[i] = q
        BY <4>3, <1>q
      <4>5. registered' \in QueueIds' /\ registered' # 0 /\ QueueIds \subseteq QueueIds'
        BY <4>1, <4>3, <1>q DEF QueueIds
      <4> QED
        <5>1. Len(queues') \in Nat
          BY <4>3, <1>q
        <5>2. q = NewQueue(FALSE)
          BY DEF q
        <5> QED
          BY <4>3, <4>4, <4>5, <5>1, <5>2, Zenon
    <3> QED
      BY <3>1, <3>2
  <2>3. \A i \in 1 .. Len(queues') : Tells(queues'[i], status')
    <3>1. Tells(NewQueue(FALSE), status)
      BY DEF Tells, NewQueue
    <3> QED
      BY <2>1, <2>2, <3>1, <1>t
  <2>4. OneWorkerQueue'
    <3>1. ~NewQueue(FALSE).bounded
      BY DEF NewQueue
    <3> QED
      BY <2>1, <2>2, <3>1, <1>t DEF OneWorkerQueue
  <2>5. Moves /\ workerQueue' \in QueueIds'
    <3>1. /\ pc \in [Clients -> {"attached", "draining"} \cup Away]
          /\ seen \in [Clients -> {"nothing", "running"} \cup Terminal]
          /\ streamQueue \in [Clients -> QueueIds'] /\ workerQueue \in QueueIds'
      BY <1>t, <2>2 DEF Typed
    <3> QED
      BY <2>1, <2>2, <3>1 DEF Moves
  <2> QED
    BY <2>1, <2>2, <2>3, <2>4, <2>5, <1>t, StepKeeps DEF Typed
<1>7. ASSUME NEW c \in Clients, Drain(c) PROVE EndInv'
  <2> DEFINE q == queues[streamQueue[c]]
             frame == Head(q.frames)
             r == [q EXCEPT !.frames = Tail(q.frames)]
  <2>1. /\ pc[c] = "draining" /\ q.frames # <<>> /\ UNCHANGED <<status, workerQueue>>
        /\ queues' = [queues EXCEPT ![streamQueue[c]] = r]
        /\ seen' = IF frame = "log" THEN seen ELSE [seen EXCEPT ![c] = frame]
        /\ \/ frame \in Terminal /\ Leave(c, "ended")
           \/ frame \notin Terminal /\ UNCHANGED <<pc, streamQueue, registered>>
    BY <1>7 DEF Drain, rowVars
  <2>2. streamQueue[c] \in 1 .. Len(queues)
    BY <2>1, <1>t, <1>q DEF EndInv, Typed, QueueIds
  <2>3. q \in QueueType /\ Tells(q, status)
    BY <2>2, <1>t, <1>q
  <2> HIDE DEF q
  <2>4. /\ q.frames \in Seq(Frame) /\ Len(q.frames) \in Nat /\ Len(q.frames) > 0
        /\ frame \in Frame /\ frame = q.frames[1]
        /\ Tail(q.frames) \in Seq(Frame) /\ Len(Tail(q.frames)) = Len(q.frames) - 1
        /\ \A k \in 1 .. Len(q.frames) - 1 : Tail(q.frames)[k] = q.frames[k + 1]
    BY <2>1, <2>3 DEF QueueType
  <2>5. /\ r \in QueueType /\ r.bounded = q.bounded /\ r.frames = Tail(q.frames)
    BY <2>3, <2>4 DEF QueueType
  <2> HIDE DEF r, frame
  <2>6. Tells(r, status)
    <3> DEFINE f == r.frames
    <3>1. \A k \in 1 .. Len(f) : f[k] \in Terminal => k = Len(f) /\ f[k] = status
      <4> SUFFICES ASSUME NEW k \in 1 .. Len(f), f[k] \in Terminal PROVE k = Len(f) /\ f[k] = status
        OBVIOUS
      <4>1. f[k] = q.frames[k + 1] /\ k + 1 \in 1 .. Len(q.frames) /\ Len(f) = Len(q.frames) - 1
        BY <2>4, <2>5
      <4>2. q.frames[k + 1] \in Terminal
        BY <4>1
      <4>3. k + 1 = Len(q.frames) /\ q.frames[k + 1] = status
        BY <4>1, <4>2, <2>3 DEF Tells
      <4>4. f[k] = status
        BY <4>1, <4>3
      <4>5. k = Len(f)
        <5> DEFINE m == Len(q.frames)
        <5>1. m \in Nat /\ Len(f) = m - 1 /\ k + 1 = m
          BY <4>1, <4>3, <2>4
        <5>2. k \in Nat
          OBVIOUS
        <5> HIDE DEF m, f
        <5> QED
          BY <5>1, <5>2
      <4> QED
        BY <4>4, <4>5
    <3>2. ASSUME status \in Terminal, r.bounded, f # <<>> PROVE f[Len(f)] = status
      <4>1. Len(f) = Len(q.frames) - 1 /\ Len(f) > 0
        BY <3>2, <2>4, <2>5
      <4>2. f[Len(f)] = q.frames[Len(q.frames)]
        BY <4>1, <2>4, <2>5
      <4> QED
        BY <4>2, <3>2, <2>1, <2>3, <2>5 DEF Tells
    <3> QED
      BY <3>1, <3>2 DEF Tells
  <2>7. /\ queues' \in Seq(QueueType) /\ Len(queues') = Len(queues) /\ queues'[streamQueue[c]] = r
        /\ \A i \in 1 .. Len(queues) : i # streamQueue[c] => queues'[i] = queues[i]
    BY <2>1, <2>2, <2>5, <1>q
  <2>8. \A i \in 1 .. Len(queues') : /\ Tells(queues'[i], status')
                                   /\ queues'[i].bounded = queues[i].bounded
    BY <2>1, <2>5, <2>6, <2>7, <1>t DEF q
  <2>9. OneWorkerQueue'
    BY <2>1, <2>7, <2>8, <1>t DEF OneWorkerQueue
  <2>10. Moves /\ registered' \in QueueIds'
    <3>1. /\ pc \in [Clients -> {"attached", "draining"} \cup Away]
          /\ seen \in [Clients -> {"nothing", "running"} \cup Terminal]
          /\ streamQueue \in [Clients -> QueueIds] /\ QueueIds' = QueueIds /\ 0 \in QueueIds
          /\ registered \in QueueIds
      BY <1>t, <1>q, <2>7 DEF Typed, QueueIds
    <3>2. CASE frame \in Terminal
      <4>1. frame = status /\ status \in Terminal /\ frame # "log"
        BY <2>3, <2>4, <3>2 DEF Tells, Terminal
      <4>2. /\ seen' = [seen EXCEPT ![c] = status] /\ pc' = [pc EXCEPT ![c] = "ended"]
            /\ streamQueue' = [streamQueue EXCEPT ![c] = 0] /\ registered' = 0
        BY <2>1, <3>2, <4>1 DEF Leave
      <4> QED
        BY <3>1, <4>1, <4>2 DEF Moves, Away
    <3>3. CASE frame \notin Terminal
      <4>1. UNCHANGED <<pc, streamQueue, registered>> /\ seen' \in {seen, [seen EXCEPT ![c] = frame]}
        BY <2>1, <3>3
      <4>2. frame = "log" \/ frame = "running"
        BY <2>4, <3>3 DEF Frame
      <4>3. /\ seen' \in [Clients -> {"nothing", "running"} \cup Terminal]
            /\ \A d \in Clients \ {c} : seen'[d] = seen[d]
        BY <2>1, <3>1, <4>1, <4>2
      <4>4. pc[c] = "draining" /\ streamQueue[c] # 0
        BY <2>1 DEF EndInv
      <4> QED
        BY <3>1, <4>1, <4>3, <4>4 DEF Moves
    <3> QED
      BY <3>2, <3>3
  <2>11. workerQueue' \in QueueIds' /\ status' \in {"queued", "running"} \cup Terminal
    BY <2>1, <2>7, <1>t DEF Typed, QueueIds
  <2> QED
    BY <2>1, <2>7, <2>8, <2>9, <2>10, <2>11, StepKeeps
<1> QED
  BY <1>1, <1>2, <1>3, <1>4, <1>5, <1>6, <1>7 DEF Next

----------------------------------------------------------------------------
\* How a job ended is told truly and told at all (job_events in routes/jobs.py,
\* _enqueue in job_worker.py): for any number of streams that share or lose the
\* queue, any size of it and any number of lines logged into it.
THEOREM EndsAreTold == Spec => []EndIsTold
<1>1. EndInv => EndIsTold
  BY DEF EndInv, EndIsTold, Tells
<1> QED
  BY InitHolds, NextKeeps, <1>1, PTL DEF Spec
=============================================================================
