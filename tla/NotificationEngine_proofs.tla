----------------------- MODULE NotificationEngine_proofs -----------------------
(***************************************************************************)
(* No notification is lost, sent twice, mixed with another kind or given to  *)
(* a channel that was shut down, for any set of events.                     *)
(***************************************************************************)
EXTENDS NotificationEngine, TLAPS

\* The worker's event is gone when it waits again, and a digest about to be replaced is
\* of another kind than the event that replaces it.
WorkerInv ==
  /\ note_worker \in {"wait", "flush", "done"} => event = NoEvent
  /\ note_worker = "replace" => event \in Events

Alike(batch) == \A e, f \in batch : Bucket[e] = Bucket[f]

\* stop() shuts the channels down after the worker has ended.
ShutdownInv ==
  /\ note_stop \in {"shutdown", "done"} => note_worker = "done"
  /\ ~channels_open => note_stop = "done"

\* The inductive invariant.
NoteInv ==
  /\ NoteTypeOK
  /\ WorkerInv
  /\ ShutdownInv
  /\ AccountedOnce
  /\ Alike(digest)
  /\ DigestsAlike

\* What a push does to the queue.
LEMMA QueueAppended ==
  ASSUME NoteTypeOK, NEW x \in Events, event_queue' = Append(event_queue, x)
  PROVE  /\ event_queue' \in Seq(Events)
         /\ \A e \in Events : InQueue(e)' <=> (InQueue(e) \/ e = x)
         /\ (\A i, j \in 1 .. Len(event_queue) : event_queue[i] = event_queue[j] => i = j)
              /\ ~InQueue(x)
            => \A i, j \in 1 .. Len(event_queue') : event_queue'[i] = event_queue'[j] => i = j
<1>1. /\ event_queue \in Seq(Events) /\ Len(event_queue) \in Nat
      /\ Len(event_queue') = Len(event_queue) + 1
      /\ event_queue'[Len(event_queue) + 1] = x
      /\ \A i \in 1 .. Len(event_queue) : event_queue'[i] = event_queue[i]
  BY DEF NoteTypeOK
<1>2. event_queue' \in Seq(Events)
  BY <1>1
<1>3. \A e \in Events : InQueue(e)' <=> (InQueue(e) \/ e = x)
  BY <1>1 DEF InQueue
<1>4. ASSUME \A i, j \in 1 .. Len(event_queue) : event_queue[i] = event_queue[j] => i = j,
             ~InQueue(x)
      PROVE  \A i, j \in 1 .. Len(event_queue') : event_queue'[i] = event_queue'[j] => i = j
  <2>1. \A i \in 1 .. Len(event_queue) : event_queue[i] # x
    BY <1>4 DEF InQueue
  <2> QED BY <1>1, <1>4, <2>1
<1> QED BY <1>2, <1>3, <1>4

\* What the worker's take does to the queue.
LEMMA QueueTaken ==
  ASSUME NoteTypeOK, event_queue # <<>>, event_queue' = Tail(event_queue),
         \A i, j \in 1 .. Len(event_queue) : event_queue[i] = event_queue[j] => i = j
  PROVE  /\ event_queue' \in Seq(Events)
         /\ Head(event_queue) \in Events /\ InQueue(Head(event_queue))
         /\ \A e \in Events : InQueue(e)' <=> (InQueue(e) /\ e # Head(event_queue))
         /\ \A i, j \in 1 .. Len(event_queue') : event_queue'[i] = event_queue'[j] => i = j
<1>1. /\ event_queue \in Seq(Events) /\ Len(event_queue) \in Nat \ {0}
      /\ Len(event_queue') = Len(event_queue) - 1
      /\ Head(event_queue) = event_queue[1]
      /\ \A i \in 1 .. Len(event_queue) - 1 : event_queue'[i] = event_queue[i + 1]
  BY DEF NoteTypeOK
<1>2. event_queue' \in Seq(Events) /\ Head(event_queue) \in Events
  BY <1>1
<1>3. InQueue(Head(event_queue))
  BY <1>1 DEF InQueue
<1>4. ASSUME NEW e \in Events
      PROVE  InQueue(e)' <=> (InQueue(e) /\ e # Head(event_queue))
  <2>1. ASSUME NEW i \in 1 .. Len(event_queue'), event_queue'[i] = e
        PROVE  InQueue(e) /\ e # Head(event_queue)
    <3>1. i + 1 \in 1 .. Len(event_queue) /\ event_queue[i + 1] = e /\ i + 1 # 1
      BY <1>1, <2>1
    <3> QED BY <1>1, <3>1 DEF InQueue
  <2>2. ASSUME NEW i \in 1 .. Len(event_queue), event_queue[i] = e, e # Head(event_queue)
        PROVE  InQueue(e)'
    <3>1. i - 1 \in 1 .. Len(event_queue') /\ event_queue'[i - 1] = e
      BY <1>1, <2>2
    <3> QED BY <3>1 DEF InQueue
  <2> QED BY <2>1, <2>2 DEF InQueue
<1>5. ASSUME NEW i \in 1 .. Len(event_queue'), NEW j \in 1 .. Len(event_queue'),
             event_queue'[i] = event_queue'[j]
      PROVE  i = j
  <2>1. /\ i + 1 \in 1 .. Len(event_queue) /\ j + 1 \in 1 .. Len(event_queue)
        /\ event_queue[i + 1] = event_queue[j + 1]
    BY <1>1, <1>5
  <2> QED BY <2>1
<1> QED BY <1>2, <1>3, <1>4, <1>5

\* What a delivery of events that were in no delivery does to the deliveries.
LEMMA DeliveryAppended ==
  ASSUME NoteTypeOK, NEW batch \in SUBSET Events, Deliver(batch)
  PROVE  /\ delivered' \in Seq(SUBSET Events)
         /\ \A e \in Events : InDelivery(e)' <=> (InDelivery(e) \/ e \in batch)
         /\ DigestsAlike /\ Alike(batch) => DigestsAlike'
         /\ (\A i, j \in 1 .. Len(delivered) :
                (\E e \in Events : e \in delivered[i] /\ e \in delivered[j]) => i = j)
              /\ (\A e \in batch : ~InDelivery(e))
            => \A i, j \in 1 .. Len(delivered') :
                 (\E e \in Events : e \in delivered'[i] /\ e \in delivered'[j]) => i = j
<1>1. /\ delivered \in Seq(SUBSET Events) /\ Len(delivered) \in Nat
      /\ Len(delivered') = Len(delivered) + 1
      /\ delivered'[Len(delivered) + 1] = batch
      /\ \A i \in 1 .. Len(delivered) : delivered'[i] = delivered[i]
  BY DEF NoteTypeOK, Deliver
<1>2. delivered' \in Seq(SUBSET Events)
  BY <1>1 DEF Deliver
<1>3. \A e \in Events : InDelivery(e)' <=> (InDelivery(e) \/ e \in batch)
  BY <1>1 DEF InDelivery
<1>4. DigestsAlike /\ Alike(batch) => DigestsAlike'
  BY <1>1 DEF DigestsAlike, Alike
<1>5. ASSUME \A i, j \in 1 .. Len(delivered) :
               (\E e \in Events : e \in delivered[i] /\ e \in delivered[j]) => i = j,
             \A e \in batch : ~InDelivery(e),
             NEW i \in 1 .. Len(delivered'), NEW j \in 1 .. Len(delivered'),
             NEW e \in Events, e \in delivered'[i], e \in delivered'[j]
      PROVE  i = j
  <2>1. \A k \in 1 .. Len(delivered) : delivered[k] \cap batch = {}
    BY <1>5 DEF InDelivery
  <2> QED BY <1>1, <1>5, <2>1
<1> QED BY <1>2, <1>3, <1>4, <1>5

\* Events that go from the worker's hands to a delivery stay accounted for.
LEMMA DeliveryAccounted ==
  ASSUME NoteTypeOK, AccountedOnce, DigestsAlike,
         NEW batch \in SUBSET Events, Alike(batch), Deliver(batch),
         UNCHANGED <<event_queue, pushed>>,
         \A e \in Events :
           /\ (event = e \/ e \in digest) <=> (e \in batch \/ event' = e \/ e \in digest')
           /\ ~(e \in batch /\ (event' = e \/ e \in digest'))
           /\ ~(event' = e /\ e \in digest')
  PROVE  AccountedOnce' /\ DigestsAlike' /\ delivered' \in Seq(SUBSET Events)
<1>1. \A e \in batch : ~InDelivery(e)
  BY DEF AccountedOnce
<1>2. \A e \in Events : InQueue(e)' <=> InQueue(e)
  BY DEF InQueue
<1>3. AccountedOnce'
  BY <1>1, <1>2, DeliveryAppended DEF AccountedOnce
<1> QED BY <1>3, DeliveryAppended

\* So do events that change hands without a delivery.
LEMMA UndeliveredAccounted ==
  ASSUME AccountedOnce, DigestsAlike, UNCHANGED <<event_queue, pushed, delivered>>,
         \A e \in Events :
           /\ (event = e \/ e \in digest) <=> (event' = e \/ e \in digest')
           /\ ~(event' = e /\ e \in digest')
  PROVE  AccountedOnce' /\ DigestsAlike'
<1>1. \A e \in Events : (InQueue(e)' <=> InQueue(e)) /\ (InDelivery(e)' <=> InDelivery(e))
  BY DEF InQueue, InDelivery
<1> QED BY <1>1 DEF AccountedOnce, DigestsAlike

\* Nothing has been pushed at first.
LEMMA NoteInitInv == NoteInit => NoteInv
<1> SUFFICES ASSUME NoteInit PROVE NoteInv
  OBVIOUS
<1>1. WorkerInv /\ ShutdownInv /\ Alike(digest)
  BY DEF NoteInit, WorkerInv, ShutdownInv, Alike
<1>4. event_queue \in Seq(Events) /\ delivered \in Seq(SUBSET Events)
  BY DEF NoteInit
<1>5. NoteTypeOK
  BY <1>4 DEF NoteInit, NoteTypeOK
<1>2. \A e \in Events : ~InQueue(e) /\ ~InDelivery(e) /\ e # NoEvent
  BY EventsAssumption DEF NoteInit, InQueue, InDelivery
<1>3. AccountedOnce /\ DigestsAlike
  BY <1>2 DEF NoteInit, AccountedOnce, DigestsAlike
<1> QED BY <1>1, <1>3, <1>5 DEF NoteInv

\* A caller's step preserves the invariant.
LEMMA CallerKeepsNoteInv ==
  ASSUME NoteInv,
         (\E e \in Events : PushEvent(e)) \/ Configure \/ NoteStop \/ WindowExpires
  PROVE  NoteInv'
<1> USE DEF NoteInv, engineVars
<1>1. ASSUME NEW e \in Events, PushEvent(e) PROVE NoteInv'
  <2>1. NoteTypeOK' /\ WorkerInv' /\ ShutdownInv' /\ Alike(digest)' /\ DigestsAlike'
    BY <1>1, QueueAppended
       DEF PushEvent, NoteTypeOK, WorkerInv, ShutdownInv, Alike, DigestsAlike
  <2>2. ~InQueue(e) /\ event # e /\ e \notin digest /\ ~InDelivery(e)
    BY <1>1 DEF PushEvent, AccountedOnce
  <2>3. \A f \in Events : InDelivery(f)' <=> InDelivery(f)
    BY <1>1 DEF PushEvent, InDelivery
  <2>4. AccountedOnce'
    BY <1>1, <2>2, <2>3, QueueAppended DEF PushEvent, AccountedOnce
  <2> QED BY <2>1, <2>4
<1>2. CASE Configure \/ NoteStop \/ WindowExpires
  <2>1. UNCHANGED <<event_queue, digest, event, note_worker, delivered, pushed>>
    BY <1>2 DEF Configure, NoteStop, StopRequested, StopJoins, StopShutsChannels,
                WindowExpires
  <2>2. NoteTypeOK' /\ WorkerInv' /\ ShutdownInv'
    BY <1>2 DEF Configure, NoteStop, StopRequested, StopJoins, StopShutsChannels,
                WindowExpires, NoteTypeOK, WorkerInv, ShutdownInv
  <2> QED BY <2>1, <2>2 DEF AccountedOnce, InQueue, InDelivery, Alike, DigestsAlike
<1> QED BY <1>1, <1>2

\* A step of the worker preserves the invariant.
LEMMA WorkerKeepsNoteInv == NoteInv /\ NoteWorkerStep => NoteInv'
<1> SUFFICES ASSUME NoteInv, NoteWorkerStep PROVE NoteInv'
  OBVIOUS
<1> USE EventsAssumption DEF NoteInv, callerVars, NoteGoes
<1>0. ShutdownInv'
  BY DEF ShutdownInv, NoteWorkerStep, Take, TakeStopped, Choose, Window, Merge, Replace,
         Direct, Flush
<1>1. CASE Take
  <2>1. CASE event_queue # <<>>
    <3>1. NoteTypeOK' /\ WorkerInv' /\ Alike(digest)' /\ DigestsAlike'
      BY <1>1, <2>1, QueueTaken
         DEF Take, NoteTypeOK, WorkerInv, Alike, DigestsAlike, AccountedOnce
    <3>2. \A f \in Events : InDelivery(f)' <=> InDelivery(f)
      BY <1>1 DEF Take, InDelivery
    <3>3. AccountedOnce'
      BY <1>1, <2>1, <3>2, QueueTaken DEF Take, AccountedOnce, WorkerInv
    <3> QED BY <1>0, <3>1, <3>3
  <2>2. CASE event_queue = <<>>
    <3>1. UNCHANGED <<event_queue, digest, event, delivered, pushed>>
      BY <1>1, <2>2 DEF Take, WorkerInv
    <3>2. NoteTypeOK' /\ WorkerInv'
      BY <1>1, <2>2 DEF Take, NoteTypeOK, WorkerInv
    <3> QED BY <1>0, <3>1, <3>2 DEF AccountedOnce, InQueue, InDelivery, Alike, DigestsAlike
  <2> QED BY <2>1, <2>2
<1>2. CASE TakeStopped \/ Choose
  <2>1. UNCHANGED <<event_queue, digest, event, delivered, pushed>>
    BY <1>2 DEF TakeStopped, Choose
  <2>2. NoteTypeOK' /\ WorkerInv'
    BY <1>2 DEF TakeStopped, Choose, NoteTypeOK, WorkerInv
  <2> QED BY <1>0, <2>1, <2>2 DEF AccountedOnce, InQueue, InDelivery, Alike, DigestsAlike
<1>3. CASE Window
  <2>1. NoteTypeOK' /\ WorkerInv' /\ Alike(digest)'
    BY <1>3, DeliveryAppended DEF Window, NoteTypeOK, WorkerInv, Alike
  <2>2. CASE flush_pending /\ digest # {}
    <3>1. /\ Deliver(digest) /\ digest' = {}
          /\ UNCHANGED <<event_queue, event, pushed>> /\ digest \in SUBSET Events
      BY <1>3, <2>2 DEF Window, NoteTypeOK
    <3> QED BY <1>0, <2>1, <3>1, DeliveryAccounted DEF AccountedOnce
  <2>3. CASE ~(flush_pending /\ digest # {})
    <3>1. UNCHANGED <<event_queue, delivered, pushed, event, digest>>
      BY <1>3, <2>3 DEF Window
    <3> QED BY <1>0, <2>1, <3>1 DEF AccountedOnce, InQueue, InDelivery, DigestsAlike
  <2> QED BY <2>2, <2>3
<1>4. CASE Merge
  <2>1. NoteTypeOK' /\ WorkerInv'
    BY <1>4 DEF Merge, NoteTypeOK, WorkerInv
  <2>2. /\ UNCHANGED <<event_queue, delivered, pushed>>
        /\ \/ UNCHANGED <<event, digest>>
           \/ event # NoEvent /\ event' = NoEvent /\ digest' = digest \cup {event}
    BY <1>4 DEF Merge
  <2>3. Alike(digest)'
    BY <1>4 DEF Merge, Matches, Alike
  <2>4. AccountedOnce' /\ DigestsAlike'
    BY <2>2, UndeliveredAccounted DEF AccountedOnce, NoteTypeOK
  <2> QED BY <1>0, <2>1, <2>3, <2>4
<1>5. CASE Replace
  <2>1. event \in Events
    BY <1>5 DEF Replace, WorkerInv
  <2>2. /\ digest' = {event} /\ event' = NoEvent /\ digest \in SUBSET Events
        /\ UNCHANGED <<event_queue, pushed>>
    BY <1>5 DEF Replace, NoteTypeOK
  <2>3. Alike(digest)'
    BY <2>2 DEF Alike
  <2>4. WorkerInv'
    BY <1>5 DEF Replace, WorkerInv
  <2>5. delivered' \in Seq(SUBSET Events) => NoteTypeOK'
    BY <1>5, <2>1 DEF Replace, NoteTypeOK
  <2>6. CASE digest # {}
    <3>1. Deliver(digest)
      BY <1>5, <2>6 DEF Replace
    <3>2. AccountedOnce' /\ DigestsAlike' /\ delivered' \in Seq(SUBSET Events)
      BY <2>1, <2>2, <3>1, DeliveryAccounted DEF AccountedOnce
    <3> QED BY <1>0, <2>3, <2>4, <2>5, <3>2
  <2>7. CASE digest = {}
    <3>1. UNCHANGED delivered
      BY <1>5, <2>7 DEF Replace
    <3>2. AccountedOnce' /\ DigestsAlike'
      BY <2>1, <2>2, <2>7, <3>1, UndeliveredAccounted
    <3> QED BY <1>0, <2>3, <2>4, <2>5, <3>1, <3>2 DEF NoteTypeOK
  <2> QED BY <2>6, <2>7
<1>6. CASE Direct
  <2>1. /\ event' = NoEvent /\ UNCHANGED <<event_queue, pushed, digest>>
        /\ WorkerInv' /\ Alike(digest)'
    BY <1>6 DEF Direct, WorkerInv, Alike
  <2>2. delivered' \in Seq(SUBSET Events) => NoteTypeOK'
    BY <1>6 DEF Direct, NoteTypeOK
  <2>3. CASE event # NoEvent
    <3>1. Deliver({event}) /\ {event} \in SUBSET Events /\ Alike({event})
      BY <1>6, <2>3 DEF Direct, NoteTypeOK, Alike
    <3>2. AccountedOnce' /\ DigestsAlike' /\ delivered' \in Seq(SUBSET Events)
      BY <2>1, <3>1, DeliveryAccounted DEF AccountedOnce
    <3> QED BY <1>0, <2>1, <2>2, <3>2
  <2>4. CASE event = NoEvent
    <3>1. UNCHANGED <<delivered, event, digest, event_queue, pushed>>
      BY <1>6, <2>1, <2>4 DEF Direct
    <3> QED BY <1>0, <2>1, <2>2, <3>1
            DEF NoteTypeOK, AccountedOnce, InQueue, InDelivery, DigestsAlike
  <2> QED BY <2>3, <2>4
<1>7. CASE Flush
  <2>1. UNCHANGED <<event_queue, event, pushed>> /\ WorkerInv'
    BY <1>7 DEF Flush, WorkerInv
  <2>2. delivered' \in Seq(SUBSET Events) => NoteTypeOK'
    BY <1>7 DEF Flush, NoteTypeOK
  <2>3. CASE aggregate_messages /\ digest # {}
    <3>1. Deliver(digest) /\ digest' = {} /\ digest \in SUBSET Events
      BY <1>7, <2>3 DEF Flush, NoteTypeOK
    <3>2. AccountedOnce' /\ DigestsAlike' /\ delivered' \in Seq(SUBSET Events)
      BY <2>1, <3>1, DeliveryAccounted DEF AccountedOnce
    <3> QED BY <1>0, <2>1, <2>2, <3>1, <3>2 DEF Alike
  <2>4. CASE ~(aggregate_messages /\ digest # {})
    <3>1. UNCHANGED <<delivered, event, digest, event_queue, pushed>>
      BY <1>7, <2>1, <2>4 DEF Flush
    <3>2. AccountedOnce' /\ DigestsAlike'
      BY <3>1 DEF AccountedOnce, InQueue, InDelivery, DigestsAlike
    <3>3. NoteTypeOK' /\ Alike(digest)'
      BY <2>2, <3>1 DEF NoteTypeOK, Alike
    <3> QED BY <1>0, <2>1, <3>2, <3>3
  <2> QED BY <2>3, <2>4
<1> QED BY <1>1, <1>2, <1>3, <1>4, <1>5, <1>6, <1>7 DEF NoteWorkerStep

\* Every step preserves the invariant.
LEMMA NoteStepInv == NoteInv /\ [NoteNext]_noteVars => NoteInv'
<1>1. NoteInv /\ UNCHANGED noteVars => NoteInv'
  BY DEF noteVars, NoteInv, NoteTypeOK, WorkerInv, ShutdownInv, AccountedOnce, InQueue,
         InDelivery, Alike, DigestsAlike
<1> QED BY <1>1, CallerKeepsNoteInv, WorkerKeepsNoteInv DEF NoteNext

\* Every accepted event is in exactly one place, and delivered at most once.
THEOREM NoteAccounted == NoteSpec => []AccountedOnce
<1>1. NoteInv => AccountedOnce
  BY DEF NoteInv
<1> QED BY NoteInitInv, NoteStepInv, <1>1, PTL DEF NoteSpec

\* A digest holds events of one kind.
THEOREM NoteDigests == NoteSpec => []DigestsAlike
<1>1. NoteInv => DigestsAlike
  BY DEF NoteInv
<1> QED BY NoteInitInv, NoteStepInv, <1>1, PTL DEF NoteSpec

\* The worker is joined before the channels are shut down, and delivers nothing after.
THEOREM NoteShutdown == NoteSpec => NoneAfterShutdown
<1>1. NoteInv /\ [NoteNext]_noteVars => [delivered' # delivered => channels_open]_noteVars
  <2> SUFFICES ASSUME NoteInv, NoteNext, ~channels_open PROVE delivered' = delivered
    BY DEF noteVars
  <2>1. note_worker = "done"
    BY DEF NoteInv, ShutdownInv
  <2>2. ~NoteWorkerStep
    BY <2>1 DEF NoteWorkerStep, Take, TakeStopped, Choose, Window, Merge, Replace, Direct,
                Flush, NoteGoes
  <2> QED BY <2>2 DEF NoteNext, PushEvent, Configure, NoteStop, StopRequested, StopJoins,
                      StopShutsChannels, WindowExpires
<1> QED BY NoteInitInv, NoteStepInv, <1>1, PTL DEF NoteSpec, NoneAfterShutdown

=============================================================================
