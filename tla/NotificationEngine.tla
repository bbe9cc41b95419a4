------------------------- MODULE NotificationEngine -------------------------
(***************************************************************************)
(* The notification engine: any thread pushes an event that passes the      *)
(* filters, one worker thread takes the events one by one and gives them to *)
(* the channels, alone or, while aggregate_messages is set, merged into the *)
(* pending digest of the events like it. mutex_ protects the queue and a    *)
(* delivery, but neither the digest nor the worker's look at the setting.   *)
(***************************************************************************)
EXTENDS Naturals, Sequences, FiniteSets

CONSTANTS
  Events,      \* the events that may be pushed, each once
  Bucket,      \* Bucket[e]: what matchesAggregate() compares of event e
  NoEvent      \* no event in the worker's hands

ASSUME EventsAssumption ==
  /\ IsFiniteSet(Events)
  /\ NoEvent \notin Events
  /\ Bucket \in [Events -> Nat]

VARIABLES
  event_queue,         \* event_queue_
  note_running,        \* running_
  aggregate_messages,  \* config_.aggregate_messages
  digest,              \* pending_aggregate_: the events merged into it
  expired,             \* the digest's window has run out
  event,               \* the worker's event, or NoEvent
  flush_pending,       \* the worker's local flag
  note_worker,         \* where the worker is
  note_stop,           \* where stop() is
  channels_open,       \* the channels have not been shut down
  delivered,           \* the deliveries so far, each the set of events in it
  pushed               \* the events accepted so far

noteVars == <<event_queue, note_running, aggregate_messages, digest, expired, event,
              flush_pending, note_worker, note_stop, channels_open, delivered, pushed>>

NoteTypeOK ==
  /\ event_queue \in Seq(Events)
  /\ note_running \in BOOLEAN /\ aggregate_messages \in BOOLEAN
  /\ digest \in SUBSET Events
  /\ expired \in BOOLEAN
  /\ event \in Events \cup {NoEvent}
  /\ flush_pending \in BOOLEAN
  /\ note_worker \in {"wait", "taken", "window", "merge", "replace", "direct", "flush", "done"}
  /\ note_stop \in {"no", "join", "shutdown", "done"}
  /\ channels_open \in BOOLEAN
  /\ delivered \in Seq(SUBSET Events)
  /\ pushed \in SUBSET Events

\* main() has registered and configured the channels and called start().
NoteInit ==
  /\ event_queue = <<>>
  /\ note_running = TRUE
  /\ aggregate_messages \in BOOLEAN
  /\ digest = {} /\ expired = FALSE
  /\ event = NoEvent /\ flush_pending = FALSE
  /\ note_worker = "wait"
  /\ note_stop = "no"
  /\ channels_open = TRUE
  /\ delivered = <<>>
  /\ pushed = {}

-----------------------------------------------------------------------------
(* The callers' threads.                                                    *)

engineVars == <<digest, expired, event, flush_pending, note_worker>>

PushEvent(e) ==
  /\ e \notin pushed
  /\ pushed' = pushed \cup {e}
  /\ event_queue' = Append(event_queue, e)
  /\ UNCHANGED <<note_running, aggregate_messages, engineVars, note_stop, channels_open,
                 delivered>>

\* configure(), an RPC: the gRPC server is shut down before stop() is called.
Configure ==
  /\ note_stop = "no"
  /\ aggregate_messages' = ~aggregate_messages
  /\ UNCHANGED <<event_queue, note_running, engineVars, note_stop, channels_open,
                 delivered, pushed>>

StopRequested ==
  /\ note_stop = "no"
  /\ note_stop' = "join"
  /\ note_running' = FALSE
  /\ UNCHANGED <<event_queue, aggregate_messages, engineVars, channels_open, delivered,
                 pushed>>

\* Bug: the channels are shut down before the worker has been joined.
StopShutsFirst ==
  /\ note_stop = "join"
  /\ note_stop' = "shutdown"
  /\ UNCHANGED <<event_queue, note_running, aggregate_messages, engineVars, channels_open,
                 delivered, pushed>>

StopJoins ==
  /\ note_stop = "join"
  /\ note_worker = "done"
  /\ note_stop' = "shutdown"
  /\ UNCHANGED <<event_queue, note_running, aggregate_messages, engineVars, channels_open,
                 delivered, pushed>>

StopShutsChannels ==
  /\ note_stop = "shutdown"
  /\ note_stop' = "done"
  /\ channels_open' = FALSE
  /\ UNCHANGED <<event_queue, note_running, aggregate_messages, engineVars, delivered,
                 pushed>>

NoteStop == StopRequested \/ StopJoins \/ StopShutsChannels

\* The clock: the aggregation interval of the digest runs out.
WindowExpires ==
  /\ digest # {} /\ ~expired
  /\ expired' = TRUE
  /\ UNCHANGED <<event_queue, note_running, aggregate_messages, digest, event,
                 flush_pending, note_worker, note_stop, channels_open, delivered, pushed>>

-----------------------------------------------------------------------------
(* workerLoop().                                                            *)

callerVars == <<note_running, aggregate_messages, note_stop, channels_open, pushed>>

NoteGoes(from, to) == note_worker = from /\ note_worker' = to

Deliver(batch) == delivered' = Append(delivered, batch)

\* Bug: an event taken while stop() is called is dropped at a second look at running_.
TakeDropped ==
  /\ note_running
  /\ NoteGoes("wait", "taken")
  /\ flush_pending' = (aggregate_messages /\ digest # {} /\ expired)
  /\ IF event_queue # <<>>
       THEN event' \in {Head(event_queue), NoEvent} /\ event_queue' = Tail(event_queue)
       ELSE event' = NoEvent /\ UNCHANGED event_queue
  /\ UNCHANGED <<digest, expired, delivered, callerVars>>

\* The wait, at most 500 ms, and what follows it under mutex_.
Take ==
  /\ note_running
  /\ NoteGoes("wait", "taken")
  /\ flush_pending' = (aggregate_messages /\ digest # {} /\ expired)
  /\ IF event_queue # <<>>
       THEN event' = Head(event_queue) /\ event_queue' = Tail(event_queue)
       ELSE event' = NoEvent /\ UNCHANGED event_queue
  /\ UNCHANGED <<digest, expired, delivered, callerVars>>

\* The setting is read again, without the lock.
Choose ==
  /\ NoteGoes("taken", IF aggregate_messages THEN "window" ELSE "direct")
  /\ UNCHANGED <<event_queue, digest, expired, event, flush_pending, delivered, callerVars>>

TakeStopped ==
  /\ ~note_running
  /\ NoteGoes("wait", "flush")
  /\ UNCHANGED <<event_queue, digest, expired, event, flush_pending, delivered, callerVars>>

\* Bug: a digest is only sent when another kind of event comes.
WindowIgnored ==
  /\ NoteGoes("window", "merge")
  /\ UNCHANGED <<event_queue, digest, expired, event, flush_pending, delivered, callerVars>>

\* The digest of an expired window is sent.
Window ==
  /\ NoteGoes("window", "merge")
  /\ IF flush_pending /\ digest # {}
       THEN Deliver(digest) /\ digest' = {} /\ expired' = FALSE
       ELSE UNCHANGED <<digest, expired, delivered>>
  /\ UNCHANGED <<event_queue, event, flush_pending, callerVars>>

Matches(e) == \E base \in digest : Bucket[base] = Bucket[e]

Merge ==
  /\ note_worker = "merge"
  /\ \/ event = NoEvent /\ note_worker' = "wait" /\ UNCHANGED <<digest, event>>
     \/ /\ event # NoEvent /\ Matches(event)
        /\ digest' = digest \cup {event} /\ event' = NoEvent /\ note_worker' = "wait"
     \/ /\ event # NoEvent /\ ~Matches(event)
        /\ note_worker' = "replace" /\ UNCHANGED <<digest, event>>
  /\ UNCHANGED <<event_queue, expired, flush_pending, delivered, callerVars>>

\* An event of another kind sends the digest and starts the next one.
Replace ==
  /\ NoteGoes("replace", "wait")
  /\ IF digest # {} THEN Deliver(digest) ELSE UNCHANGED delivered
  /\ digest' = {event} /\ expired' = FALSE
  /\ event' = NoEvent
  /\ UNCHANGED <<event_queue, flush_pending, callerVars>>

Direct ==
  /\ NoteGoes("direct", "wait")
  /\ IF event # NoEvent THEN Deliver({event}) ELSE UNCHANGED delivered
  /\ event' = NoEvent
  /\ UNCHANGED <<event_queue, digest, expired, flush_pending, callerVars>>

\* The digest that is left on shutdown is sent, if events are still aggregated.
Flush ==
  /\ NoteGoes("flush", "done")
  /\ IF aggregate_messages /\ digest # {}
       THEN Deliver(digest) /\ digest' = {} /\ expired' = FALSE
       ELSE UNCHANGED <<digest, expired, delivered>>
  /\ UNCHANGED <<event_queue, event, flush_pending, callerVars>>

NoteWorkerStep ==
  Take \/ TakeStopped \/ Choose \/ Window \/ Merge \/ Replace \/ Direct \/ Flush

NoteNext ==
  \/ \E e \in Events : PushEvent(e)
  \/ Configure \/ NoteStop \/ WindowExpires \/ NoteWorkerStep

NoteSpec == NoteInit /\ [][NoteNext]_noteVars

\* The operating system schedules the worker and the caller of stop(); time passes.
NoteFairness ==
  WF_noteVars(NoteWorkerStep) /\ WF_noteVars(StopJoins \/ StopShutsChannels)
    /\ WF_noteVars(WindowExpires)

-----------------------------------------------------------------------------
InQueue(e)     == \E i \in 1 .. Len(event_queue) : event_queue[i] = e
InDelivery(e)  == \E i \in 1 .. Len(delivered) : e \in delivered[i]

\* No event is lost and none is sent twice, however pushes, merges, settings and stop()
\* interleave: an accepted event is waiting, in the worker's hands, in the digest or
\* delivered, in one of these places only, and delivered or queued only once.
AccountedOnce ==
  /\ \A e \in Events :
       /\ e \in pushed <=> (InQueue(e) \/ event = e \/ e \in digest \/ InDelivery(e))
       /\ ~(InQueue(e) /\ (event = e \/ e \in digest \/ InDelivery(e)))
       /\ ~(event = e /\ (e \in digest \/ InDelivery(e)))
       /\ ~(e \in digest /\ InDelivery(e))
  /\ \A i, j \in 1 .. Len(event_queue) : event_queue[i] = event_queue[j] => i = j
  /\ \A i, j \in 1 .. Len(delivered) :
       (\E e \in Events : e \in delivered[i] /\ e \in delivered[j]) => i = j

\* A digest never mixes events of different kinds.
DigestsAlike ==
  \A i \in 1 .. Len(delivered) :
    \A e, f \in delivered[i] : Bucket[e] = Bucket[f]

\* No channel is given an event after its shutdown, the last digest included.
NoneAfterShutdown == [][delivered' # delivered => channels_open]_noteVars

\* An accepted event reaches the channels, unless the engine is stopped first or the
\* event sits in a digest when the aggregation is switched off.
EventReaches ==
  \A e \in Events :
    e \in pushed ~> (InDelivery(e) \/ ~note_running \/ (e \in digest /\ ~aggregate_messages))

=============================================================================
