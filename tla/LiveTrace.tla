------------------------------ MODULE LiveTrace ------------------------------
(***************************************************************************)
(* The live trace registry (core/agent/runtime/live_trace.py) and one       *)
(* manager who watches it over the websocket of the management interface    *)
(* (interfaces/http/managers/api/agents.py).                                *)
(*                                                                         *)
(* Turns emit events into the registry, which keeps the latest events of a  *)
(* limited number of traces and tells its subscribers that something has    *)
(* changed.  A subscriber's queue is bounded and drops its oldest entry; it *)
(* does not matter what an entry says, for the watcher answers each with a  *)
(* fresh snapshot.  So the queue is modelled by its length.                 *)
(*                                                                         *)
(* Times are abstracted to "the retention of a finished trace has passed";  *)
(* of an event only its sequence number is kept, of a record its status.    *)
(***************************************************************************)
EXTENDS Integers, Sequences, FiniteSets, SequencesExt

CONSTANTS
  MaxStarted,   \* bound: traces started
  MaxTraces,    \* AgentLiveTraceConfig.max_traces
  MaxEvents,    \* AgentLiveTraceConfig.max_events_per_trace
  QueueSize,    \* maxsize of a subscriber's queue
  MaxSequence,  \* bound: events emitted
  EventStatuses, \* the statuses events carry; "" for an event without one
  FinalStatuses  \* the statuses a trace is finished with

\* with_safe_defaults replaces every non-positive limit by a positive one.
ASSUME LimitAssumption ==
  /\ MaxTraces \in Nat \ {0} /\ MaxEvents \in Nat \ {0}
  /\ QueueSize \in Nat \ {0} /\ MaxSequence \in Nat
  /\ MaxStarted \in Nat

RecordStatuses == {"running", "completed", "failed", "cancelled"}

ASSUME StatusAssumption ==
  /\ EventStatuses \subseteq RecordStatuses \cup {"", "needs_confirm"}
  /\ FinalStatuses \subseteq {"completed", "failed"}

\* Every turn has a fresh id: they are numbered in the order of their start.
Traces == 1..MaxStarted
NoTrace == 0

VARIABLES
  order,     \* the keys of _records, in the order of the OrderedDict
  status,    \* status of each record
  buffer,    \* _event_buffers, as sequence numbers
  finished,  \* the keys of _finished_monotonic
  overdue,   \* the finished traces whose retention has passed
  sequence,  \* _sequence
  started,   \* history: how many traces were started
  viewer,    \* where the websocket handler awaits
  selected,  \* selected_trace_id
  queued,    \* length of the subscriber's queue
  shown,     \* the records in the last snapshot sent
  detail     \* the events of the selected trace in the last snapshot

records == <<order, status, buffer, finished, overdue>>
watching == <<viewer, selected, shown, detail>>
vars == <<records, sequence, started, watching, queued>>

Known == ToSet(order)
Summary(t) == <<status[t], buffer[t]>>
Nothing == <<>>

Init ==
  /\ order = <<>> /\ finished = {} /\ overdue = {}
  /\ status = [t \in Traces |-> "running"]
  /\ buffer = [t \in Traces |-> <<>>]
  /\ sequence = 0 /\ started = 0
  /\ viewer = "away" /\ selected = NoTrace /\ queued = 0
  /\ shown = [t \in Traces |-> Nothing] /\ detail = Nothing

-----------------------------------------------------------------------------
(* The registry.                                                           *)

\* What is left of o once only the elements of S are kept.  (SelectSeq, without
\* its recursion, about which nothing can be proved.)
Keeping(o, S) ==
  LET kept == {i \in DOMAIN o : o[i] \in S}
  IN [k \in 1..Cardinality(kept) |->
        o[CHOOSE i \in kept : Cardinality({j \in kept : j < i}) = k - 1]]

Latest(s, n) == SubSeq(s, Len(s) - n + 1, Len(s))
Newest(s, n) == IF Len(s) <= n THEN s ELSE Latest(s, n)

\* Mutant of Pruned: nothing is removed for lack of room.
Pruned_NoCapacity(o, late) == Keeping(o, Traces \ late)

\* prune_locked: overdue traces go, then the first ones until the rest fits.
Pruned(o, late) == Newest(Keeping(o, Traces \ late), MaxTraces)

\* Mutant of Touched: an event does not move its trace to the end.
Touched_NotMoved(o, t) == IF t \in ToSet(o) THEN o ELSE Append(o, t)

\* move_to_end
Touched(o, t) == Append(Keeping(o, Traces \ {t}), t)

\* resolve_record_status, for events other than the last one of a turn.
StatusAfter(t, s) ==
  IF s = "" THEN status[t]
  ELSE IF s \in {"completed", "failed", "cancelled"} THEN s
  ELSE "running"

\* Mutant of BufferAfter: the buffer is not bounded.
BufferAfter_Unbounded(t) == Append(buffer[t], sequence + 1)

\* A deque with maxlen drops its first entry.
BufferAfter(t) == Newest(Append(buffer[t], sequence + 1), MaxEvents)

NextSequence == sequence < MaxSequence /\ sequence' = sequence + 1

\* Mutant of Notify: a full queue is emptied.
Notify_Empties ==
  queued' = IF viewer = "away" THEN queued
            ELSE IF queued = QueueSize THEN 0 ELSE queued + 1

\* notify_locked: a full queue gives up its oldest entry for the new one.
Notify ==
  queued' = IF viewer = "away" \/ queued = QueueSize THEN queued ELSE queued + 1

\* What remains of the other maps once the keys of _records are known.
Forget(o) ==
  /\ order' = o
  /\ overdue' = {}
  /\ buffer' = [t \in Traces |-> IF t \in ToSet(o) THEN buffer[t] ELSE <<>>]
  /\ finished' = finished \cap ToSet(o)
  /\ status' = [t \in Traces |-> IF t \in ToSet(o) THEN status[t] ELSE "running"]

\* start_trace with a fresh id: prune, record, first event, prune.
StartTrace(t) ==
  /\ t = started + 1
  /\ started' = t
  /\ NextSequence
  /\ LET o == Pruned(Append(Pruned(order, overdue), t), {})
     IN /\ order' = o
        /\ overdue' = {}
        /\ finished' = finished \cap ToSet(o)
        /\ buffer' = [u \in Traces |->
             IF u = t THEN <<sequence + 1>> ELSE IF u \in ToSet(o) THEN buffer[u] ELSE <<>>]
        /\ status' = [u \in Traces |->
             IF u \in ToSet(o) \ {t} THEN status[u] ELSE "running"]
  /\ Notify
  /\ UNCHANGED watching

\* emit: an event for a trace that is gone, or was never there, is dropped.
Emit(t, s) ==
  /\ t \in Known
  /\ NextSequence
  /\ order' = Touched(order, t)
  /\ buffer' = [buffer EXCEPT ![t] = BufferAfter(t)]
  /\ status' = [status EXCEPT ![t] = StatusAfter(t, s)]
  /\ Notify
  /\ UNCHANGED <<finished, overdue, started, watching>>

\* finish_trace: a last event, then the record is finished, then prune.  A trace
\* finished twice starts its retention again.
FinishTrace(t, s) ==
  /\ t \in Known
  /\ NextSequence
  /\ LET o == Pruned(Touched(order, t), overdue \ {t})
         kept == ToSet(o)
     IN /\ order' = o
        /\ overdue' = {}
        /\ finished' = (finished \cap kept) \cup {t}
        /\ buffer' = [u \in Traces |->
             IF u = t THEN BufferAfter(t) ELSE IF u \in kept THEN buffer[u] ELSE <<>>]
        /\ status' = [u \in Traces |->
             IF u = t THEN s ELSE IF u \in kept THEN status[u] ELSE "running"]
  /\ Notify
  /\ UNCHANGED <<started, watching>>

RetentionPasses(t) ==
  /\ t \in finished \ overdue
  /\ overdue' = overdue \cup {t}
  /\ UNCHANGED <<order, status, buffer, finished, sequence, started, watching, queued>>

\* clear
Clear ==
  /\ Known # {}
  /\ Forget(<<>>)
  /\ sequence' = 0
  /\ Notify
  /\ UNCHANGED <<started, watching>>

-----------------------------------------------------------------------------
(* The websocket handler: subscribe, send a snapshot, then wait for the     *)
(* queue or for the manager, and send a snapshot again.                     *)

Connect ==
  /\ viewer = "away"
  /\ \E t \in Traces \cup {NoTrace} : selected' = t
  /\ viewer' = "reading" /\ queued' = 0
  /\ UNCHANGED <<records, sequence, started, shown, detail>>

Show(o, d) ==
  /\ shown' = [t \in Traces |-> IF t \in ToSet(o) THEN Summary(t) ELSE Nothing]
  /\ detail' = d
  /\ viewer' = "waiting"
  /\ UNCHANGED <<sequence, started, selected, queued>>

\* send_live_trace_snapshot: get_trace, status and list_traces all prune.
SendSnapshot ==
  /\ viewer = "reading"
  /\ selected \in ToSet(Pruned(order, overdue)) \cup {NoTrace}
  /\ Forget(Pruned(order, overdue))
  /\ Show(order', IF selected = NoTrace THEN Nothing ELSE buffer[selected])

\* A trace that is not in memory is looked up in the run history: an await
\* between the detail and the list.
LookUpHistory ==
  /\ viewer = "reading"
  /\ selected \in Traces \ ToSet(Pruned(order, overdue))
  /\ Forget(Pruned(order, overdue))
  /\ viewer' = "listing"
  /\ UNCHANGED <<sequence, started, selected, queued, shown, detail>>

SendListed ==
  /\ viewer = "listing"
  /\ Forget(Pruned(order, overdue))
  /\ Show(order', Nothing)

TakeNotification ==
  /\ viewer = "waiting" /\ queued > 0
  /\ queued' = queued - 1
  /\ viewer' = "reading"
  /\ UNCHANGED <<records, sequence, started, selected, shown, detail>>

\* Mutant of SelectTrace: a selection takes a notification and sends nothing.
SelectTrace_NoSnapshot ==
  /\ viewer = "waiting"
  /\ queued' = 0
  /\ UNCHANGED <<records, sequence, started, watching>>

\* A message of the manager.  A notification that came with it is dropped.
SelectTrace ==
  /\ viewer = "waiting"
  /\ \E t \in Traces \cup {NoTrace} : selected' = t
  /\ queued' \in {queued, IF queued > 0 THEN queued - 1 ELSE 0}
  /\ viewer' = "reading"
  /\ UNCHANGED <<records, sequence, started, shown, detail>>

Disconnect ==
  /\ viewer # "away"
  /\ viewer' = "away" /\ queued' = 0 /\ selected' = NoTrace
  /\ shown' = [t \in Traces |-> Nothing] /\ detail' = Nothing
  /\ UNCHANGED <<records, sequence, started>>

-----------------------------------------------------------------------------
Registry ==
  \/ \E t \in Traces : \/ StartTrace(t)
                       \/ \E s \in EventStatuses : Emit(t, s)
                       \/ \E s \in FinalStatuses : FinishTrace(t, s)
                       \/ RetentionPasses(t)
  \/ Clear

Handler == SendSnapshot \/ LookUpHistory \/ SendListed \/ TakeNotification

Next == Registry \/ Handler \/ Connect \/ SelectTrace \/ Disconnect

Spec == Init /\ [][Next]_vars

\* The event loop runs the handler when it can go on.
FairSpec == Spec /\ WF_vars(Handler)

-----------------------------------------------------------------------------
(* Properties.                                                             *)

TypeOK ==
  /\ order \in Seq(Traces)
  /\ status \in [Traces -> RecordStatuses]
  /\ buffer \in [Traces -> Seq(1..MaxSequence)]
  /\ finished \subseteq Traces /\ overdue \subseteq finished
  /\ sequence \in 0..MaxSequence /\ started \in 0..MaxStarted
  /\ viewer \in {"away", "reading", "listing", "waiting"}
  /\ selected \in Traces \cup {NoTrace}
  /\ queued \in 0..QueueSize

\* The registry keeps at most max_traces records, each once, and its other maps
\* know no trace that has no record.  What a trace keeps are its latest events,
\* in the order of their sequence numbers, and no number is used twice.
RegistryBounded ==
  /\ Len(order) <= MaxTraces /\ IsInjective(order)
  /\ finished \subseteq Known
  /\ \A t \in Traces :
       /\ buffer[t] # <<>> <=> t \in Known
       /\ Len(buffer[t]) <= MaxEvents
       /\ \A i, j \in DOMAIN buffer[t] : i < j => buffer[t][i] < buffer[t][j]
  /\ \A t, u \in Traces : t # u => ToSet(buffer[t]) \cap ToSet(buffer[u]) = {}

\* The traces are kept in the order of their latest event: the one given up for
\* lack of room is the one that was silent for longest.
SilentTracesGoFirst ==
  \A i, j \in DOMAIN order :
    i < j => Last(buffer[order[i]]) < Last(buffer[order[j]])

ShowsCurrent ==
  /\ \A t \in Known : shown[t] = Summary(t)
  /\ selected \in Known => detail = buffer[selected]

\* No update is lost: when the handler waits and its queue is empty, the last
\* snapshot shows every trace of the registry as it is, and the latest events
\* of the selected one.  (A trace may be gone meanwhile: pruning tells nobody.)
NoUpdateLost == viewer = "waiting" /\ queued = 0 => ShowsCurrent

\* A manager who watches gets to see the present state again and again.
ViewerCatchesUp == []<>(viewer = "away" \/ ShowsCurrent)
=============================================================================
