--------------------------- MODULE ActivityEvents ---------------------------
(***************************************************************************)
(* One event sensor of the activity monitor from the kernel to the page:   *)
(* the BPF ring, the helper's bounded queue (files.rs, ipc.rs, signals.rs),*)
(* the batch drained every second (system/activity.rs) and its resolution  *)
(* and aggregation by the server (analysis/activity.rs).  The sensors have *)
(* rings, queues and counters of their own, so one of them is chosen.  An  *)
(* event keeps who caused it and what it is about; sizes are left out.     *)
(***************************************************************************)
EXTENDS Naturals, Sequences, FiniteSets, SequencesExt

CONSTANTS
  Pids, Resources,
  MaxStart,        \* bound on the processes that use a pid
  MaxEvents,       \* bound on the events of a behaviour
  RingCapacity,    \* events the BPF ring holds
  PollLimit,       \* 8192: records one poll consumes
  FilesLimit,      \* 8192: file events the helper queues
  IpcLimit,        \* 65536: IPC events
  SignalsLimit,    \* 1024: signals
  AggregateLimit,  \* 8192 file or IPC aggregates of a batch
  None

VARIABLES
  sensor,      \* which sensor this is
  state,       \* its SensorState
  owner,       \* the start time of the process that has the pid
  ring, lost,  \* the BPF ring and its counter of lost events
  queue, drops, \* the helper's queue and its counter of dropped events
  sent,        \* the activity event in the broadcast channel
  skipped,     \* events in batches the session's receiver missed
  known,       \* ObservationProcessor.known, by pid
  unresolved,  \* ActivityProcessor.unresolved
  batch,       \* the batch shown last
  lostShown,   \* its counter of lost events
  emitted, delivered  \* events of the kernel, and events in shown batches

kernelVars == <<owner, ring, lost, emitted>>
helperVars == <<state, queue, drops, sent>>
serverVars == <<known, unresolved, batch, lostShown, delivered>>
vars == <<sensor, kernelVars, helperVars, serverVars, skipped>>

Sensors == {"files", "ipc", "signals"}
NoBatch == [of |-> <<>>, dropped |-> 0]

-----------------------------------------------------------------------------
(* The kernel                                                              *)

ProcessKey == [pid : Pids, start : 1..MaxStart]

\* What the hooks report.  The path of a file may not be readable, work done by
\* a kernel worker is marked, a signal has a target.
FileActivity ==
  [from : ProcessKey, to : {None}, resource : Resources, worker : {FALSE}, path : BOOLEAN]
IpcEvent ==
  [from : ProcessKey, to : {None}, resource : Resources, worker : BOOLEAN, path : {FALSE}]
SignalSample ==
  [from : ProcessKey, to : ProcessKey, resource : {None}, worker : {FALSE}, path : {FALSE}]

Events == CASE sensor = "files" -> FileActivity
            [] sensor = "ipc" -> IpcEvent
            [] sensor = "signals" -> SignalSample

\* Processes by what a table of pids says of them.
Owners(table) == {None} \cup {[pid |-> p, start |-> table[p]] : p \in Pids}

Emit(event) ==
  /\ state # "Unavailable" /\ emitted < MaxEvents
  /\ {event.from, event.to} \subseteq Owners(owner)
  /\ emitted' = emitted + 1
  /\ IF Len(ring) < RingCapacity
       THEN ring' = Append(ring, event) /\ UNCHANGED lost
       ELSE lost' = lost + 1 /\ UNCHANGED ring
  /\ UNCHANGED <<sensor, owner, helperVars, serverVars, skipped>>

ReusePid(pid) ==
  /\ owner[pid] < MaxStart
  /\ owner' = [owner EXCEPT ![pid] = @ + 1]
  /\ UNCHANGED <<sensor, ring, lost, emitted, helperVars, serverVars, skipped>>

-----------------------------------------------------------------------------
(* The helper: ActivityCollector                                           *)

MutantPush(q, event, limit) ==
  IF Len(q.queue) <= limit THEN [q EXCEPT !.queue = Append(@, event)]
                           ELSE [q EXCEPT !.drops = @ + 1]

\* The callbacks of the rings: a full queue drops and counts.
Push(q, event, limit) ==
  IF Len(q.queue) < limit THEN [q EXCEPT !.queue = Append(@, event)]
                          ELSE [q EXCEPT !.drops = @ + 1]

FileRecord(q, event) == Push(q, event, FilesLimit)
IpcRecord(q, event) == Push(q, event, IpcLimit)
SignalRecord(q, event) == Push(q, event, SignalsLimit)

Received(q, event) == CASE sensor = "files" -> FileRecord(q, event)
                        [] sensor = "ipc" -> IpcRecord(q, event)
                        [] sensor = "signals" -> SignalRecord(q, event)

Least(a, b) == IF a < b THEN a ELSE b

\* poll: one consume of the ring.
Poll ==
  LET n == Least(PollLimit, Len(ring))
      q == FoldLeft(Received, [queue |-> queue, drops |-> drops], SubSeq(ring, 1, n))
  IN /\ state # "Unavailable"
     /\ state' = "Observing"
     /\ queue' = q.queue /\ drops' = q.drops
     /\ ring' = SubSeq(ring, n + 1, Len(ring))
     /\ UNCHANGED <<sensor, owner, lost, emitted, sent, serverVars, skipped>>

PollFails ==
  /\ state # "Unavailable"
  /\ state' = "Error"
  /\ UNCHANGED <<sensor, kernelVars, queue, drops, sent, serverVars, skipped>>

\* drain and the event the activity worker sends.  An event the receiver has
\* not taken when the next one comes is lost to it (the channel's lag).
Drain ==
  /\ sent' = [events |-> queue, lost |-> lost + drops]
  /\ skipped' = IF sent = None THEN skipped ELSE skipped + Len(sent.events)
  /\ queue' = <<>>
  /\ UNCHANGED <<sensor, state, drops, kernelVars, serverVars>>

-----------------------------------------------------------------------------
(* The server: ObservationProcessor and ActivityProcessor                  *)

\* A snapshot is processed: the pids it names, with their start times.
Snapshot ==
  /\ known' = owner
  /\ UNCHANGED <<sensor, kernelVars, helperVars, unresolved, batch, lostShown, delivered, skipped>>

\* The process known by the pid is the one that caused the event.
Resolves(p) == p \in Owners(known)

Identity(p) == [pid |-> p.pid, start |-> known[p.pid]]

\* One event added to the aggregates; count and path as FileBatch::add and
\* ActivityProcessor::process keep them.  The ghost from collects who caused it.
Merge(done, key, event) ==
  [done EXCEPT !.of = [i \in DOMAIN done.of |->
     IF done.of[i].key = key
       THEN [done.of[i] EXCEPT !.count = @ + 1, !.path = @ \/ event.path,
                               !.from = @ \cup {event.from}]
       ELSE done.of[i]]]

Insert(done, key, event) ==
  [done EXCEPT !.of = Append(@, [key |-> key, count |-> 1, path |-> event.path,
                                 from |-> {event.from}])]

Holds(done, key) == \E i \in DOMAIN done.of : done.of[i].key = key

\* A file event names its process itself.
AddFile(done, event) ==
  LET key == <<event.from, event.resource>>
  IN CASE Holds(done, key) -> Merge(done, key, event)
       [] ~Holds(done, key) /\ Len(done.of) < AggregateLimit -> Insert(done, key, event)
       [] OTHER -> [done EXCEPT !.dropped = @ + 1]

\* A full batch turns away every further IPC event, of its own keys too.
AddIpc(done, event) ==
  LET key == <<Identity(event.from), event.resource>>
  IN CASE event.worker \/ ~Resolves(event.from) \/ Len(done.of) >= AggregateLimit ->
            [done EXCEPT !.dropped = @ + 1]
       [] OTHER -> IF Holds(done, key) THEN Merge(done, key, event) ELSE Insert(done, key, event)

\* resolve_signal: both ends must be known; the others are left out, uncounted.
AddSignal(done, event) ==
  IF Resolves(event.from) /\ Resolves(event.to)
    THEN [done EXCEPT !.of = Append(@, [key |-> <<Identity(event.from), Identity(event.to)>>,
                                        count |-> 1, path |-> FALSE, from |-> {event.from}])]
    ELSE done

Add(done, event) ==
  CASE sensor = "files" -> AddFile(done, event)
    [] sensor = "ipc" -> AddIpc(done, event)
    [] sensor = "signals" -> AddSignal(done, event)

Count(of) == FoldLeft(LAMBDA sum, a : sum + a.count, 0, of)

\* A poll of the session takes the event and the processor interprets it.
Process ==
  /\ sent # None
  /\ LET done == FoldLeft(Add, NoBatch, sent.events)
     IN /\ batch' = done
        /\ delivered' = delivered + Count(done.of)
        /\ unresolved' = unresolved + IF sensor = "ipc" THEN done.dropped ELSE 0
        /\ lostShown' = sent.lost + IF sensor = "files" THEN done.dropped ELSE 0
  /\ sent' = None
  /\ UNCHANGED <<sensor, kernelVars, state, queue, drops, known, skipped>>

-----------------------------------------------------------------------------
\* new: a sensor whose program cannot be loaded stays unavailable.
Init ==
  /\ sensor \in Sensors /\ state \in {"Observing", "Unavailable"}
  /\ owner = [p \in Pids |-> 1] /\ ring = <<>> /\ lost = 0 /\ emitted = 0
  /\ queue = <<>> /\ drops = 0 /\ sent = None /\ skipped = 0
  /\ known = [p \in Pids |-> 0] /\ unresolved = 0 /\ batch = NoBatch /\ lostShown = 0
  /\ delivered = 0

Next ==
  \/ \E event \in Events : Emit(event)
  \/ \E pid \in Pids : ReusePid(pid)
  \/ Poll \/ PollFails \/ Drain \/ Snapshot \/ Process

Spec == Init /\ [][Next]_vars

-----------------------------------------------------------------------------
(* Properties                                                              *)

\* Every file and IPC event of the kernel is on its way, shown, or in one of
\* the counters the page gets: a full ring, a full queue, a full batch and a
\* process that is not known all count what they discard.
EventsAccounted ==
  sensor # "signals" =>
    emitted = Len(ring) + Len(queue) + (IF sent = None THEN 0 ELSE Len(sent.events)) + skipped
              + delivered + unresolved + lost + drops

\* Activity is shown for the process that caused it: an event of a process
\* whose pid was reused, before or after the snapshot the server knows, goes
\* to nobody.
ShownOfCause ==
  \A i \in DOMAIN batch.of : batch.of[i].from = {batch.of[i].key[1]}

=============================================================================
