---------------------------- MODULE StackSampler ----------------------------
(***************************************************************************)
(* The helper's stack sampler (process/snapshot/capture.rs) with the perf  *)
(* rings it drains (perf.rs) and the ptrace attachment it takes every ten  *)
(* seconds (ptrace.rs).  The kernel is the environment: threads run, are   *)
(* switched out, exit and have their tid reused while a poll is under way, *)
(* and the rings overflow.  Registers, stacks and instruction bytes are    *)
(* left out; a sample is its time, its source and where it came from.      *)
(***************************************************************************)
EXTENDS Naturals, Sequences, FiniteSets, SequencesExt

CONSTANTS
  Tids,          \* thread ids
  Cpus,          \* processors a thread may run on
  MapSets,       \* contents of /proc/PID/maps
  ThreadLimit,   \* 1024 in the code
  RingCapacity,  \* what a perf ring holds; a sample counts twice
  MaxTime,       \* bound on the clock: kernel events that carry a time
  MaxStart,      \* bound on the incarnations of a tid
  MaxEpoch,      \* bound on mapping epochs
  None           \* an absent value

VARIABLES
  \* the kernel
  now,       \* CLOCK_MONOTONIC
  start,     \* the start time of the thread that has the tid; 0: no thread
  born,      \* the start times given out
  cpu,       \* where the thread runs; None: it is switched out
  sampled,   \* its switch-out wrote the sample and not yet the switch record
  tracee,    \* its ptrace state
  signal,    \* the one signal sent to it
  gone,      \* the process with the observed identity is gone
  \* the sampler
  threads,   \* Sampler.threads
  context,   \* Sampler.context
  timer,     \* next_ptrace: unset, armed or due
  phase,     \* where poll or capture_ptrace is
  todo,      \* tids its loop has still to visit
  stat,      \* the start time poll has read for the tid it works on
  alive,     \* poll's set of tids
  guard,     \* PtraceGuard and the result it protects
  calm       \* no thread came or went since poll began

kernelVars  == <<now, start, born, cpu, sampled, tracee, signal, gone, calm>>
loopVars    == <<context, timer, phase, todo, stat, alive, guard>>
samplerVars == <<threads, loopVars>>
vars == <<kernelVars, samplerVars>>

Least(S) == CHOOSE x \in S : \A y \in S : x <= y

-----------------------------------------------------------------------------
(* Perf rings: PerfEventReader                                             *)

\* perf_event_open and mmap succeed, or there is no reader for the event.
Opened(of) == {[of |-> of, ring |-> <<>>, dropped |-> 0, lost |-> 0, pending |-> None], None}

\* A sample, with its copy of the stack, is larger than the other records.
Size(records) == Len(records) + Cardinality({i \in DOMAIN records : records[i].kind = "sample"})

\* The kernel appends a record; in a full ring it is dropped, and a LOST
\* record precedes the next one that fits.
Written(reader, record) ==
  LET records == IF reader.dropped > 0
                   THEN <<[kind |-> "lost", count |-> reader.dropped], record>>
                   ELSE <<record>>
  IN IF Size(reader.ring) + Size(records) <= RingCapacity
       THEN [reader EXCEPT !.ring = @ \o records, !.dropped = 0]
       ELSE [reader EXCEPT !.dropped = @ + 1]

\* A sample taken outside user mode (abi 0) is none; a 32-bit one is an error.
Parsed(record) == IF record.abi = 0 THEN None ELSE record.sample

\* What a loss or a throttle leaves of the pending sample.
Unclassified(pending) == None

\* A switch record classifies the pending sample it completes.
Completes(record, pending) ==
  /\ pending # None /\ record.out
  /\ pending.time <= record.time
  /\ pending.cpu = record.cpu

\* One record of drain's loop; switches tells the context-switch reader.
ReadRecord(done, record, switches) ==
  CASE done.failed -> done
    [] ~done.failed /\ record.kind = "sample" ->
         IF record.abi = 1 THEN [done EXCEPT !.failed = TRUE]
         ELSE IF switches THEN [done EXCEPT !.pending = Parsed(record)]
         ELSE [done EXCEPT !.latest = IF record.abi = 0 THEN @ ELSE Parsed(record)]
    [] ~done.failed /\ record.kind = "switch" ->
         [done EXCEPT !.pending = None,
                      !.latest = IF Completes(record, done.pending)
                                   THEN [done.pending EXCEPT !.source = "switch", !.by = record.id]
                                   ELSE @]
    [] ~done.failed /\ record.kind = "throttle" -> [done EXCEPT !.pending = Unclassified(@)]
    [] ~done.failed /\ record.kind = "lost" ->
         [done EXCEPT !.pending = Unclassified(@), !.lost = @ + record.count]

\* drain: the records up to the head it read.  A malformed record costs the
\* rest of the ring, the sample found before it included.
Drained(reader, switches) ==
  LET from == [pending |-> reader.pending, lost |-> reader.lost, latest |-> None, failed |-> FALSE]
      done == FoldLeft(LAMBDA acc, record : ReadRecord(acc, record, switches), from, reader.ring)
  IN [reader |-> [reader EXCEPT !.ring = <<>>,
                                !.pending = IF done.failed THEN None ELSE done.pending,
                                !.lost = IF done.failed THEN done.lost + 1 ELSE done.lost],
      sample |-> IF done.failed THEN None ELSE done.latest,
      failed |-> done.failed]

-----------------------------------------------------------------------------
(* The kernel                                                              *)

Live == {t \in Tids : start[t] # 0}
Running(t) == start[t] # 0 /\ cpu[t] # None /\ tracee[t] # "stopped"

\* The reader writes to the ring only while the thread it was opened on lives.
Record(t, event, record) ==
  LET reader == threads[t][event]
  IN threads' = IF threads[t] # None /\ reader # None /\ reader.of = start[t]
                  THEN [threads EXCEPT ![t][event] = Written(reader, record)]
                  ELSE threads

Sample(t, abi, source) ==
  [kind |-> "sample", abi |-> abi,
   sample |-> [time |-> now, cpu |-> cpu[t], of |-> start[t], source |-> source, by |-> 0]]

\* The CPU clock fires on the thread.
Clock(t, abi) ==
  /\ Running(t) /\ sampled[t] = 0 /\ now < MaxTime
  /\ now' = now + 1
  /\ Record(t, "event", Sample(t, abi, "clock"))
  /\ UNCHANGED <<start, born, cpu, sampled, tracee, signal, gone, calm, loopVars>>

\* The thread leaves its CPU: first the sample of the context-switch event,
\* then the switch record.
SwitchSample(t, abi) ==
  /\ Running(t) /\ sampled[t] = 0 /\ now < MaxTime
  /\ now' = now + 1
  /\ sampled' = [sampled EXCEPT ![t] = now]
  /\ Record(t, "switch_event", Sample(t, abi, "clock"))
  /\ UNCHANGED <<start, born, cpu, tracee, signal, gone, calm, loopVars>>

Switch(t, out, on) ==
  [kind |-> "switch", out |-> out, time |-> now, cpu |-> on, id |-> sampled[t]]

SwitchOut(t) ==
  /\ Running(t) /\ sampled[t] # 0
  /\ Record(t, "switch_event", Switch(t, TRUE, cpu[t]))
  /\ cpu' = [cpu EXCEPT ![t] = None]
  /\ sampled' = [sampled EXCEPT ![t] = 0]
  /\ UNCHANGED <<now, start, born, tracee, signal, gone, calm, loopVars>>

SwitchIn(t) ==
  /\ start[t] # 0 /\ cpu[t] = None
  /\ \E c \in Cpus : /\ cpu' = [cpu EXCEPT ![t] = c]
                     /\ Record(t, "switch_event", Switch(t, FALSE, c))
  /\ UNCHANGED <<now, start, born, sampled, tracee, signal, gone, calm, loopVars>>

\* The context-switch event fires too often and is throttled: no sample.
Throttle(t) ==
  /\ Running(t) /\ sampled[t] = 0 /\ now < MaxTime
  /\ now' = now + 1
  /\ Record(t, "switch_event", [kind |-> "throttle"])
  /\ UNCHANGED <<start, born, cpu, sampled, tracee, signal, gone, calm, loopVars>>

Dies(S) ==
  /\ start'  = [t \in Tids |-> IF t \in S THEN 0 ELSE start[t]]
  /\ cpu'    = [t \in Tids |-> IF t \in S THEN None ELSE cpu[t]]
  /\ sampled' = [t \in Tids |-> IF t \in S THEN 0 ELSE sampled[t]]
  /\ signal' = [t \in Tids |-> IF t \in S THEN None ELSE signal[t]]
  \* a traced thread stays a zombie until its tracer has waited for it
  /\ tracee' = [t \in Tids |-> IF t \in S /\ tracee[t] # "free" THEN "dead" ELSE tracee[t]]
  /\ calm' = FALSE
  /\ UNCHANGED <<now, born, samplerVars>>

ThreadExits(t) == start[t] # 0 /\ Dies({t}) /\ UNCHANGED gone
ProcessExits == ~gone /\ gone' = TRUE /\ Dies(Live)

ThreadStarts(t) ==
  /\ ~gone /\ start[t] = 0 /\ tracee[t] = "free" /\ born[t] < MaxStart
  /\ born' = [born EXCEPT ![t] = @ + 1]
  /\ start' = [start EXCEPT ![t] = born'[t]]
  /\ \E c \in Cpus : cpu' = [cpu EXCEPT ![t] = c]
  /\ calm' = FALSE
  /\ UNCHANGED <<now, sampled, tracee, signal, gone, samplerVars>>

SendSignal(t) ==
  /\ start[t] # 0 /\ signal[t] = None
  /\ signal' = [signal EXCEPT ![t] = "pending"]
  /\ UNCHANGED <<now, start, born, cpu, sampled, tracee, gone, calm, samplerVars>>

\* An untraced thread handles its signal.
HandleSignal(t) ==
  /\ signal[t] = "pending" /\ tracee[t] = "free"
  /\ signal' = [signal EXCEPT ![t] = "handled"]
  /\ UNCHANGED <<now, start, born, cpu, sampled, tracee, gone, calm, samplerVars>>

TenSecondsPass ==
  /\ timer = "armed"
  /\ timer' = "due"
  /\ UNCHANGED <<kernelVars, threads, context, phase, todo, stat, alive, guard>>

-----------------------------------------------------------------------------
(* Sampler::poll                                                           *)

NoGuard == [tid |-> None, stopped |-> FALSE, signal |-> None, result |-> None]
Tracked == {t \in Tids : threads[t] # None}

MutantNewer(entry, sample) == TRUE

Newer(entry, sample) == entry.latest = None \/ sample.time > entry.latest.time

\* process_sample: an older sample leaves the entry as it is.
Processed(entry, sample) ==
  IF Newer(entry, sample)
    THEN [entry EXCEPT !.latest = sample, !.epoch = context.epoch, !.maps = context.maps]
    ELSE entry

PollFails ==
  /\ phase = "idle" /\ (gone \/ Cardinality(Live) > ThreadLimit)
  /\ phase' = "ended"
  /\ UNCHANGED <<kernelVars, threads, context, timer, todo, stat, alive, guard>>

Remapped(maps) ==
  IF context.maps = maps THEN context ELSE [epoch |-> context.epoch + 1, maps |-> maps]

PollBegins(maps) ==
  /\ phase = "idle" /\ ~gone /\ Cardinality(Live) <= ThreadLimit
  /\ Remapped(maps).epoch <= MaxEpoch
  /\ context' = Remapped(maps)
  /\ phase' = "threads" /\ todo' = Live /\ alive' = {} /\ calm' = TRUE
  /\ UNCHANGED <<now, start, born, cpu, sampled, tracee, signal, gone, threads, timer, stat, guard>>

\* The thread's stat is read; a thread that has exited meanwhile is skipped.
ReadStat(t) ==
  /\ phase = "threads" /\ todo # {} /\ t = Least(todo)
  /\ IF start[t] = 0
       THEN /\ todo' = todo \ {t}
            /\ UNCHANGED <<phase, stat, alive>>
       ELSE /\ phase' = "drain" /\ stat' = start[t] /\ alive' = alive \cup {t}
            /\ UNCHANGED todo
  /\ UNCHANGED <<kernelVars, threads, context, timer, guard>>

Opening(t) ==
  {[start |-> stat, event |-> e, switch_event |-> s, lost |-> 0,
    setup |-> IF e = None \/ s = None THEN {"setup"} ELSE {}, ptrace |-> {},
    error |-> {}, latest |-> None, epoch |-> 0, maps |-> None] :
   e \in Opened(start[t]), s \in Opened(start[t])}

MutantReused(t) == FALSE

\* The tid is another thread's than the entry's.
Reused(t) == threads[t] # None /\ threads[t].start # stat

Best(samples) == CHOOSE s \in samples : \A o \in samples : o.time <= s.time

\* Both rings are drained and the newest sample processed.
DrainedEntry(entry) ==
  LET readers == {e \in {"event", "switch_event"} : entry[e] # None}
      drained == [e \in readers |-> Drained(entry[e], e = "switch_event")]
      samples == {drained[e].sample : e \in readers} \ {None}
      refreshed == [entry EXCEPT
        !.event = IF "event" \in readers THEN drained["event"].reader ELSE None,
        !.switch_event = IF "switch_event" \in readers THEN drained["switch_event"].reader ELSE None,
        !.lost = IF readers = {} THEN 0
                 ELSE FoldSet(LAMBDA e, sum : drained[e].reader.lost + sum, 0, readers),
        !.error = IF \E e \in readers : drained[e].failed THEN {"perf"}
                                                            ELSE entry.setup \cup entry.ptrace]
  IN IF samples = {} THEN refreshed ELSE Processed(refreshed, Best(samples))

Drain(t) ==
  /\ phase = "drain" /\ t = Least(todo)
  /\ \E entry \in IF threads[t] = None \/ Reused(t) THEN Opening(t) ELSE {threads[t]} :
       threads' = [threads EXCEPT ![t] = DrainedEntry(entry)]
  /\ phase' = "threads" /\ todo' = todo \ {t} /\ stat' = 0
  /\ UNCHANGED <<kernelVars, context, timer, alive, guard>>

\* Threads poll did not see are forgotten; then the capture, when it is due
\* or this poll is bootstrap's.
PollEnds ==
  /\ phase = "threads" /\ todo = {}
  /\ threads' = [t \in Tids |-> IF t \in alive THEN threads[t] ELSE None]
  /\ IF timer = "due" \/ (timer = "unset" /\ ~gone)
       THEN phase' = "capture" /\ todo' = {t \in alive : threads[t] # None}
       ELSE phase' = (IF gone THEN "ended" ELSE "idle") /\ UNCHANGED todo
  /\ UNCHANGED <<kernelVars, context, timer, stat, alive, guard>>

-----------------------------------------------------------------------------
(* Sampler::capture_ptrace and the guard of ptrace.rs                      *)

\* The error of a capture, shown next to the set-up error.
Failed(entry) == [entry EXCEPT !.ptrace = {"ptrace"}, !.error = entry.setup \cup {"ptrace"}]
Cleared(entry) == [entry EXCEPT !.ptrace = {}, !.error = entry.setup]

\* PTRACE_SEIZE: refused for a thread that is gone, or without permission.
Seize(t) ==
  /\ phase = "capture" /\ todo # {} /\ t = Least(todo)
  /\ \/ /\ start[t] # 0
        /\ tracee' = [tracee EXCEPT ![t] = "seized"]
        /\ guard' = [NoGuard EXCEPT !.tid = t]
        /\ threads' = [threads EXCEPT ![t] = Cleared(@)]
        /\ phase' = "interrupt"
        /\ UNCHANGED todo
     \/ /\ threads' = [threads EXCEPT ![t] = Failed(@)]
        /\ todo' = todo \ {t}
        /\ UNCHANGED <<tracee, guard, phase>>
  /\ UNCHANGED <<now, start, born, cpu, sampled, signal, gone, calm, context, timer, stat, alive>>

\* PTRACE_INTERRUPT; on failure the guard is dropped.
Interrupt ==
  /\ phase = "interrupt"
  /\ \/ /\ start[guard.tid] # 0
        /\ phase' = "wait"
     \/ phase' = "drop"
  /\ UNCHANGED <<kernelVars, threads, context, timer, todo, stat, alive, guard>>

MutantStopped(t) ==
  /\ tracee' = [tracee EXCEPT ![t] = "stopped"]
  /\ signal' = [signal EXCEPT ![t] = IF @ = "pending" THEN "held" ELSE @]
  /\ guard' = [guard EXCEPT !.stopped = TRUE]

\* The tracee stops: for its pending signal, which the guard then keeps, or
\* for the interrupt.
Stopped(t) ==
  /\ tracee' = [tracee EXCEPT ![t] = "stopped"]
  /\ signal' = [signal EXCEPT ![t] = IF @ = "pending" THEN "held" ELSE @]
  /\ guard' = [guard EXCEPT !.stopped = TRUE,
                            !.signal = IF signal[t] = "pending" THEN "held" ELSE None]

\* PtraceGuard::wait: the stop, or the exit status of a dead thread.
Wait ==
  LET t == guard.tid
  IN /\ phase = "wait"
     /\ \/ /\ tracee[t] = "seized"
           /\ Stopped(t)
           /\ phase' = "read"
        \/ /\ tracee[t] = "dead"
           /\ tracee' = [tracee EXCEPT ![t] = "free"]
           /\ phase' = "drop"
           /\ UNCHANGED <<signal, guard>>
     /\ UNCHANGED <<now, start, born, cpu, sampled, gone, calm, threads, context, timer, todo,
                    stat, alive>>

\* Registers and stack of the stopped thread; the reads fail when it was
\* killed, and may fail otherwise.
ReadRegisters ==
  LET t == guard.tid
  IN /\ phase = "read"
     /\ \/ /\ start[t] # 0 /\ now < MaxTime
           /\ guard' = [guard EXCEPT !.result = [time |-> now, cpu |-> None, of |-> start[t],
                                                 source |-> "ptrace", by |-> 0]]
           /\ now' = now + 1
        \/ UNCHANGED <<now, guard>>
     /\ phase' = "drop"
     /\ UNCHANGED <<start, born, cpu, sampled, tracee, signal, gone, calm, threads, context, timer,
                    todo, stat, alive>>

\* PtraceGuard::drop of a guard that has not seen a stop: interrupt and wait.
DropRunning ==
  LET t == guard.tid
  IN /\ phase = "drop" /\ ~guard.stopped /\ tracee[t] # "free"
     /\ \/ tracee[t] = "seized" /\ Stopped(t)
        \/ /\ tracee[t] = "dead"
           /\ tracee' = [tracee EXCEPT ![t] = "free"]
           /\ UNCHANGED <<signal, guard>>
     /\ UNCHANGED <<now, start, born, cpu, sampled, gone, calm, threads, context, timer, phase,
                    todo, stat, alive>>

\* PTRACE_DETACH hands the kept signal back; it fails for a thread killed
\* while it was stopped.  Then capture_ptrace takes the result.
Detach ==
  LET t == guard.tid
  IN /\ phase = "drop" /\ (guard.stopped \/ tracee[t] = "free")
     /\ tracee' = [tracee EXCEPT ![t] = IF @ = "stopped" THEN "free" ELSE @]
     /\ signal' = [signal EXCEPT ![t] = IF guard.signal = "held" /\ @ = "held" THEN "handled" ELSE @]
     /\ threads' = [threads EXCEPT ![t] = IF guard.result = None THEN Failed(@)
                                                                    ELSE Processed(@, guard.result)]
     /\ guard' = NoGuard /\ phase' = "capture" /\ todo' = todo \ {t}
     /\ UNCHANGED <<now, start, born, cpu, sampled, gone, calm, context, timer, stat, alive>>

\* The next capture is due ten seconds after this one, failed or not.
CaptureEnds ==
  /\ phase = "capture" /\ todo = {}
  /\ timer' = "armed"
  /\ phase' = IF gone THEN "ended" ELSE "idle"
  /\ UNCHANGED <<kernelVars, threads, context, todo, stat, alive, guard>>

\* The contexts the server is given with the samples.
MappingSnapshots ==
  {[epoch |-> threads[t].epoch, maps |-> threads[t].maps] :
   t \in {u \in Tracked : threads[u].latest # None}}

-----------------------------------------------------------------------------
Init ==
  /\ now = 1
  /\ start = [t \in Tids |-> 1] /\ born = start
  /\ cpu \in [Tids -> Cpus]
  /\ sampled = [t \in Tids |-> 0] /\ tracee = [t \in Tids |-> "free"]
  /\ signal = [t \in Tids |-> None] /\ gone = FALSE /\ calm = FALSE
  /\ threads = [t \in Tids |-> None]
  /\ context = [epoch |-> 0, maps |-> None]
  /\ timer = "unset" /\ phase = "idle" /\ todo = {} /\ stat = 0 /\ alive = {} /\ guard = NoGuard

Kernel ==
  \/ \E t \in Tids :
       \/ \E abi \in 0..2 : Clock(t, abi) \/ SwitchSample(t, abi)
       \/ SwitchOut(t) \/ SwitchIn(t) \/ Throttle(t)
       \/ ThreadExits(t) \/ ThreadStarts(t) \/ SendSignal(t) \/ HandleSignal(t)
  \/ ProcessExits \/ TenSecondsPass

Poll ==
  \/ PollFails \/ PollEnds \/ (\E maps \in MapSets : PollBegins(maps))
  \/ \E t \in Tids : ReadStat(t) \/ Drain(t)

Capture ==
  \/ \E t \in Tids : Seize(t)
  \/ Interrupt \/ Wait \/ ReadRegisters \/ DropRunning \/ Detach \/ CaptureEnds

Next == Kernel \/ Poll \/ Capture

Spec == Init /\ [][Next]_vars

-----------------------------------------------------------------------------
(* Properties                                                              *)

\* A sample called a context switch was completed by its own switch-out:
\* neither a ring that lost records nor a throttled event lets drain pair an
\* old sample with a later switch.
SwitchIsOwn ==
  \A t \in Tracked : threads[t].latest # None /\ threads[t].latest.source = "switch" =>
    threads[t].latest.by = threads[t].latest.time

\* After a poll during which no thread came or went, every entry is of the
\* thread that has the tid, and its sample too: what an earlier owner of the
\* tid left in the entry or in its rings is not shown.
SamplesOfOwner ==
  phase = "idle" /\ calm => \A t \in Tracked :
    /\ threads[t].start = start[t]
    /\ threads[t].latest # None => threads[t].latest.of = start[t]

\* Whatever a capture met, once it is over no thread is left attached or
\* stopped, and no signal taken from a living thread is kept from it.
TraceesReleased ==
  phase \in {"idle", "threads", "drain", "capture", "ended"} =>
    \A t \in Tids : tracee[t] \in {"free", "dead"} /\ signal[t] # "held"

\* A sample that carries the current epoch was taken under the current maps:
\* the server symbolizes it with the maps it has for that epoch.
EpochNamesMaps == \A c \in MappingSnapshots : c.epoch = context.epoch => c.maps = context.maps

\* While a thread lives, the sample shown for it never goes back in time,
\* whichever of the two rings and ptrace it comes from, and no loss is
\* uncounted again.
Advances ==
  \A t \in Tids :
    threads[t] # None /\ threads'[t] # None /\ threads'[t].start = threads[t].start =>
      /\ threads[t].latest # None =>
           threads'[t].latest # None /\ threads'[t].latest.time >= threads[t].latest.time
      /\ threads'[t].lost >= threads[t].lost
SamplesAdvance == [][Advances]_vars
=============================================================================
