----------------------------- MODULE CpuActivity -----------------------------
(***************************************************************************)
(* CPU time per process: the scheduler hook's slots and totals             *)
(* (sched.bpf.c), their two reads by the helper (system/sched.rs) and the  *)
(* differences the server shows per session (ActivityProcessor::cpu).  The *)
(* count of switches, kept next to the runtime, is left out.               *)
(***************************************************************************)
EXTENDS Naturals, FiniteSets, FiniteSetsExt

CONSTANTS
  Procs, Cpus,
  MaxTime,   \* bound on the clock
  None

VARIABLES
  now,
  slot,      \* cpu_current: the process on the CPU and since when
  totals,    \* cpu_totals
  current,   \* what collect has read of the slots; None: not reading
  known,     \* ObservationProcessor.known
  previous,  \* ActivityProcessor.previous_cpu
  running,   \* ActivityProcessor.previous_running
  \* what really happened, and what was shown of it
  done,      \* CPU time of intervals that ended
  twice,     \* CPU time the helper may have read in a slot and in the totals
  shown,     \* sum of runtime_ns of the session's batches
  first,     \* CPU time when the process was first seen; None: not seen
  until,     \* CPU time up to which the last batch accounts
  whole      \* nothing was lost of the process's counters since it was seen

kernelVars == <<now, slot, totals, done>>
serverVars == <<known, previous, running, shown, first, until>>
vars == <<kernelVars, current, serverVars, twice, whole>>

Free == [proc |-> None, since |-> 0]

\* The CPU time of p according to slots and a table of ended intervals.
Ongoing(slots, p, at) ==
  FoldSet(LAMBDA c, sum : sum + (at - slots[c].since), 0,
          {c \in Cpus : slots[c].proc = p /\ slots[c].since <= at})
Real(p) == done[p] + Ongoing(slot, p, now)

-----------------------------------------------------------------------------
(* The kernel                                                              *)

Tick ==
  /\ now < MaxTime
  /\ now' = now + 1
  /\ UNCHANGED <<slot, totals, done, current, serverVars, twice, whole>>

\* sched_switch: the process that leaves is charged.
Schedule(c, next) ==
  LET p == slot[c].proc
      charged(t) == t + (now - slot[c].since)
  IN /\ next # p
     /\ slot' = [slot EXCEPT ![c] = [proc |-> next, since |-> now]]
     /\ IF p = None THEN UNCHANGED <<totals, done>>
        ELSE /\ totals' = [totals EXCEPT ![p] = charged(IF @ = None THEN 0 ELSE @)]
             /\ done' = [done EXCEPT ![p] = charged(@)]
     /\ UNCHANGED <<now, current, serverVars, twice, whole>>

\* The LRU map makes room for another process.
Evict(p) ==
  /\ totals[p] # None
  /\ totals' = [totals EXCEPT ![p] = None]
  /\ whole' = [whole EXCEPT ![p] = FALSE]
  /\ UNCHANGED <<now, slot, done, current, serverVars, twice>>

-----------------------------------------------------------------------------
(* The helper: CpuActivityCollector::collect                               *)

\* drain takes the time, then collect reads the slots ...
ReadCurrent ==
  /\ current = None
  /\ current' = [now |-> now, slots |-> slot, real |-> [p \in Procs |-> Real(p)]]
  /\ UNCHANGED <<kernelVars, serverVars, twice, whole>>

\* ... and then the totals: an interval of the slots may have ended meanwhile.
Overlap(p) ==
  FoldSet(LAMBDA c, sum : sum + (current.now - current.slots[c].since), 0,
          {c \in Cpus : current.slots[c].proc = p /\ slot[c] # current.slots[c]})

\* The counters of the activity event the helper sends; a failed read sends
\* the default.  The ghosts say between which CPU times they lie.
Collected ==
  [now |-> current.now, slots |-> current.slots, totals |-> totals,
   low |-> current.real, high |-> [p \in Procs |-> Real(p)]]
Default ==
  [now |-> 0, slots |-> [c \in Cpus |-> Free], totals |-> [p \in Procs |-> None],
   low |-> [p \in Procs |-> 0], high |-> [p \in Procs |-> 0]]

-----------------------------------------------------------------------------
(* The server                                                              *)

\* The processes of a snapshot; a scan may miss one.
Snapshot ==
  /\ \E seen \in SUBSET Procs :
       /\ known' = seen
       /\ whole' = [p \in Procs |-> whole[p] /\ (p \in seen \/ first[p] = None)]
  /\ UNCHANGED <<kernelVars, current, previous, running, shown, first, until, twice>>

MutantMonus(a, b) == IF a > b THEN a - b ELSE a

\* saturating_sub
Monus(a, b) == IF a > b THEN a - b ELSE 0

RunningOn(raw, p) == {c \in Cpus : raw.slots[c].proc = p /\ raw.slots[c].since <= raw.now}

\* Totals with the time of the threads that still run.
Cumulative(raw, p) ==
  (IF raw.totals[p] = None THEN 0 ELSE raw.totals[p]) + Ongoing(raw.slots, p, raw.now)

\* What the totals are compared with: a process seen for the first time has
\* used nothing yet.
Baseline(raw, p) == IF previous[p] = None THEN Cumulative(raw, p) ELSE previous[p]

\* ActivityProcessor::cpu
Process(raw) ==
  LET counted == {p \in known : raw.totals[p] # None \/ RunningOn(raw, p) # {}}
      delta(p) == Monus(Cumulative(raw, p), Baseline(raw, p))
  IN /\ shown' = [p \in Procs |-> shown[p] + IF p \in counted THEN delta(p) ELSE 0]
     /\ previous' = [p \in Procs |-> IF p \in counted THEN Cumulative(raw, p) ELSE None]
     /\ running' = {p \in counted : RunningOn(raw, p) # {}}
     /\ first' = [p \in Procs |-> IF p \in counted /\ first[p] = None THEN raw.high[p] ELSE first[p]]
     /\ until' = [p \in Procs |-> IF p \in counted THEN raw.low[p] ELSE until[p]]
     /\ UNCHANGED known

\* The session's poll gets the event, or its receiver lags and misses it.
ReadTotals ==
  /\ current # None
  /\ Process(Collected) \/ UNCHANGED serverVars
  /\ twice' = [p \in Procs |-> twice[p] + Overlap(p)]
  /\ current' = None
  /\ UNCHANGED <<kernelVars, whole>>

CollectFails ==
  /\ current # None
  /\ Process(Default) \/ UNCHANGED serverVars
  /\ whole' = [p \in Procs |-> FALSE]
  /\ current' = None
  /\ UNCHANGED <<kernelVars, twice>>

-----------------------------------------------------------------------------
Init ==
  /\ now = 0 /\ slot = [c \in Cpus |-> Free] /\ totals = [p \in Procs |-> None]
  /\ done = [p \in Procs |-> 0]
  /\ current = None /\ known = {}
  /\ previous = [p \in Procs |-> None] /\ running = {}
  /\ twice = [p \in Procs |-> 0] /\ shown = [p \in Procs |-> 0]
  /\ first = [p \in Procs |-> None] /\ until = [p \in Procs |-> 0]
  /\ whole = [p \in Procs |-> TRUE]

Next ==
  \/ Tick
  \/ \E c \in Cpus, p \in Procs \cup {None} : Schedule(c, p)
  \/ \E p \in Procs : Evict(p)
  \/ ReadCurrent \/ ReadTotals \/ CollectFails \/ Snapshot

Spec == Init /\ [][Next]_vars

-----------------------------------------------------------------------------
(* Properties                                                              *)

\* No CPU time is invented: what the batches add up to is CPU time the process
\* has used, but for an interval that ended between the helper's two reads.
\* Evictions, lost events, failed reads and scans that miss the process only
\* lose time.
RuntimeReal == \A p \in Procs : shown[p] <= Real(p) + twice[p]

\* As long as its counters were read and kept, a process's batches account for
\* its CPU time since it was first seen, although activity events get lost on
\* the way to the session; again but for an interval that was read twice.
RuntimeWhole ==
  \A p \in Procs : whole[p] /\ first[p] # None => shown[p] + first[p] + twice[p] >= until[p]
=============================================================================
