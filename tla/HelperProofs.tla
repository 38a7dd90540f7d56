---------------------------- MODULE HelperProofs ----------------------------
(***************************************************************************)
(* Proofs about the helper and what keeps it running: the observations of  *)
(* processes, the resolver threads and the life cycle of server and        *)
(* helper.  The theorems about the latter two are about the component      *)
(* alone, for all values of its constants, and about the behaviours of     *)
(* MCHelper, where it is one of several.                                   *)
(***************************************************************************)
EXTENDS MCHelper, FiniteSetTheorems, SequenceTheorems, TLAPS

-----------------------------------------------------------------------------
(* ProcessMonitor: permits, exits and handles.                             *)

\* The observations that hold a permit.
Permitted == {o \in Observations : phase[o] \in Permit}

\* viewers counts the permits, and only an observation that still has one is
\* being polled.
Counted ==
  /\ IsFiniteSet(Permitted) /\ viewers = Cardinality(Permitted)
  /\ polling \in Observations => phase[polling] = "open"

\* A collector ends because its permit was dropped, because it published the
\* exit, or because the monitor was stopped.
EndsForReason ==
  \A o \in Observations :
    /\ phase[o] \in Permit \cup {"free"} => ~cancelled[o]
    /\ thread[o] = "exiting" => exited[o]
    /\ thread[o] = "done" /\ phase[o] = "open" => exited[o] \/ stopped

\* The collectors that have started and not returned.
Collecting == {o \in Observations : thread[o] \notin {"none", "done"}}

\* The monitor holds the handle of every running collector, until the main
\* thread takes them all.
HandlesHeld ==
  /\ main # "serving" => stopped
  /\ main \in {"serving", "stopped"} => Collecting \subseteq workers
  /\ main = "joining" => Collecting \subseteq joining
  /\ main = "joined" => Collecting = {}

\* The inductive strengthening of ProcessViewers.
Inv == TypeOK /\ Counted /\ EndsForReason /\ EndShown /\ HandlesHeld

-----------------------------------------------------------------------------
(* Types and the count of the permits.                                     *)

\* What an observation can be after its permit is gone.
Gone == {"refused", "closed", "ended"}

\* Dropping a permit discounts the one observation that held it.
LEMMA ReleaseCounts ==
  ASSUME ViewerLimit \in Nat, TypeOK, Counted, NEW o \in Observations,
         phase[o] \in Permit, NEW to \in Gone, Release(o, to)
  PROVE  /\ IsFiniteSet(Permitted') /\ viewers' = Cardinality(Permitted')
         /\ viewers' \in 0..ViewerLimit
         /\ phase'[o] = to /\ \A u \in Observations \ {o} : phase'[u] = phase[u]
         /\ phase' \in [Observations -> {"free", "reserved", "captured", "open", "refused",
                                         "closed", "ended"}]
         /\ cancelled' \in [Observations -> BOOLEAN]
         /\ \A u \in Observations \ {o} : cancelled'[u] = cancelled[u]
  <1>1. /\ phase' = [phase EXCEPT ![o] = to] /\ cancelled' = [cancelled EXCEPT ![o] = TRUE]
        /\ viewers' = viewers - 1
    BY DEF Release
  <1>2. phase'[o] = to /\ \A u \in Observations \ {o} : phase'[u] = phase[u]
    BY <1>1 DEF TypeOK
  <1>3. Permitted' = Permitted \ {o} /\ o \in Permitted
    BY <1>2 DEF Permitted, Permit, Gone
  <1>4. IsFiniteSet(Permitted') /\ Cardinality(Permitted') = Cardinality(Permitted) - 1
    BY <1>3, FS_RemoveElement DEF Counted
  <1>5. viewers # 0
    BY <1>3, FS_EmptySet DEF Counted
  <1>6. viewers' \in 0..ViewerLimit
    BY <1>1, <1>5 DEF TypeOK
  <1>7. viewers' = Cardinality(Permitted')
    BY <1>1, <1>4 DEF Counted
  <1>8. phase' \in [Observations -> {"free", "reserved", "captured", "open", "refused",
                                     "closed", "ended"}]
    BY <1>1 DEF TypeOK, Gone
  <1>9. cancelled' \in [Observations -> BOOLEAN]
        /\ \A u \in Observations \ {o} : cancelled'[u] = cancelled[u]
    BY <1>1 DEF TypeOK
  <1> QED
    BY <1>2, <1>4, <1>6, <1>7, <1>8, <1>9

\* Moving an observation among the phases that hold a permit counts the same.
LEMMA KeepCounts ==
  ASSUME TypeOK, Counted, NEW o \in Observations, phase[o] \in {"reserved", "captured"},
         NEW to \in {"captured", "open"}, phase' = [phase EXCEPT ![o] = to],
         UNCHANGED <<viewers, polling>>
  PROVE  Counted'
  <1>1. phase'[o] = to /\ \A u \in Observations \ {o} : phase'[u] = phase[u]
    BY DEF TypeOK
  <1>2. Permitted' = Permitted
    BY <1>1 DEF Permitted, Permit
  <1>3. polling \in Observations => phase'[polling] = "open"
    BY <1>1 DEF Counted
  <1> QED
    BY <1>2, <1>3 DEF Counted

\* Every step keeps the types and the count.
LEMMA CountStep ==
  ASSUME ViewerLimit \in Nat, Nobody \notin Observations, TypeOK, Counted, [Next]_vars
  PROVE  TypeOK' /\ Counted'
  <1>0. ASSUME UNCHANGED <<viewers, phase, polling>> PROVE Counted'
    BY <1>0 DEF Counted, Permitted
  <1>1. CASE Exit
    BY <1>0, <1>1 DEF Exit, TypeOK, dispatchVars, threadVars, mainVars
  <1>2. ASSUME NEW o \in Observations, Reserve(o) PROVE TypeOK' /\ Counted'
    <2>1. /\ phase[o] = "free" /\ phase' = [phase EXCEPT ![o] = "reserved"]
          /\ viewers' = viewers + 1 /\ viewers < ViewerLimit
          /\ polling = Nobody /\ polling' = polling
      BY <1>2 DEF Reserve, MayReserve, Idle
    <2>2. phase'[o] = "reserved" /\ \A u \in Observations \ {o} : phase'[u] = phase[u]
      BY <2>1 DEF TypeOK
    <2>3. Permitted' = Permitted \cup {o} /\ o \notin Permitted
      BY <2>1, <2>2 DEF Permitted, Permit
    <2>4. IsFiniteSet(Permitted') /\ Cardinality(Permitted') = Cardinality(Permitted) + 1
      BY <2>3, FS_AddElement DEF Counted
    <2>5. Counted'
      BY <2>1, <2>4 DEF Counted
    <2>6. viewers' \in 0..ViewerLimit
      BY <2>1 DEF TypeOK
    <2>7. phase' \in [Observations -> {"free", "reserved", "captured", "open", "refused",
                                       "closed", "ended"}]
      BY <2>1 DEF TypeOK
    <2> QED
      BY <1>2, <2>5, <2>6, <2>7 DEF Reserve, TypeOK, threadVars, mainVars
  <1>3. ASSUME NEW o \in Observations, phase[o] \in Permit, NEW to \in Gone, Release(o, to),
               polling' \in {polling, Nobody}, polling' # o,
               UNCHANGED <<alive, workers, threadVars, mainVars>>,
               fresh' \in [Observations -> BOOLEAN], shown' \in [Observations -> BOOLEAN]
        PROVE  TypeOK' /\ Counted'
    <2>1. Counted'
      BY <1>3, ReleaseCounts DEF Counted
    <2>2. TypeOK'
      BY <1>3, ReleaseCounts DEF TypeOK, threadVars, mainVars
    <2> QED
      BY <2>1, <2>2
  <1>4. ASSUME NEW o \in Observations, Capture(o) PROVE TypeOK' /\ Counted'
    <2>0. phase[o] = "reserved" /\ polling # o /\ polling' = polling
      BY <1>4 DEF Capture, Counted
    <2>1. CASE Release(o, "refused")
      BY <1>3, <1>4, <2>0, <2>1 DEF Capture, Permit, Gone, TypeOK
    <2>2. CASE ~Release(o, "refused")
      <3>1. phase' = [phase EXCEPT ![o] = "captured"] /\ UNCHANGED <<viewers, cancelled>>
        BY <1>4, <2>2 DEF Capture
      <3>2. Counted'
        BY <2>0, <3>1, KeepCounts
      <3> QED
        BY <1>4, <3>1, <3>2 DEF Capture, TypeOK, threadVars, mainVars
    <2> QED
      BY <2>1, <2>2
  <1>5. ASSUME NEW o \in Observations, Spawn(o) PROVE TypeOK' /\ Counted'
    <2>0. phase[o] = "captured" /\ polling # o /\ polling' = polling
      BY <1>5 DEF Spawn, Counted
    <2>1. CASE stopped
      BY <1>3, <1>5, <2>0, <2>1 DEF Spawn, Permit, Gone, TypeOK, threadVars
    <2>2. CASE ~stopped
      <3>1. /\ phase' = [phase EXCEPT ![o] = "open"] /\ UNCHANGED <<viewers, cancelled>>
            /\ workers' = (workers \ Finished) \cup {o}
            /\ thread' = [thread EXCEPT ![o] = "wait"]
        BY <1>5, <2>2 DEF Spawn
      <3>2. Counted'
        BY <2>0, <3>1, KeepCounts
      <3> QED
        BY <1>5, <3>1, <3>2 DEF Spawn, TypeOK, mainVars
    <2> QED
      BY <2>1, <2>2
  <1>6. ASSUME NEW o \in Observations, AcceptPoll(o) PROVE TypeOK' /\ Counted'
    <2>1. Counted'
      BY <1>6 DEF AcceptPoll, Counted, Permitted
    <2> QED
      BY <1>6, <2>1 DEF AcceptPoll, TypeOK, threadVars, mainVars
  <1>7. ASSUME NEW o \in Observations, Poll(o) PROVE TypeOK' /\ Counted'
    <2>0. phase[o] = "open" /\ polling' = Nobody /\ polling' # o
      BY <1>7 DEF Poll, Counted
    <2>1. fresh' \in [Observations -> BOOLEAN] /\ shown' \in [Observations -> BOOLEAN]
      <3>1. /\ fresh' = [fresh EXCEPT ![o] = FALSE] \/ fresh' = fresh
            /\ shown' = [shown EXCEPT ![o] = exited[o]] \/ shown' = shown
        BY <1>7 DEF Poll, Show
      <3>2. exited[o] \in BOOLEAN
        BY DEF TypeOK
      <3> QED
        BY <3>1, <3>2 DEF TypeOK
    <2>2. CASE (fresh[o] \/ Dropped(o)) /\ (Dropped(o) \/ exited[o])
      BY <1>3, <1>7, <2>0, <2>1, <2>2 DEF Poll, Permit, Gone
    <2>3. CASE ~((fresh[o] \/ Dropped(o)) /\ (Dropped(o) \/ exited[o]))
      <3>1. UNCHANGED <<viewers, phase, cancelled>>
        BY <1>7, <2>3 DEF Poll
      <3>2. Counted'
        BY <2>0, <3>1 DEF Counted, Permitted
      <3> QED
        BY <1>7, <2>0, <2>1, <3>1, <3>2 DEF Poll, TypeOK, threadVars, mainVars
    <2> QED
      BY <2>2, <2>3
  <1>8. ASSUME NEW o \in Observations, Close(o) PROVE TypeOK' /\ Counted'
    <2>1. polling' = polling /\ polling' # o /\ phase[o] \in Permit
      BY <1>8 DEF Close, Idle, Permit
    <2> QED
      BY <1>3, <1>8, <2>1 DEF Close, Gone, TypeOK
  <1>9. ASSUME NEW o \in Observations, Collector(o) PROVE TypeOK' /\ Counted'
    <2>1. Counted'
      BY <1>0, <1>9 DEF Collector, Wake, CaptureSample, Publish, Return, dispatchVars
    <2>2. CASE Wake(o)
      BY <2>1, <2>2 DEF Wake, TypeOK, dispatchVars, mainVars
    <2>3. CASE CaptureSample(o)
      BY <2>1, <2>3 DEF CaptureSample, TypeOK, dispatchVars, mainVars
    <2>4. CASE Publish(o)
      BY <2>1, <2>4 DEF Publish, TypeOK, dispatchVars, mainVars
    <2>5. CASE Return(o)
      BY <2>1, <2>5 DEF Return, TypeOK, dispatchVars, mainVars
    <2> QED
      BY <1>9, <2>2, <2>3, <2>4, <2>5 DEF Collector
  <1>10. CASE Stop \/ TakeHandles \/ Joined
    BY <1>0, <1>10 DEF Stop, TakeHandles, Joined, TypeOK, dispatchVars, threadVars
  <1>11. CASE UNCHANGED vars
    BY <1>0, <1>11 DEF vars, TypeOK, dispatchVars, threadVars, mainVars
  <1> QED
    BY <1>1, <1>2, <1>4, <1>5, <1>6, <1>7, <1>8, <1>9, <1>10, <1>11 DEF Next, Dispatch

\* Initially there is no permit.
LEMMA CountInit ==
  ASSUME ViewerLimit \in Nat, Nobody \notin Observations, Init
  PROVE  TypeOK /\ Counted
  <1>1. Permitted = {}
    BY DEF Init, Permitted, Permit
  <1>2. Counted
    BY <1>1, FS_EmptySet DEF Init, Counted
  <1>3. TypeOK
    <2>1. viewers \in 0..ViewerLimit
      BY DEF Init
    <2>2. /\ phase \in [Observations -> {"free", "reserved", "captured", "open", "refused",
                                         "closed", "ended"}]
          /\ thread \in [Observations -> {"none", "wait", "capture", "publish", "exiting", "done"}]
          /\ sample \in [Observations -> {"ok", "failed", "exited"}]
      BY DEF Init
    <2>3. /\ cancelled \in [Observations -> BOOLEAN] /\ exited \in [Observations -> BOOLEAN]
          /\ fresh \in [Observations -> BOOLEAN] /\ shown \in [Observations -> BOOLEAN]
      BY DEF Init
    <2>4. /\ alive \in BOOLEAN /\ stopped \in BOOLEAN /\ workers \subseteq Observations
          /\ polling \in Observations \cup {Nobody} /\ joining \subseteq Observations
          /\ main \in {"serving", "stopped", "joining", "joined"}
      BY DEF Init
    <2> QED
      BY <2>1, <2>2, <2>3, <2>4 DEF TypeOK
  <1> QED
    BY <1>2, <1>3

\* The monitor's variables keep their types; in particular the viewers that
\* reserve counts never exceed the limit and never fall below zero.
THEOREM TypeCorrect ==
  ASSUME ViewerLimit \in Nat, Nobody \notin Observations
  PROVE  Spec => []TypeOK
  <1>1. Init => TypeOK /\ Counted
    BY CountInit
  <1>2. TypeOK /\ Counted /\ [Next]_vars => TypeOK' /\ Counted'
    BY CountStep
  <1> QED
    BY <1>1, <1>2, PTL DEF Spec

-----------------------------------------------------------------------------
(* The end of an observation and of its collector.                         *)

\* Every step keeps the reasons for which a collector ends, so that a stream
\* the helper ends has shown the exit.
LEMMA EndStep ==
  ASSUME TypeOK, TypeOK', Counted, EndsForReason, EndShown, [Next]_vars
  PROVE  EndsForReason' /\ EndShown'
  <1>0. ASSUME UNCHANGED <<phase, cancelled, shown, thread, exited>>, stopped => stopped'
        PROVE  EndsForReason' /\ EndShown'
    BY <1>0 DEF EndsForReason, EndShown
  <1>1. CASE Exit \/ TakeHandles \/ Joined \/ Stop
    BY <1>0, <1>1 DEF Exit, TakeHandles, Joined, Stop, dispatchVars, threadVars, mainVars
  <1>2. ASSUME NEW o \in Observations, AcceptPoll(o) PROVE EndsForReason' /\ EndShown'
    BY <1>0, <1>2 DEF AcceptPoll, threadVars, mainVars
  <1>3. ASSUME NEW o \in Observations, Reserve(o) PROVE EndsForReason' /\ EndShown'
    <2>1. phase'[o] = "reserved" /\ \A u \in Observations \ {o} : phase'[u] = phase[u]
      BY <1>3 DEF Reserve, TypeOK
    <2>2. UNCHANGED <<cancelled, shown, thread, exited, stopped>>
      BY <1>3 DEF Reserve, threadVars, mainVars
    <2>3. ~cancelled[o]
      BY <1>3 DEF Reserve, EndsForReason
    <2> QED
      BY <2>1, <2>2, <2>3 DEF EndsForReason, EndShown
  <1>4. ASSUME NEW o \in Observations, NEW to \in Gone, Release(o, to),
               to = "ended" => shown'[o] \/ stopped,
               \A u \in Observations \ {o} : shown'[u] = shown[u],
               UNCHANGED <<thread, exited, stopped>>
        PROVE  EndsForReason' /\ EndShown'
    <2>1. /\ phase'[o] = to
          /\ \A u \in Observations \ {o} : phase'[u] = phase[u] /\ cancelled'[u] = cancelled[u]
      BY <1>4 DEF Release, TypeOK
    <2>2. ASSUME NEW u \in Observations
          PROVE  /\ phase'[u] \in Permit \cup {"free"} => ~cancelled'[u]
                 /\ thread'[u] = "exiting" => exited'[u]
                 /\ thread'[u] = "done" /\ phase'[u] = "open" => exited'[u] \/ stopped'
                 /\ phase'[u] = "ended" => shown'[u] \/ stopped'
      <3>1. CASE u = o
        BY <1>4, <2>1, <3>1 DEF EndsForReason, Gone, Permit
      <3>2. CASE u # o
        BY <1>4, <2>1, <3>2 DEF EndsForReason, EndShown
      <3> QED
        BY <3>1, <3>2
    <2> QED
      BY <2>2 DEF EndsForReason, EndShown
  <1>5. ASSUME NEW o \in Observations, NEW to \in {"captured", "open"},
               phase[o] \in {"reserved", "captured"}, phase' = [phase EXCEPT ![o] = to],
               UNCHANGED <<cancelled, shown, exited, stopped>>,
               thread'[o] \notin {"done", "exiting"} \/ (to = "captured" /\ thread'[o] = thread[o]),
               \A u \in Observations \ {o} : thread'[u] = thread[u]
        PROVE  EndsForReason' /\ EndShown'
    <2>1. phase'[o] = to /\ \A u \in Observations \ {o} : phase'[u] = phase[u]
      BY <1>5 DEF TypeOK
    <2> QED
      BY <1>5, <2>1 DEF EndsForReason, EndShown, Permit
  <1>6. ASSUME NEW o \in Observations, Capture(o) PROVE EndsForReason' /\ EndShown'
    <2>1. CASE Release(o, "refused")
      BY <1>4, <1>6, <2>1 DEF Capture, Gone, threadVars, mainVars
    <2>2. CASE ~Release(o, "refused")
      BY <1>5, <1>6, <2>2 DEF Capture, threadVars, mainVars
    <2> QED
      BY <2>1, <2>2
  <1>7. ASSUME NEW o \in Observations, Spawn(o) PROVE EndsForReason' /\ EndShown'
    <2>1. CASE stopped
      BY <1>4, <1>7, <2>1 DEF Spawn, Gone, mainVars
    <2>2. CASE ~stopped
      <3>1. thread'[o] = "wait" /\ \A u \in Observations \ {o} : thread'[u] = thread[u]
        BY <1>7, <2>2 DEF Spawn, TypeOK
      <3> QED
        BY <1>5, <1>7, <2>2, <3>1 DEF Spawn, mainVars
    <2> QED
      BY <2>1, <2>2
  <1>8. ASSUME NEW o \in Observations, Poll(o) PROVE EndsForReason' /\ EndShown'
    <2>0. phase[o] = "open" /\ UNCHANGED <<thread, exited, stopped>>
      BY <1>8 DEF Poll, Counted, threadVars, mainVars
    <2>1. \A u \in Observations \ {o} : shown'[u] = shown[u]
      BY <1>8 DEF Poll, TypeOK
    <2>2. CASE (fresh[o] \/ Dropped(o)) /\ (Dropped(o) \/ exited[o])
      <3>1. Release(o, "ended") /\ shown' = [shown EXCEPT ![o] = exited[o]]
        BY <1>8, <2>2 DEF Poll, Show
      <3>2. exited[o] \/ stopped
        BY <2>0, <2>2 DEF EndsForReason, Dropped
      <3>3. shown'[o] \/ stopped
        BY <3>1, <3>2 DEF TypeOK
      <3> QED
        BY <1>4, <2>0, <2>1, <3>1, <3>3 DEF Gone
    <2>3. CASE ~((fresh[o] \/ Dropped(o)) /\ (Dropped(o) \/ exited[o]))
      <3>1. UNCHANGED <<phase, cancelled>>
        BY <1>8, <2>3 DEF Poll
      <3> QED
        BY <2>0, <2>1, <3>1 DEF EndsForReason, EndShown
    <2> QED
      BY <2>2, <2>3
  <1>9. ASSUME NEW o \in Observations, Close(o) PROVE EndsForReason' /\ EndShown'
    BY <1>4, <1>9 DEF Close, Gone, threadVars, mainVars
  <1>10. ASSUME NEW o \in Observations, UNCHANGED <<phase, cancelled, shown, stopped>>,
                thread'[o] = "exiting" => exited'[o],
                thread'[o] = "done" /\ phase[o] = "open" => exited'[o] \/ stopped,
                \A u \in Observations \ {o} : thread'[u] = thread[u] /\ exited'[u] = exited[u]
         PROVE  EndsForReason' /\ EndShown'
    BY <1>10 DEF EndsForReason, EndShown
  <1>11. ASSUME NEW o \in Observations, Wake(o) PROVE EndsForReason' /\ EndShown'
    <2>1. /\ thread'[o] \in {"capture", "done"}
          /\ thread'[o] = "done" => stopped \/ cancelled[o] \/ phase[o] # "open"
          /\ \A u \in Observations \ {o} : thread'[u] = thread[u]
          /\ UNCHANGED <<phase, cancelled, shown, stopped, exited>>
      BY <1>11 DEF Wake, TypeOK, dispatchVars, mainVars
    <2>2. phase[o] = "open" => ~cancelled[o]
      BY DEF EndsForReason, Permit
    <2> QED
      BY <1>10, <2>1, <2>2
  <1>12. ASSUME NEW o \in Observations, CaptureSample(o) PROVE EndsForReason' /\ EndShown'
    <2>1. /\ thread'[o] = "publish" /\ \A u \in Observations \ {o} : thread'[u] = thread[u]
          /\ UNCHANGED <<phase, cancelled, shown, stopped, exited>>
      BY <1>12 DEF CaptureSample, TypeOK, dispatchVars, mainVars
    <2> QED
      BY <1>10, <2>1
  <1>13. ASSUME NEW o \in Observations, Publish(o) PROVE EndsForReason' /\ EndShown'
    <2>1. /\ thread'[o] = IF sample[o] = "exited" THEN "exiting" ELSE "wait"
          /\ exited'[o] <=> sample[o] = "exited"
          /\ \A u \in Observations \ {o} : thread'[u] = thread[u] /\ exited'[u] = exited[u]
          /\ UNCHANGED <<phase, cancelled, shown, stopped>>
      BY <1>13, ZenonT(60) DEF Publish, TypeOK, dispatchVars, mainVars
    <2> QED
      BY <1>10, <2>1
  <1>14. ASSUME NEW o \in Observations, Return(o) PROVE EndsForReason' /\ EndShown'
    <2>1. /\ thread[o] = "exiting" /\ thread'[o] = "done"
          /\ \A u \in Observations \ {o} : thread'[u] = thread[u]
          /\ UNCHANGED <<phase, cancelled, shown, stopped, exited>>
      BY <1>14 DEF Return, TypeOK, dispatchVars, mainVars
    <2>2. exited[o]
      BY <2>1 DEF EndsForReason
    <2> QED
      BY <1>10, <2>1, <2>2
  <1>15. CASE UNCHANGED vars
    BY <1>0, <1>15 DEF vars, dispatchVars, threadVars, mainVars
  <1> QED
    BY <1>1, <1>2, <1>3, <1>6, <1>7, <1>8, <1>9, <1>11, <1>12, <1>13, <1>14, <1>15
    DEF Next, Dispatch, Collector

\* Every step keeps hold of the running collectors: one is started only while
\* the monitor is not stopped, and its handle is kept before the next step.
LEMMA HandlesStep ==
  ASSUME TypeOK, TypeOK', HandlesHeld, [Next]_vars
  PROVE  HandlesHeld'
  <1>0. ASSUME UNCHANGED <<stopped, main, joining, workers>>, Collecting' \subseteq Collecting
        PROVE  HandlesHeld'
    BY <1>0 DEF HandlesHeld
  <1>1. ASSUME UNCHANGED thread PROVE Collecting' = Collecting
    BY <1>1 DEF Collecting
  <1>2. CASE Exit
    BY <1>0, <1>1, <1>2 DEF Exit, threadVars, mainVars
  <1>3. ASSUME NEW o \in Observations,
               Reserve(o) \/ Capture(o) \/ AcceptPoll(o) \/ Poll(o) \/ Close(o)
        PROVE  HandlesHeld'
    BY <1>0, <1>1, <1>3 DEF Reserve, Capture, AcceptPoll, Poll, Close, threadVars, mainVars
  <1>4. ASSUME NEW o \in Observations, Spawn(o) PROVE HandlesHeld'
    <2>1. CASE stopped
      BY <1>0, <1>1, <1>4, <2>1 DEF Spawn, mainVars
    <2>2. CASE ~stopped
      <3>1. /\ workers' = (workers \ Finished) \cup {o} /\ UNCHANGED <<stopped, main, joining>>
            /\ \A u \in Observations \ {o} : thread'[u] = thread[u]
        BY <1>4, <2>2 DEF Spawn, TypeOK, mainVars
      <3>2. main = "serving" /\ Collecting \subseteq workers
        BY <2>2 DEF HandlesHeld, TypeOK
      <3>3. Collecting' \subseteq workers'
        BY <3>1, <3>2 DEF Collecting, Finished
      <3> QED
        BY <3>1, <3>2, <3>3 DEF HandlesHeld
    <2> QED
      BY <2>1, <2>2
  <1>5. ASSUME NEW o \in Observations, Collector(o) PROVE HandlesHeld'
    <2>1. thread[o] \notin {"none", "done"} /\ UNCHANGED <<stopped, main, joining, workers>>
      BY <1>5 DEF Collector, Wake, CaptureSample, Publish, Return, mainVars
    <2>2. \A u \in Observations \ {o} : thread'[u] = thread[u]
      BY <1>5 DEF Collector, Wake, CaptureSample, Publish, Return, TypeOK
    <2>3. Collecting' \subseteq Collecting
      BY <2>1, <2>2 DEF Collecting
    <2> QED
      BY <1>0, <2>1, <2>3
  <1>6. CASE Stop
    BY <1>1, <1>6 DEF Stop, HandlesHeld, threadVars
  <1>7. CASE TakeHandles
    BY <1>1, <1>7 DEF TakeHandles, HandlesHeld, threadVars
  <1>8. CASE Joined
    <2>1. Collecting \subseteq Finished
      BY <1>8 DEF Joined, HandlesHeld
    <2>2. Collecting = {}
      BY <2>1 DEF Collecting, Finished
    <2> QED
      BY <1>1, <1>8, <2>2 DEF Joined, HandlesHeld, threadVars
  <1>9. CASE UNCHANGED vars
    BY <1>0, <1>1, <1>9 DEF vars, threadVars, mainVars
  <1> QED
    BY <1>2, <1>3, <1>4, <1>5, <1>6, <1>7, <1>8, <1>9 DEF Next, Dispatch

\* The viewers counted are the permits held, a stream that the helper ended has
\* shown the exit unless the helper was stopping, and no collector runs after
\* join_collectors: for every number of observations and every limit.
THEOREM ObservationsServed ==
  ASSUME ViewerLimit \in Nat, Nobody \notin Observations
  PROVE  Spec => []ProcessViewers
  <1>1. Init => Inv
    <2> SUFFICES ASSUME Init PROVE Inv
      OBVIOUS
    <2>1. TypeOK /\ Counted
      BY CountInit
    <2>2. EndsForReason /\ EndShown
      BY DEF Init, EndsForReason, EndShown
    <2>3. HandlesHeld
      BY DEF Init, HandlesHeld, Collecting
    <2> QED
      BY <2>1, <2>2, <2>3 DEF Inv
  <1>2. Inv /\ [Next]_vars => Inv'
    BY CountStep, EndStep, HandlesStep DEF Inv
  <1>3. Inv => ProcessViewers
    BY DEF Inv, Counted, Permitted, HandlesHeld, Collecting, ProcessViewers, PermitsCounted,
       JoinedQuiet
  <1> QED
    BY <1>1, <1>2, <1>3, PTL DEF Spec

-----------------------------------------------------------------------------
(* ReverseDns: an address is asked for once at a time.                     *)

\* The states of an entry, the channel and the threads.
DnsType ==
  /\ cache \in [Ips -> {"absent", "pending", "expired", "name", "none"}]
  /\ queue \in Seq(Ips)
  /\ worker \in [Workers -> Ips \cup {"idle"}]

\* The addresses on the channel and those being looked up.
Channel == {queue[i] : i \in DOMAIN queue}
LookedUp == {worker[w] : w \in Workers} \ {"idle"}

\* An address is in one place, once, and pending as long as it is there: the
\* entry is what keeps a second lookup from asking again.
DnsInv ==
  /\ DnsType
  /\ \A i, j \in DOMAIN queue : queue[i] = queue[j] => i = j
  /\ \A v, w \in Workers : worker[v] = worker[w] /\ worker[v] # "idle" => v = w
  /\ Channel \cap LookedUp = {}
  /\ \A ip \in Channel \cup LookedUp : cache[ip] = "pending"

\* Asking puts an address on the channel that nobody asks for.
LEMMA AskKeeps ==
  ASSUME DnsInv, NEW ip \in Ips, Dns!Ask(ip)
  PROVE  DnsInv'
  <1>1. /\ queue \in Seq(Ips) /\ worker' = worker /\ cache[ip] # "pending"
        /\ cache \in [Ips -> {"absent", "pending", "expired", "name", "none"}]
    BY DEF DnsInv, DnsType, Dns!Ask
  <1>2. /\ Dns!Retained \in [Ips -> {"absent", "pending", "expired", "name", "none"}]
        /\ \A x \in Ips : cache[x] = "pending" => Dns!Retained[x] = "pending"
    BY <1>1 DEF Dns!Retained
  <1>3. ip \notin Channel \cup LookedUp
    BY <1>1 DEF DnsInv
  <1>4. LookedUp' = LookedUp /\ LookedUp \subseteq Ips /\ Channel \subseteq Ips
    BY <1>1 DEF LookedUp, Channel, DnsInv, DnsType
  <1>5. CASE cache' = Dns!Retained /\ UNCHANGED queue
    <2>1. Channel' = Channel
      BY <1>5 DEF Channel
    <2>2. \A x \in Channel \cup LookedUp : cache'[x] = "pending"
      BY <1>2, <1>4, <1>5 DEF DnsInv
    <2> QED
      BY <1>1, <1>2, <1>4, <1>5, <2>1, <2>2 DEF DnsInv, DnsType
  <1>6. CASE queue' = Append(queue, ip) /\ cache' = [Dns!Retained EXCEPT ![ip] = "pending"]
    <2>1. /\ queue' \in Seq(Ips) /\ DOMAIN queue = 1..Len(queue) /\ Len(queue) \in Nat
          /\ DOMAIN queue' = 1..(Len(queue) + 1)
          /\ queue'[Len(queue) + 1] = ip /\ \A i \in 1..Len(queue) : queue'[i] = queue[i]
      BY <1>1, <1>6
    <2>2. \A i \in DOMAIN queue' : i \in DOMAIN queue \/ i = Len(queue) + 1
      BY <2>1
    <2>3. Channel' = Channel \cup {ip}
      BY <2>1, <2>2 DEF Channel
    <2>4. \A i, j \in DOMAIN queue' : queue'[i] = queue'[j] => i = j
      <3>1. \A i \in DOMAIN queue : queue[i] # ip
        BY <1>3 DEF Channel
      <3> QED
        BY <2>1, <2>2, <3>1 DEF DnsInv
    <2>5. \A x \in Channel' \cup LookedUp' : cache'[x] = "pending"
      BY <1>2, <1>4, <1>6, <2>3 DEF DnsInv
    <2>6. cache' \in [Ips -> {"absent", "pending", "expired", "name", "none"}]
      BY <1>2, <1>6
    <2>7. Channel' \cap LookedUp' = {}
      BY <1>3, <1>4, <2>3 DEF DnsInv
    <2> QED
      BY <1>1, <2>1, <2>4, <2>5, <2>6, <2>7 DEF DnsInv, DnsType
  <1> QED
    BY <1>5, <1>6 DEF Dns!Ask

\* A thread takes the next address from the channel.
LEMMA TakeKeeps ==
  ASSUME "idle" \notin Ips, DnsInv, NEW w \in Workers, Dns!Take(w)
  PROVE  DnsInv'
  <1>1. /\ queue \in Seq(Ips) /\ queue # <<>> /\ worker[w] = "idle" /\ cache' = cache
        /\ queue' = Tail(queue) /\ worker' = [worker EXCEPT ![w] = Head(queue)]
        /\ worker \in [Workers -> Ips \cup {"idle"}]
    BY DEF DnsInv, DnsType, Dns!Take, Dns!Idle
  <1>2. Len(queue) \in Nat \ {0} /\ DOMAIN queue = 1..Len(queue)
    BY <1>1, EmptySeq
  <1>3. /\ queue' \in Seq(Ips) /\ DOMAIN queue' = 1..(Len(queue) - 1)
        /\ \A i \in 1..(Len(queue) - 1) : queue'[i] = queue[i + 1]
        /\ Head(queue) = queue[1] /\ Head(queue) \in Ips
    BY <1>1, <1>2, HeadTailProperties
  <1>4. \A i, j \in 1..Len(queue) : queue[i] = queue[j] => i = j
    BY <1>2 DEF DnsInv
  <1>5. \A i \in 1..(Len(queue) - 1) : i + 1 \in 1..Len(queue) /\ i + 1 # 1 /\ 1 \in 1..Len(queue)
    BY <1>2
  <1>6. \A i, j \in DOMAIN queue' : queue'[i] = queue'[j] => i = j
    BY <1>2, <1>3, <1>4, <1>5
  <1>7. Channel' \subseteq Channel /\ Head(queue) \notin Channel' /\ Head(queue) \in Channel
    BY <1>2, <1>3, <1>4, <1>5, SMTT(30) DEF Channel
  <1>8. LookedUp' \subseteq LookedUp \cup {Head(queue)}
    BY <1>1 DEF LookedUp
  <1>9. \A u, v \in Workers : worker'[u] = worker'[v] /\ worker'[u] # "idle" => u = v
    <2>1. \A u \in Workers : worker[u] # Head(queue)
      <3>1. \A u \in Workers : worker[u] # "idle" => worker[u] \notin Channel
        BY DEF DnsInv, LookedUp
      <3> QED
        BY <1>3, <1>7, <3>1
    <2> QED
      BY <1>1, <2>1 DEF DnsInv
  <1>10. worker' \in [Workers -> Ips \cup {"idle"}]
    BY <1>1, <1>3
  <1>11. Channel' \cap LookedUp' = {} /\ \A ip \in Channel' \cup LookedUp' : cache'[ip] = "pending"
    BY <1>1, <1>7, <1>8 DEF DnsInv
  <1> QED
    BY <1>1, <1>3, <1>6, <1>9, <1>10, <1>11 DEF DnsInv, DnsType

\* A thread stores its answer; an answer gets old.
LEMMA AnswerKeeps ==
  ASSUME DnsInv, NEW w \in Workers, Dns!Answer(w)
  PROVE  DnsInv'
  <1>1. PICK name \in {"name", "none"} : cache' = [cache EXCEPT ![worker[w]] = name]
    BY DEF Dns!Answer, Dns!LookupHostname
  <1>2. /\ worker[w] # "idle" /\ worker' = [worker EXCEPT ![w] = "idle"] /\ queue' = queue
        /\ worker \in [Workers -> Ips \cup {"idle"}]
        /\ cache \in [Ips -> {"absent", "pending", "expired", "name", "none"}]
    BY DEF Dns!Answer, Dns!Idle, DnsInv, DnsType
  <1>3. worker[w] \in LookedUp /\ Channel' = Channel
    BY <1>2 DEF LookedUp, Channel
  <1>4. LookedUp' = LookedUp \ {worker[w]}
    BY <1>2 DEF LookedUp, DnsInv
  <1>5. \A ip \in Channel' \cup LookedUp' : ip # worker[w] /\ ip \in Channel \cup LookedUp
    BY <1>3, <1>4 DEF DnsInv
  <1>6. Channel \cup LookedUp \subseteq Ips
    BY <1>2 DEF DnsInv, DnsType, Channel, LookedUp
  <1>7. \A ip \in Channel' \cup LookedUp' : cache'[ip] = "pending"
    BY <1>1, <1>2, <1>5, <1>6 DEF DnsInv
  <1>8. /\ cache' \in [Ips -> {"absent", "pending", "expired", "name", "none"}]
        /\ worker' \in [Workers -> Ips \cup {"idle"}]
    BY <1>1, <1>2
  <1>9. \A u, v \in Workers : worker'[u] = worker'[v] /\ worker'[u] # "idle" => u = v
    BY <1>2 DEF DnsInv
  <1> QED
    BY <1>2, <1>3, <1>4, <1>7, <1>8, <1>9 DEF DnsInv, DnsType

LEMMA ExpireKeeps ==
  ASSUME DnsInv, NEW ip \in Ips, Dns!Expire(ip)
  PROVE  DnsInv'
  <1>1. /\ cache[ip] # "pending" /\ cache' = [cache EXCEPT ![ip] = "expired"]
        /\ UNCHANGED <<queue, worker, Channel, LookedUp>>
        /\ cache \in [Ips -> {"absent", "pending", "expired", "name", "none"}]
    BY DEF Dns!Expire, Dns!LookupHostname, Channel, LookedUp, DnsInv, DnsType
  <1>2. ip \notin Channel \cup LookedUp /\ Channel \cup LookedUp \subseteq Ips
    BY <1>1 DEF DnsInv, DnsType, Channel, LookedUp
  <1>3. \A x \in Channel \cup LookedUp : cache'[x] = "pending"
    BY <1>1, <1>2 DEF DnsInv
  <1> QED
    BY <1>1, <1>3 DEF DnsInv, DnsType

\* While four threads resolve, lookups of other addresses sweep the cache and a
\* full channel refuses requests, no address is asked for twice at a time: it is
\* on the channel or with a thread, and there once (resolver.rs).
THEOREM AskedForOnce ==
  ASSUME "idle" \notin Ips
  PROVE  /\ Dns!Spec => []Dns!AskedOnce
         /\ MCSpec => []AskedOnce
  <1>1. Dns!Init => DnsInv
    BY DEF Dns!Init, Dns!Idle, DnsInv, DnsType, Channel, LookedUp
  <1>2. DnsInv /\ [Dns!Next]_Dns!vars => DnsInv'
    <2> SUFFICES ASSUME DnsInv, [Dns!Next]_Dns!vars PROVE DnsInv'
      OBVIOUS
    <2>1. CASE UNCHANGED Dns!vars
      <3>1. UNCHANGED <<cache, queue, worker, Channel, LookedUp>>
        BY <2>1 DEF Dns!vars, Channel, LookedUp
      <3> QED
        BY <3>1 DEF DnsInv, DnsType
    <2> QED
      BY <2>1, AskKeeps, TakeKeeps, AnswerKeeps, ExpireKeeps DEF Dns!Next
  <1>3. DnsInv => Dns!AskedOnce
    <2> SUFFICES ASSUME DnsInv, NEW ip \in Ips PROVE Dns!Asked(ip) <= 1
      BY DEF Dns!AskedOnce
    <2> DEFINE A == {i \in DOMAIN queue : queue[i] = ip}
               B == {w \in Workers : worker[w] = ip}
    <2>1. A = {} \/ \E i : A = {i}
      BY DEF DnsInv
    <2>2. B = {} \/ \E w : B = {w}
      <3>1. \A v, w \in B : v = w
        BY DEF DnsInv
      <3> QED
        BY <3>1
    <2>3. A = {} \/ B = {}
      BY DEF DnsInv, Channel, LookedUp
    <2>4. Dns!Asked(ip) = Dns!Cardinality(A) + Dns!Cardinality(B)
      BY DEF Dns!Asked
    <2> HIDE DEF A, B
    <2>5. \A S : Dns!Cardinality(S) = Cardinality(S)
      BY DEF Dns!Cardinality, Cardinality
    <2>6. Cardinality({}) = 0 /\ \A x : Cardinality({x}) = 1
      BY FS_EmptySet, FS_Singleton
    <2>7. Cardinality(A) \in {0, 1} /\ Cardinality(B) \in {0, 1}
      BY <2>1, <2>2, <2>6
    <2>8. Cardinality(A) = 0 \/ Cardinality(B) = 0
      BY <2>3, <2>6
    <2> QED
      BY <2>4, <2>5, <2>7, <2>8
  <1>4. MCInit => Dns!Init
    BY DEF MCInit
  <1>5. [MCNext]_allVars => [Dns!Next]_Dns!vars
    BY DEF MCNext, allVars, dnsVars, Dns!vars
  <1> QED
    BY <1>1, <1>2, <1>3, <1>4, <1>5, PTL DEF Dns!Spec, MCSpec, AskedOnce

-----------------------------------------------------------------------------
(* Lifecycle: what is served is served safely, and no helper is left behind. *)

\* The server before it has a helper, while it starts one, and once it is sealed.
Early   == {"entry", "launch", "dropped"}
Start   == {"spawned", "connected", "unconnected", "reaping"}
Running == {"sealed", "serving", "stopping", "draining", "returned"}

\* The helper once its capabilities are cut to those it needs.
Cut == {"restricted", "handling", "armed", "greeted", "serving", "stopping", "joined"}

\* How privileges and options follow the server and the helper,
Privileges ==
  /\ caps \in [app : SUBSET Life!All, helper : SUBSET Life!All]
  /\ app \in {"dropped"} \cup Start \cup Running => caps.app = {}
  /\ app \in Running => "app" \in sealed
  /\ helper \in Cut => caps.helper \subseteq Required /\ "helper" \in sealed
  /\ app \in {"launch", "dropped"} \cup Start \cup Running => Life!Allowed(options)
  /\ ~Life!NoHelper => private = options.privacy

\* and who answers for the helper: nobody is left with one and without a guard or
\* a supervisor that reaps it.
Guarded ==
  /\ app \in Early => helper = "none"
  /\ app \in Early \cup Start => sup = "none"
  /\ after \in {"unconnected", "exited"}
  /\ app \in {"unconnected", "exited"} => Life!NoHelper
  /\ app \in Running /\ sup \in {"none", "done"} => Life!NoHelper

LifeInv == Privileges /\ Guarded

\* The server starts, with or without a helper.
LEMMA StartKeeps ==
  ASSUME LifeInv,
         \/ Life!RunApplication \/ Life!DropsCapabilities \/ Life!Spawns \/ Life!Greeted
         \/ Life!NotGreeted \/ Life!Reaps \/ Life!Seals
  PROVE  LifeInv'
  <1> USE DEF LifeInv, Privileges, Guarded, Early, Start, Running, Cut, Life!NoHelper, Life!Allowed
  <1>1. CASE Life!RunApplication
    BY <1>1 DEF Life!RunApplication, Life!helperVars
  <1>2. CASE Life!DropsCapabilities
    BY <1>2 DEF Life!DropsCapabilities, Life!helperVars
  <1>3. CASE Life!Spawns
    BY <1>3 DEF Life!Spawns, Life!ExecCaps, Life!All
  <1>4. CASE Life!Greeted
    BY <1>4 DEF Life!Greeted, Life!helperVars
  <1>5. CASE Life!NotGreeted
    BY <1>5 DEF Life!NotGreeted, Life!Failed, Life!helperVars
  <1>6. CASE Life!Reaps
    BY <1>6 DEF Life!Reaps, Life!Killed
  <1>7. CASE Life!Seals
    BY <1>7 DEF Life!Seals, Life!helperVars
  <1> QED
    BY <1>1, <1>2, <1>3, <1>4, <1>5, <1>6, <1>7

\* The server serves and stops, with its supervisor.
LEMMA ServeKeeps ==
  ASSUME LifeInv,
         \/ Life!Binds \/ Life!Stops \/ Life!LinksJoined \/ Life!Drains \/ Life!ServersJoined
         \/ Life!Exits \/ Life!Supervises \/ Life!SupervisorReaps
         \/ (\E stable \in BOOLEAN : Life!SessionEnds(stable)) \/ Life!Wakes \/ Life!LinkStops
  PROVE  LifeInv'
  <1> USE DEF LifeInv, Privileges, Guarded, Early, Start, Running, Cut, Life!NoHelper, Life!Allowed
  <1>1. CASE Life!Binds
    BY <1>1 DEF Life!Binds, Life!helperVars
  <1>2. CASE Life!Stops
    BY <1>2 DEF Life!Stops, Life!helperVars
  <1>3. CASE Life!LinksJoined
    BY <1>3 DEF Life!LinksJoined, Life!helperVars
  <1>4. CASE Life!Drains
    BY <1>4 DEF Life!Drains, Life!helperVars
  <1>5. CASE Life!ServersJoined
    BY <1>5 DEF Life!ServersJoined, Life!helperVars
  <1>6. CASE Life!Exits
    BY <1>6 DEF Life!Exits, Life!helperVars
  <1>7. CASE Life!Supervises
    BY <1>7 DEF Life!Supervises, Life!helperVars
  <1>8. CASE Life!SupervisorReaps
    BY <1>8 DEF Life!SupervisorReaps, Life!GuardDrops, Life!Killed
  <1>9. ASSUME NEW stable \in BOOLEAN, Life!SessionEnds(stable) PROVE LifeInv'
    BY <1>9 DEF Life!SessionEnds, Life!appVars, Life!helperVars
  <1>10. CASE Life!Wakes
    BY <1>10 DEF Life!Wakes, Life!appVars, Life!helperVars
  <1>11. CASE Life!LinkStops
    BY <1>11 DEF Life!LinkStops, Life!appVars, Life!helperVars
  <1> QED
    BY <1>1, <1>2, <1>3, <1>4, <1>5, <1>6, <1>7, <1>8, <1>9, <1>10, <1>11

\* The helper goes its way, and either process dies or is signalled.
LEMMA HelperKeeps ==
  ASSUME LifeInv,
         \/ Life!HelperStep \/ Life!IpcThreadEnds \/ Life!CollectorsEnd \/ Life!Crashes
         \/ Life!HelperSignalled \/ Life!HelperDies \/ Life!HelperStopped
  PROVE  LifeInv'
  <1> USE DEF LifeInv, Privileges, Guarded, Early, Start, Running, Cut, Life!NoHelper, Life!Allowed,
              Life!HelperRuns, Life!Leaves, Life!Killed, Life!Stays, Life!appVars
  <1>1. CASE Life!ChecksParent
    BY <1>1 DEF Life!ChecksParent
  <1>2. CASE Life!Restricts
    BY <1>2 DEF Life!Restricts, Life!Restricted
  <1>3. CASE Life!InstallsHandlers
    BY <1>3 DEF Life!InstallsHandlers
  <1>4. CASE Life!Arms
    BY <1>4 DEF Life!Arms
  <1>5. CASE Life!ChecksAgain
    BY <1>5 DEF Life!ChecksAgain
  <1>6. CASE Life!Greets
    BY <1>6 DEF Life!Greets
  <1>7. CASE Life!LoopEnds \/ Life!IpcThreadEnds
    BY <1>7 DEF Life!LoopEnds, Life!IpcThreadEnds, Life!Stopping
  <1>8. CASE Life!HelperEndsItself
    BY <1>8 DEF Life!HelperEndsItself
  <1>9. CASE Life!CollectorsEnd
    BY <1>9 DEF Life!CollectorsEnd
  <1>10. CASE Life!Crashes
    BY <1>10 DEF Life!Crashes
  <1>11. CASE Life!HelperSignalled
    BY <1>11 DEF Life!HelperSignalled, Life!Handles
  <1>12. CASE Life!HelperDies
    BY <1>12 DEF Life!HelperDies
  <1>13. CASE Life!HelperStopped
    BY <1>13 DEF Life!HelperStopped
  <1> QED
    BY <1>1, <1>2, <1>3, <1>4, <1>5, <1>6, <1>7, <1>8, <1>9, <1>10, <1>11, <1>12, <1>13
    DEF Life!HelperStep

\* A step of MCHelper is one of the life cycle, or leaves it alone.
LEMMA LifeSteps == [MCNext]_allVars => [Life!Next]_Life!vars
  <1>1. lifeVars' = lifeVars => Life!vars' = Life!vars
    BY DEF lifeVars, Life!vars, Life!appVars, Life!helperVars, Life!linkVars
  <1>2. [MCNext]_allVars => Life!Next \/ UNCHANGED lifeVars
    BY DEF MCNext, allVars
  <1> QED
    BY <1>1, <1>2

\* Whatever dies, hangs or is signalled at whichever step: a server that serves
\* has no capabilities and can gain none, serves agents on public addresses with
\* leave and a token only, its helper keeps the capabilities it needs only and
\* knows of privacy mode, and no way out of starting it leaves a helper behind
\* (entry.rs, privileges.rs, launch.rs).
THEOREM SafelyServed ==
  /\ Life!Spec => [](Life!ServesSafely /\ Life!NoStrayHelper)
  /\ MCSpec => []ServesSafely
  <1>1. Life!Init => LifeInv
    BY DEF Life!Init, LifeInv, Privileges, Guarded, Early, Start, Running, Cut, Life!NoHelper,
           Life!All
  <1>2. LifeInv /\ [Life!Next]_Life!vars => LifeInv'
    <2> SUFFICES ASSUME LifeInv, [Life!Next]_Life!vars PROVE LifeInv'
      OBVIOUS
    <2>1. CASE UNCHANGED Life!vars
      BY <2>1 DEF Life!vars, Life!appVars, Life!helperVars, LifeInv, Privileges, Guarded,
                  Life!NoHelper, Life!Allowed
    <2>2. CASE Life!AppStep
      BY <2>2, StartKeeps, ServeKeeps DEF Life!AppStep
    <2>3. CASE Life!SupervisorStep \/ Life!Drains \/ Life!LinkStops
      BY <2>3, ServeKeeps DEF Life!SupervisorStep
    <2>4. CASE Life!HelperStep \/ Life!Environment
      BY <2>4, ServeKeeps, HelperKeeps DEF Life!Environment
    <2> QED
      BY <2>1, <2>2, <2>3, <2>4 DEF Life!Next
  <1>3. LifeInv => Life!ServesSafely /\ Life!NoStrayHelper
    BY DEF LifeInv, Privileges, Guarded, Early, Start, Running, Cut, Life!Allowed, Life!Serving,
           Life!ServesSafely, Life!NoStrayHelper
  <1>4. MCInit => Life!Init
    BY DEF MCInit
  <1>5. [MCNext]_allVars => [Life!Next]_Life!vars
    BY LifeSteps
  <1> QED
    BY <1>1, <1>2, <1>3, <1>4, <1>5, PTL DEF Life!Spec, MCSpec, ServesSafely

-----------------------------------------------------------------------------
(* Lifecycle: the delay between sessions.                                  *)

\* The delays that doubling gives are a function on the numbers of attempts: what
\* doubling along 1, 2, ..., n gives is such a function.
TwiceStep(delay, n, p) == 2 * delay
Doubling == INSTANCE FoldProofs WITH Op <- TwiceStep
UpTo(n) == [i \in 1..n |-> i]

LEMMA DoublingLoop ==
  ASSUME NEW A, NEW s \in Seq(A)
  PROVE  \E g : /\ g[0] = MinBackoff
                /\ \A n \in 1..Len(s) : g[n] = 2 * g[n - 1]
                /\ Doubling!FoldAlong(MinBackoff, s, 0) = g[Len(s)]
  <1>1. PICK g : /\ g[0] = MinBackoff
                 /\ \A n \in 1..Len(s) : g[n] = TwiceStep(g[n - 1], s[n], 0)
                 /\ Doubling!FoldAlong(MinBackoff, s, 0) = g[Len(s)]
    BY Doubling!SeqLoop
  <1> QED
    BY <1>1 DEF TwiceStep

LEMMA TwiceOf ==
  ASSUME MinBackoff \in Nat
  PROVE  /\ Life!Twice[0] = MinBackoff
         /\ \A n \in Nat \ {0} : Life!Twice[n] = 2 * Life!Twice[n - 1]
  <1> DEFINE f == [n \in Nat |-> Doubling!FoldAlong(MinBackoff, UpTo(n), 0)]
             P(h) == h = [n \in Nat |-> IF n = 0 THEN MinBackoff ELSE 2 * h[n - 1]]
  <1>1. ASSUME NEW n \in Nat
        PROVE  UpTo(n) \in Seq(Nat) /\ Len(UpTo(n)) = n /\ \A i \in 1..n : UpTo(n)[i] = i
    BY DEF UpTo
  <1>2. ASSUME NEW k \in Nat
        PROVE  \E g : /\ g[0] = MinBackoff
                      /\ \A n \in 1..k : g[n] = 2 * g[n - 1]
                      /\ Doubling!FoldAlong(MinBackoff, UpTo(k), 0) = g[k]
    <2>1. PICK g : /\ g[0] = MinBackoff
                   /\ \A n \in 1..Len(UpTo(k)) : g[n] = 2 * g[n - 1]
                   /\ Doubling!FoldAlong(MinBackoff, UpTo(k), 0) = g[Len(UpTo(k))]
      BY <1>1, DoublingLoop
    <2> QED
      BY <1>1, <2>1
  <1>3. f[0] = MinBackoff
    <2>1. PICK g : g[0] = MinBackoff /\ Doubling!FoldAlong(MinBackoff, UpTo(0), 0) = g[0]
      BY <1>2
    <2> QED
      BY <2>1
  <1>4. ASSUME NEW n \in Nat \ {0} PROVE f[n] = 2 * f[n - 1]
    <2>1. PICK g : /\ g[0] = MinBackoff
                   /\ \A i \in 1..n : g[i] = 2 * g[i - 1]
                   /\ Doubling!FoldAlong(MinBackoff, UpTo(n), 0) = g[n]
      BY <1>2
    <2>2. PICK h : /\ h[0] = MinBackoff
                   /\ \A i \in 1..(n - 1) : h[i] = 2 * h[i - 1]
                   /\ Doubling!FoldAlong(MinBackoff, UpTo(n - 1), 0) = h[n - 1]
      <3>1. n - 1 \in Nat
        OBVIOUS
      <3> QED
        BY <1>2, <3>1
    <2> DEFINE T == {i \in Nat : g[i] = h[i]}
    <2>3. 0 \in T
      BY <2>1, <2>2
    <2>4. \A i \in 1..(n - 1) : i - 1 \in T => i \in T
      BY <2>1, <2>2
    <2>5. n - 1 \in T
      <3>1. n - 1 \in Nat /\ n - 1 \in 0..(n - 1)
        OBVIOUS
      <3> HIDE DEF T
      <3>2. \A i \in 0..(n - 1) : i \in T
        BY <2>3, <2>4, <3>1, Doubling!Reaches
      <3> QED
        BY <3>1, <3>2
    <2>6. g[n] = 2 * g[n - 1] /\ g[n - 1] = h[n - 1]
      BY <2>1, <2>5
    <2>7. f[n] = g[n] /\ f[n - 1] = h[n - 1]
      BY <2>1, <2>2
    <2> QED
      BY <2>6, <2>7
  <1>5. P(f)
    <2>1. f = [n \in Nat |-> f[n]]
      OBVIOUS
    <2> HIDE DEF f
    <2>2. \A n \in Nat : f[n] = IF n = 0 THEN MinBackoff ELSE 2 * f[n - 1]
      BY <1>3, <1>4
    <2> QED
      BY <2>1, <2>2
  <1>6. Life!Twice = CHOOSE h : P(h)
    BY Zenon DEF Life!Twice
  <1> HIDE DEF f
  <1>7. P(Life!Twice)
    <2> HIDE DEF P
    <2> QED
      BY <1>5, <1>6, Zenon
  <1> HIDE DEF f
  <1> QED
    BY <1>7

\* Doubling outgrows the limit within as many attempts.
LEMMA TwiceGrows ==
  ASSUME MinBackoff \in Nat \ {0}, NEW N \in Nat
  PROVE  \A n \in 0..N : Life!Twice[n] \in Nat /\ Life!Twice[n] > n
  <1> DEFINE T == {n \in Nat : Life!Twice[n] \in Nat /\ Life!Twice[n] > n}
  <1>1. 0 \in T
    BY TwiceOf
  <1>2. ASSUME NEW n \in 1..N, n - 1 \in T PROVE n \in T
    <2>1. Life!Twice[n] = 2 * Life!Twice[n - 1]
      BY TwiceOf
    <2> QED
      BY <1>2, <2>1
  <1>3. \A n \in 0..N : n \in T
    <2> HIDE DEF T
    <2> QED
      BY <1>1, <1>2, Doubling!Reaches
  <1> QED
    BY <1>3

\* The delay is what the attempts give, also while a session lasts.
BackoffGood ==
  /\ attempts \in 0..MaxBackoff
  /\ backoff = IF Life!Twice[attempts] < MaxBackoff THEN Life!Twice[attempts] ELSE MaxBackoff

\* The backoff of run_hub_connector after n sessions that ended early is the shortest
\* doubled n times, within the longest, and the shortest again after a stable one: for
\* any limits 0 < MinBackoff <= MaxBackoff.
THEOREM DelayDoubles ==
  ASSUME MinBackoff \in Nat \ {0}, MaxBackoff \in Nat, MinBackoff <= MaxBackoff
  PROVE  /\ Life!Spec => []Life!DelayOfAttempts
         /\ MCSpec => []DelayOfAttempts
  <1>1. Life!Init => BackoffGood
    <2> SUFFICES ASSUME Life!Init PROVE BackoffGood
      OBVIOUS
    <2>1. attempts = 0 /\ backoff = MinBackoff
      BY DEF Life!Init
    <2>2. Life!Twice[0] = MinBackoff
      BY TwiceOf
    <2> QED
      BY <2>1, <2>2 DEF BackoffGood
  <1>2. BackoffGood /\ [Life!Next]_Life!vars => BackoffGood'
    <2> SUFFICES ASSUME BackoffGood, [Life!Next]_Life!vars PROVE BackoffGood'
      OBVIOUS
    <2>1. CASE UNCHANGED <<backoff, attempts>>
      BY <2>1 DEF BackoffGood
    <2>2. ASSUME NEW stable \in BOOLEAN, Life!SessionEnds(stable) PROVE BackoffGood'
      <3>1. CASE stable
        <4>1. attempts' = 0 /\ backoff' = MinBackoff
          BY <2>2, <3>1 DEF Life!SessionEnds, Life!Reset
        <4>2. Life!Twice[0] = MinBackoff
          BY TwiceOf
        <4> QED
          BY <4>1, <4>2 DEF BackoffGood
      <3>2. CASE ~stable
        BY <2>1, <2>2, <3>2 DEF Life!SessionEnds, Life!Reset
      <3> QED
        BY <3>1, <3>2
    <2>3. CASE Life!Wakes
      <3>1. /\ backoff' = IF 2 * backoff < MaxBackoff THEN 2 * backoff ELSE MaxBackoff
            /\ attempts' = IF attempts < MaxBackoff THEN attempts + 1 ELSE attempts
        BY <2>3 DEF Life!Wakes, Life!Doubled
      <3>2. attempts \in 0..MaxBackoff /\ Life!Twice[attempts] \in Nat
            /\ Life!Twice[attempts] > attempts
        BY TwiceGrows DEF BackoffGood
      <3>3. CASE attempts < MaxBackoff
        <4>1. Life!Twice[attempts + 1] = 2 * Life!Twice[attempts]
          <5>1. attempts + 1 \in Nat \ {0} /\ (attempts + 1) - 1 = attempts
            BY <3>2
          <5> QED
            BY <5>1, TwiceOf
        <4> QED
          BY <3>1, <3>2, <3>3, <4>1 DEF BackoffGood
      <3>4. CASE attempts = MaxBackoff
        BY <3>1, <3>2, <3>4 DEF BackoffGood
      <3> QED
        BY <3>2, <3>3, <3>4
    <2>4. UNCHANGED <<backoff, attempts>> \/ Life!Wakes \/ \E stable \in BOOLEAN : Life!SessionEnds(stable)
      BY DEF Life!Next, Life!vars, Life!linkVars, Life!AppStep, Life!SupervisorStep,
             Life!HelperStep, Life!Environment, Life!RunApplication, Life!DropsCapabilities,
             Life!Spawns, Life!Greeted, Life!NotGreeted, Life!Reaps, Life!Seals, Life!Binds,
             Life!LinksJoined, Life!ServersJoined, Life!Exits, Life!Supervises,
             Life!SupervisorReaps, Life!ChecksParent, Life!Restricts, Life!InstallsHandlers,
             Life!Arms, Life!ChecksAgain, Life!Greets, Life!LoopEnds, Life!HelperEndsItself,
             Life!Stops, Life!Crashes, Life!HelperSignalled, Life!HelperDies, Life!HelperStopped,
             Life!IpcThreadEnds, Life!Stopping, Life!CollectorsEnd, Life!Drains, Life!LinkStops
    <2> QED
      BY <2>1, <2>2, <2>3, <2>4
  <1>3. BackoffGood => Life!DelayOfAttempts
    BY DEF BackoffGood, Life!DelayOfAttempts
  <1>4. MCInit => Life!Init
    BY DEF MCInit
  <1>5. [MCNext]_allVars => [Life!Next]_Life!vars
    BY LifeSteps
  <1> QED
    BY <1>1, <1>2, <1>3, <1>4, <1>5, PTL DEF Life!Spec, MCSpec, DelayOfAttempts
=============================================================================
