----------------------- MODULE ObservationProofs -----------------------
(***************************************************************************)
(* Proofs about ObservationState for any number of sessions and any limits *)
(* with ViewerLimit <= Cap, whatever adverse happens.  That histories are  *)
(* lost to orphans only rests on SessionsBounded: the helper stays within  *)
(* its limit, and only closed sessions wait to be drained.  Then come the  *)
(* things MCObservation says of what is measured: what run time is shown,  *)
(* what the hardware view holds, that what a capture attached to is let    *)
(* go, whose stacks are shown, and where every event goes.  Folds and      *)
(* recursive functions are reasoned about with FoldProofs.                 *)
(***************************************************************************)
EXTENDS MCObservation, FiniteSetTheorems, SequenceTheorems, TLAPS

\* Everything the state holds sets of is finite.
LEMMA SessionsFinite ==
  \A S \in SUBSET Sessions : IsFiniteSet(S) /\ Cardinality(S) \in Nat
<1>1. IsFiniteSet(Sessions)
  BY FS_Interval, StateAssumption DEF Sessions
<1>2. QED
  BY <1>1, FS_Subset, FS_CardinalityType

\* insert keeps the bound, adds its session, and adds nothing else.
LEMMA InsertBounded ==
  ASSUME NEW t \in SUBSET Sessions, Cardinality(t) <= Cap, NEW s \in Sessions
  PROVE  /\ Insert(s, t) \subseteq Sessions
         /\ Cardinality(Insert(s, t)) <= Cap
         /\ s \in Insert(s, t)
         /\ Insert(s, t) \subseteq t \cup {s}
<1>1. IsFiniteSet(t) /\ Cardinality(t) \in Nat
  BY SessionsFinite
<1>2. Cardinality({s}) = 1
  BY FS_Singleton
<1>3. Cardinality(t \cup {s}) = IF s \in t THEN Cardinality(t) ELSE Cardinality(t) + 1
  BY <1>1, FS_AddElement
<1>4. CASE Cardinality(t) >= Cap /\ s \notin t
  BY <1>2, <1>4, StateAssumption DEF Insert
<1>5. CASE ~(Cardinality(t) >= Cap /\ s \notin t)
  BY <1>1, <1>3, <1>5, StateAssumption DEF Insert
<1>6. QED
  BY <1>4, <1>5

\* close removes entries and never breaks the bound.
LEMMA CloseBounded ==
  ASSUME NEW t \in SUBSET Sessions, Cardinality(t) <= Cap, NEW ss
  PROVE  Close(ss, t) \subseteq t /\ Cardinality(Close(ss, t)) <= Cap
<1>1. IsFiniteSet(t) /\ Cardinality(t) \in Nat
  BY SessionsFinite
<1>2. Close(ss, t) \in SUBSET t
  BY DEF Close
<1>3. Cardinality(Close(ss, t)) <= Cardinality(t)
  BY <1>1, <1>2, FS_Subset
<1>4. Cardinality(Close(ss, t)) \in Nat
  BY <1>2, SessionsFinite
<1>5. QED
  BY <1>1, <1>2, <1>3, <1>4, StateAssumption

\* Every step keeps the types and the bound of the table.
LEMMA TypeStep == TypeOK /\ [Next]_vars => TypeOK'
<1> SUFFICES ASSUME TypeOK, [Next]_vars PROVE TypeOK'
  OBVIOUS
<1> USE DEF TypeOK, SetStage, Unlocked
<1>1. ASSUME NEW s \in Sessions, NEW hub \in BOOLEAN, Start(s, hub) PROVE TypeOK'
  BY <1>1 DEF Start
<1>2. ASSUME NEW s \in Sessions, Poll(s) PROVE TypeOK'
  BY <1>2 DEF Poll
<1>3. ASSUME NEW s \in Sessions, Process(s) PROVE TypeOK'
  <2>1. Close(closed, table) \in SUBSET Sessions /\ Cardinality(Close(closed, table)) <= Cap
    BY CloseBounded
  <2>2. table' \subseteq Sessions /\ Cardinality(table') <= Cap
    BY <1>3, <2>1, InsertBounded DEF Process
  <2>3. QED
    BY <1>3, <2>2, StateAssumption DEF Process, Sessions
<1>4. ASSUME NEW s \in Sessions, Processed(s) PROVE TypeOK'
  BY <1>4, StateAssumption DEF Processed
<1>5. ASSUME NEW s \in Sessions, Drop(s) PROVE TypeOK'
  <2>1. PICK got \in BOOLEAN :
          /\ table' = IF got THEN Close(closed \cup {s}, table) ELSE table
          /\ closed' = IF got THEN {} ELSE closed \cup {s}
    BY <1>5 DEF Drop
  <2>2. table' \subseteq Sessions /\ Cardinality(table') <= Cap
    BY <2>1, CloseBounded
  <2>3. lock' \in 0..MaxSessions
    BY <1>5, StateAssumption DEF Drop
  <2>4. QED
    BY <1>5, <2>1, <2>2, <2>3 DEF Drop
<1>6. ASSUME NEW s \in Sessions, Fails(s) PROVE TypeOK'
  BY <1>6, StateAssumption DEF Fails
<1>7. ASSUME NEW s \in Sessions, HubClose(s) PROVE TypeOK'
  BY <1>7 DEF HubClose
<1>8. ASSUME NEW s \in Sessions, Release(s) PROVE TypeOK'
  BY <1>8 DEF Release
<1>9. CASE UNCHANGED vars
  BY <1>9 DEF vars
<1>10. QED
  BY <1>1, <1>2, <1>3, <1>4, <1>5, <1>6, <1>7, <1>8, <1>9 DEF Next

\* The state has its types and the table never exceeds its bound (the checks
\* of histories.len() and activity.len() in process).
THEOREM TypeCorrect == Spec => []TypeOK
<1>1. Init => TypeOK
  BY FS_EmptySet, StateAssumption DEF Init, TypeOK
<1>2. QED
  BY <1>1, TypeStep, PTL DEF Spec

\* A closed local session is released, or will be by the next reply
\* (MonitorClient::close and the drain in MonitorClient::request), whatever
\* else happens.
THEOREM LocalSessionsReleased == Spec => []LocalReleased
<1>1. Init => LocalReleased
  BY DEF Init, LocalReleased
<1>2. TypeOK /\ LocalReleased /\ [Next]_vars => LocalReleased'
  <2> SUFFICES ASSUME TypeOK, LocalReleased, [Next]_vars PROVE LocalReleased'
    OBVIOUS
  <2> USE DEF TypeOK, LocalReleased, SetStage, Unlocked
  <2>1. ASSUME NEW s \in Sessions, NEW hub \in BOOLEAN, Start(s, hub) PROVE LocalReleased'
    BY <2>1 DEF Start
  <2>2. ASSUME NEW s \in Sessions, Poll(s) PROVE LocalReleased'
    BY <2>2 DEF Poll
  <2>3. ASSUME NEW s \in Sessions, Process(s) PROVE LocalReleased'
    <3>1. table' \subseteq (table \ closed) \cup {s}
      BY <2>3 DEF Process, Insert, Close
    <3>2. QED
      BY <2>3, <3>1 DEF Process
  <2>4. ASSUME NEW s \in Sessions, Processed(s) PROVE LocalReleased'
    BY <2>4 DEF Processed
  <2>5. ASSUME NEW s \in Sessions, Drop(s) PROVE LocalReleased'
    BY <2>5 DEF Drop, Close
  <2>6. ASSUME NEW s \in Sessions, Fails(s) PROVE LocalReleased'
    BY <2>6 DEF Fails
  <2>7. ASSUME NEW s \in Sessions, HubClose(s) PROVE LocalReleased'
    BY <2>7 DEF HubClose
  <2>8. ASSUME NEW s \in Sessions, Release(s) PROVE LocalReleased'
    BY <2>8 DEF Release
  <2>9. CASE UNCHANGED vars
    BY <2>9 DEF vars
  <2>10. QED
    BY <2>1, <2>2, <2>3, <2>4, <2>5, <2>6, <2>7, <2>8, <2>9 DEF Next
<1>3. QED
  BY <1>1, <1>2, TypeCorrect, PTL DEF Spec

\* The helper keeps its limit, a session waiting to be drained is closed, and
\* the one that has the mutex is being processed.
SessionsBounded ==
  /\ Cardinality(helper) <= ViewerLimit
  /\ \A s \in closed : stage[s] = "closed"
  /\ \A s \in Sessions : lock = s => stage[s] = "processing"

\* Every step keeps SessionsBounded.
LEMMA BoundedStep ==
  ASSUME TypeOK, SessionsBounded, [Next]_vars
  PROVE  SessionsBounded'
<1> USE DEF TypeOK, SessionsBounded, SetStage, Unlocked
<1> 0 \notin Sessions
  BY DEF Sessions
<1>0. IsFiniteSet(helper) /\ Cardinality(helper) \in Nat
  BY SessionsFinite
<1>1. ASSUME NEW s \in Sessions, NEW hub \in BOOLEAN, Start(s, hub) PROVE SessionsBounded'
  <2>1. Cardinality(helper \cup {s}) =
          IF s \in helper THEN Cardinality(helper) ELSE Cardinality(helper) + 1
    BY <1>0, FS_AddElement
  <2>2. Cardinality(helper') <= ViewerLimit
    BY <1>0, <1>1, <2>1, StateAssumption DEF Start
  <2>3. QED
    BY <1>1, <2>2 DEF Start
<1>2. ASSUME NEW s \in Sessions, Poll(s) PROVE SessionsBounded'
  BY <1>2 DEF Poll
<1>3. ASSUME NEW s \in Sessions, Process(s) PROVE SessionsBounded'
  BY <1>3 DEF Process
<1>4. ASSUME NEW s \in Sessions, Processed(s) PROVE SessionsBounded'
  BY <1>4 DEF Processed
<1>5. ASSUME NEW s \in Sessions, Drop(s) PROVE SessionsBounded'
  BY <1>5 DEF Drop
<1>6. ASSUME NEW s \in Sessions, Fails(s) PROVE SessionsBounded'
  BY <1>6 DEF Fails
<1>7. ASSUME NEW s \in Sessions, HubClose(s) \/ Release(s) PROVE SessionsBounded'
  <2>1. helper' = helper \ {s}
    BY <1>7 DEF HubClose, Release
  <2>2. Cardinality(helper \ {s}) <= Cardinality(helper) /\ Cardinality(helper \ {s}) \in Nat
    BY <1>0, SessionsFinite, FS_RemoveElement
  <2>3. Cardinality(helper') <= ViewerLimit
    BY <1>0, <2>1, <2>2, StateAssumption
  <2>4. QED
    BY <1>7, <2>3 DEF HubClose, Release
<1>9. CASE UNCHANGED vars
  BY <1>9 DEF vars
<1>10. QED
  BY <1>1, <1>2, <1>3, <1>4, <1>5, <1>6, <1>7, <1>9 DEF Next

\* A live session's entry goes only when the table, drained, is full; its
\* entries are orphans or belong to sessions of the helper.
LEMMA LostToOrphans ==
  ASSUME TypeOK, SessionsBounded, Next, NEW s \in Sessions,
         stage[s] \in Live, stage'[s] \in Live, s \in table, s \notin table'
  PROVE  Cardinality(Orphans) + ViewerLimit >= Cap
<1> DEFINE t == table \ closed
<1>0. s \notin closed
  BY DEF SessionsBounded, Live
<1>1. PICK r \in Sessions : Process(r) \/ Drop(r)
  BY DEF Next, Start, Poll, Processed, Fails, HubClose, Release
<1>2. ~Drop(r)
  <2> SUFFICES ASSUME Drop(r) PROVE FALSE
    OBVIOUS
  <2>1. r # s
    BY DEF Drop, SetStage, TypeOK, Live
  <2>2. QED
    BY <1>0, <2>1 DEF Drop, Close
<1>3. Cardinality(t) >= Cap
  BY <1>0, <1>1, <1>2 DEF Process, Insert, Close
<1>4. t \subseteq helper \cup Orphans /\ helper \in SUBSET Sessions /\ Orphans \in SUBSET Sessions
  BY DEF TypeOK, Orphans
<1>5. /\ IsFiniteSet(helper) /\ Cardinality(helper) \in Nat
      /\ IsFiniteSet(Orphans) /\ Cardinality(Orphans) \in Nat
  BY <1>4, SessionsFinite
<1>6. /\ IsFiniteSet(helper \cup Orphans)
      /\ Cardinality(helper \cup Orphans)
           = Cardinality(helper) + Cardinality(Orphans) - Cardinality(helper \cap Orphans)
  BY <1>5, FS_Union
<1>7. Cardinality(t) <= Cardinality(helper \cup Orphans)
  BY <1>4, <1>6, FS_Subset
<1>8. Cardinality(t) \in Nat /\ Cardinality(helper \cap Orphans) \in Nat
  <2>1. t \in SUBSET Sessions /\ helper \cap Orphans \in SUBSET Sessions
    BY <1>4 DEF TypeOK
  <2>2. QED
    BY <2>1, SessionsFinite
<1>9. QED
  BY <1>3, <1>5, <1>6, <1>7, <1>8, StateAssumption DEF SessionsBounded

\* A session that is watched loses its history only to orphans: the helper's
\* limit of viewers keeps the others from filling the table (the clear in
\* ObservationProcessor::process).
THEOREM HistoriesKept == Spec => HistoryKept
<1>1. Init => SessionsBounded
  BY FS_EmptySet, StateAssumption DEF Init, SessionsBounded, Sessions
<1>2. TypeOK /\ SessionsBounded /\ [Next]_vars => SessionsBounded'
  BY BoundedStep
<1>3. TypeOK /\ SessionsBounded /\ [Next]_vars =>
        [\A s \in Sessions :
           stage[s] \in Live /\ stage'[s] \in Live /\ s \in table /\ s \notin table'
             => Cardinality(Orphans) + ViewerLimit >= Cap]_vars
  BY LostToOrphans
<1>4. QED
  BY <1>1, <1>2, <1>3, TypeCorrect, PTL DEF Spec, HistoryKept

-----------------------------------------------------------------------------
(* CpuActivity: the run time shown is what the process ran.                *)

\* The part of an interval that lies before the time of the read, and the sum of
\* such parts over CPUs.
Span(q, c) == q.now - q.slots[c].since
AddSpan(sum, c, q) == sum + (q.now - q.slots[c].since)
Spans == INSTANCE FoldProofs WITH Op <- AddSpan
Total(S, q) == Spans!FoldOver(0, S, q)
Spanned(S, q) == S \subseteq Cpus /\ \A c \in S : Span(q, c) \in Nat

LEMMA TotalOf ==
  ASSUME IsFiniteSet(Cpus), NEW q, NEW S, Spanned(S, q)
  PROVE  /\ Total(S, q) \in Nat
         /\ S = {} => Total(S, q) = 0
         /\ \A c \in S : Total(S, q) = Total(S \ {c}, q) + Span(q, c)
  <1>1. Spans!IsFiniteSet(S)
    <2>1. IsFiniteSet(S)
      BY FS_Subset DEF Spanned
    <2> QED
      BY <2>1, Zenon DEF IsFiniteSet, Spans!IsFiniteSet
  <1>2. Spans!Commutes(S, Nat, q)
    <2>1. \A v \in Nat, c \in S : AddSpan(v, c, q) = v + Span(q, c) /\ AddSpan(v, c, q) \in Nat
      BY DEF AddSpan, Span, Spanned
    <2>2. ASSUME NEW v \in Nat, NEW x \in S, NEW y \in S
          PROVE  AddSpan(AddSpan(v, x, q), y, q) = AddSpan(AddSpan(v, y, q), x, q)
      <3>1. Span(q, x) \in Nat /\ Span(q, y) \in Nat
        BY DEF Spanned
      <3>2. /\ AddSpan(AddSpan(v, x, q), y, q) = (v + Span(q, x)) + Span(q, y)
            /\ AddSpan(AddSpan(v, y, q), x, q) = (v + Span(q, y)) + Span(q, x)
        BY <2>1
      <3> QED
        BY <3>1, <3>2
    <2> QED
      BY <2>1, <2>2 DEF Spans!Commutes
  <1>3. Spans!FoldOver(0, S, q) \in Nat
    BY <1>1, <1>2, Spans!SetLoop
  <1>4. S = {} => Spans!FoldOver(0, S, q) = 0
    BY <1>1, <1>2, Spans!SetLoop
  <1>5. \A c \in S : Spans!FoldOver(0, S, q) = AddSpan(Spans!FoldOver(0, S \ {c}, q), c, q)
    BY <1>1, <1>2, Spans!SetLoop
  <1> QED
    BY <1>3, <1>4, <1>5 DEF Total, AddSpan, Span

\* Sums compare as their parts do.
Part(S, q, c) == IF c \in S THEN Span(q, c) ELSE 0
LEMMA Compare ==
  ASSUME IsFiniteSet(Cpus), NEW a, NEW b, NEW d, NEW A, NEW B, NEW D,
         Spanned(A, a), Spanned(B, b), Spanned(D, d),
         \A c \in Cpus : Part(A, a, c) <= Part(B, b, c) + Part(D, d, c)
  PROVE  Total(A, a) <= Total(B, b) + Total(D, d)
  <1> DEFINE T == {R \in SUBSET Cpus :
                     Total(A \cap R, a) <= Total(B \cap R, b) + Total(D \cap R, d)}
  <1>1. ASSUME NEW S, NEW q, Spanned(S, q), NEW R
        PROVE  /\ Total(S \cap R, q) \in Nat
               /\ S \cap R = {} => Total(S \cap R, q) = 0
               /\ \A c \in R : /\ Part(S, q, c) \in Nat
                               /\ Total(S \cap R, q) = Total(S \cap (R \ {c}), q) + Part(S, q, c)
    <2>1. Spanned(S \cap R, q)
      BY <1>1 DEF Spanned
    <2>2. /\ Total(S \cap R, q) \in Nat
          /\ S \cap R = {} => Total(S \cap R, q) = 0
      BY <2>1, TotalOf
    <2>3. ASSUME NEW c \in R
          PROVE  /\ Part(S, q, c) \in Nat
                 /\ Total(S \cap R, q) = Total(S \cap (R \ {c}), q) + Part(S, q, c)
      <3>1. CASE c \in S
        <4>1. (S \cap R) \ {c} = S \cap (R \ {c}) /\ c \in S \cap R
          BY <3>1
        <4>2. Total(S \cap R, q) = Total((S \cap R) \ {c}, q) + Span(q, c)
          BY <2>1, <4>1, TotalOf
        <4> QED
          BY <1>1, <3>1, <4>1, <4>2 DEF Part, Spanned
      <3>2. CASE c \notin S
        <4>1. S \cap R = S \cap (R \ {c})
          BY <3>2
        <4> QED
          BY <2>2, <3>2, <4>1 DEF Part
      <3> QED
        BY <3>1, <3>2
    <2> QED
      BY <2>2, <2>3
  <1>2. {} \in T
    <2>1. /\ A \cap {} = {} /\ B \cap {} = {} /\ D \cap {} = {}
      OBVIOUS
    <2>2. Total(A \cap {}, a) = 0 /\ Total(B \cap {}, b) = 0 /\ Total(D \cap {}, d) = 0
      BY <1>1, <2>1
    <2> QED
      BY <2>2
  <1>3. ASSUME NEW R \in SUBSET Cpus, R # {}, \A c \in R : R \ {c} \in T
        PROVE  R \in T
    <2>1. PICK c \in R : TRUE
      BY <1>3
    <2>2. Total(A \cap (R \ {c}), a) <= Total(B \cap (R \ {c}), b) + Total(D \cap (R \ {c}), d)
      BY <1>3
    <2>3. /\ Total(A \cap R, a) = Total(A \cap (R \ {c}), a) + Part(A, a, c)
          /\ Total(B \cap R, b) = Total(B \cap (R \ {c}), b) + Part(B, b, c)
          /\ Total(D \cap R, d) = Total(D \cap (R \ {c}), d) + Part(D, d, c)
      BY <1>1
    <2>4. Part(A, a, c) <= Part(B, b, c) + Part(D, d, c)
      OBVIOUS
    <2>5. /\ Total(A \cap (R \ {c}), a) \in Nat /\ Part(A, a, c) \in Nat
          /\ Total(B \cap (R \ {c}), b) \in Nat /\ Part(B, b, c) \in Nat
          /\ Total(D \cap (R \ {c}), d) \in Nat /\ Part(D, d, c) \in Nat
      BY <1>1
    <2> QED
      BY <2>2, <2>3, <2>4, <2>5
  <1>4. Cpus \in T
    <2> HIDE DEF T
    <2>1. Spans!IsFiniteSet(Cpus)
      BY Zenon DEF IsFiniteSet, Spans!IsFiniteSet
    <2>2. \A R \in SUBSET Cpus : R # {} /\ (\A x \in R : R \ {x} \in T) => R \in T
      BY <1>3
    <2> QED
      BY <1>2, <2>1, <2>2, Spans!Grows
  <1>5. A \cap Cpus = A /\ B \cap Cpus = B /\ D \cap Cpus = D
    BY DEF Spanned
  <1> QED
    BY <1>4, <1>5

\* The CPUs a process was on, and the time of a read of the slots.
Held(q, p) == {c \in Cpus : q.slots[c].proc = p /\ q.slots[c].since <= q.now}
At(slots, at) == [slots |-> slots, now |-> at]

LEMMA OngoingSum ==
  ASSUME NEW slots, NEW at, NEW p
  PROVE  /\ \A q : Cpu!Ongoing(q.slots, p, q.now) = Total(Held(q, p), q)
         /\ Cpu!Ongoing(slots, p, at) = Total(Held(At(slots, at), p), At(slots, at))
  <1>1. \A q : Cpu!Ongoing(q.slots, p, q.now) = Total(Held(q, p), q)
    BY Zenon DEF Cpu!Ongoing, Total, Held, Cpu!FoldSet, Cpu!MapThenFoldSet, Spans!FoldOver,
                 Spans!FoldSet, Spans!MapThenFoldSet, AddSpan
  <1>2. At(slots, at).slots = slots /\ At(slots, at).now = at
    BY DEF At
  <1>3. Cpu!Ongoing(At(slots, at).slots, p, At(slots, at).now)
          = Total(Held(At(slots, at), p), At(slots, at))
    BY <1>1
  <1> QED
    BY <1>1, <1>2, <1>3

SlotSet == [proc : Procs \cup {None}, since : Nat]
CurrentSet == [now : Nat, slots : [Cpus -> SlotSet], real : [Procs -> Nat]]

\* Absent is none of the values it stands beside.
CpusApart == IsFiniteSet(Cpus) /\ None \notin Procs \cup Nat \cup CurrentSet

LEMMA HeldSpanned ==
  ASSUME NEW slots \in [Cpus -> SlotSet], NEW at \in Nat, NEW p
  PROVE  Spanned(Held(At(slots, at), p), At(slots, at))
  BY DEF Held, At, Spanned, Span, SlotSet

\* What a process has used of the slots does not shrink as time passes.
LEMMA OngoingGrows ==
  ASSUME IsFiniteSet(Cpus), NEW slots \in [Cpus -> SlotSet], NEW p,
         NEW t \in Nat, NEW u \in Nat, t <= u
  PROVE  /\ Cpu!Ongoing(slots, p, t) \in Nat
         /\ Cpu!Ongoing(slots, p, t) <= Cpu!Ongoing(slots, p, u)
  <1> DEFINE a == At(slots, t)
             b == At(slots, u)
             A == Held(a, p)
             B == Held(b, p)
  <1>1. Spanned(A, a) /\ Spanned(B, b) /\ Spanned({}, b)
    BY HeldSpanned DEF Spanned
  <1>2. \A c \in Cpus : Part(A, a, c) <= Part(B, b, c) + Part({}, b, c)
    BY DEF Part, Span, Held, At, SlotSet
  <1>3. Cpu!Ongoing(slots, p, t) = Total(A, a) /\ Cpu!Ongoing(slots, p, u) = Total(B, b)
    BY OngoingSum
  <1> HIDE DEF a, b, A, B
  <1>4. Total(A, a) \in Nat /\ Total(B, b) \in Nat /\ Total({}, b) = 0
    BY <1>1, TotalOf
  <1>5. Total(A, a) <= Total(B, b) + Total({}, b)
    BY <1>1, <1>2, Compare
  <1> QED
    BY <1>3, <1>4, <1>5

\* A switch moves the time of the process that leaves from the slots to what has
\* ended, and gives none to the one that comes.
LEMMA OngoingSwitched ==
  ASSUME IsFiniteSet(Cpus), NEW slots \in [Cpus -> SlotSet], NEW after \in [Cpus -> SlotSet],
         NEW at \in Nat, NEW c \in Cpus, NEW p, slots[c].since <= at, after[c].since = at,
         after[c].proc # slots[c].proc, \A k \in Cpus \ {c} : after[k] = slots[k]
  PROVE  Cpu!Ongoing(slots, p, at) =
           Cpu!Ongoing(after, p, at) + (IF p = slots[c].proc THEN at - slots[c].since ELSE 0)
  <1> DEFINE a == At(slots, at)
             b == At(after, at)
             A == Held(a, p)
             B == Held(b, p)
             S == A \ {c}
             R == B \ {c}
  <1>1. Spanned(A, a) /\ Spanned(B, b)
    BY HeldSpanned
  <1>2. Spanned(S, a) /\ Spanned(R, b) /\ Spanned({}, b)
    BY <1>1 DEF Spanned
  <1>3. \A k \in Cpus : /\ Part(S, a, k) <= Part(R, b, k) + Part({}, b, k)
                        /\ Part(R, b, k) <= Part(S, a, k) + Part({}, b, k)
    BY DEF Part, Span, Held, At, SlotSet
  <1>4. /\ c \in A <=> p = slots[c].proc
        /\ c \in B <=> p = after[c].proc
        /\ Span(a, c) = at - slots[c].since /\ Span(b, c) = 0
        /\ at - slots[c].since \in Nat
    BY DEF Held, At, Span, SlotSet
  <1>5. Cpu!Ongoing(slots, p, at) = Total(A, a) /\ Cpu!Ongoing(after, p, at) = Total(B, b)
    BY OngoingSum
  <1>6. /\ c \notin A => S = A
        /\ c \notin B => R = B
    OBVIOUS
  <1> HIDE DEF a, b, A, B
  <1>7. /\ Total(S, a) \in Nat /\ Total(R, b) \in Nat /\ Total({}, b) = 0
    BY <1>2, TotalOf
  <1>8. /\ c \in A => Total(A, a) = Total(S, a) + Span(a, c)
        /\ c \in B => Total(B, b) = Total(R, b) + Span(b, c)
    BY <1>1, TotalOf
  <1> HIDE DEF S, R
  <1>9. Total(S, a) <= Total(R, b) + Total({}, b) /\ Total(R, b) <= Total(S, a) + Total({}, b)
    BY <1>2, <1>3, Compare
  <1>10. Total(S, a) = Total(R, b)
    BY <1>7, <1>9
  <1>11. Total(B, b) = Total(R, b)
    BY <1>4, <1>6, <1>7, <1>8
  <1>12. Total(A, a) = Total(S, a) + (IF p = slots[c].proc THEN at - slots[c].since ELSE 0)
    BY <1>4, <1>6, <1>7, <1>8
  <1> QED
    BY <1>5, <1>10, <1>11, <1>12

\* What is read of the slots has been used, but for the intervals that ended between
\* the reads: those are in what has ended too.
LEMMA OverlapBounds ==
  ASSUME IsFiniteSet(Cpus), slot \in [Cpus -> SlotSet], now \in Nat, current \in CurrentSet,
         current.now <= now, \A c \in Cpus : current.slots[c].since <= current.now, NEW p
  PROVE  /\ Cpu!Overlap(p) \in Nat
         /\ Cpu!Ongoing(current.slots, p, current.now) <= Cpu!Overlap(p) + Cpu!Ongoing(slot, p, now)
  <1> DEFINE a == current
             b == At(slot, now)
             A == Held(a, p)
             B == Held(b, p)
             D == {c \in Cpus : current.slots[c].proc = p /\ slot[c] # current.slots[c]}
  <1>0. current.slots \in [Cpus -> SlotSet] /\ current.now \in Nat
    BY DEF CurrentSet
  <1>1. Spanned(A, a) /\ Spanned(B, b) /\ Spanned(D, a)
    <2>1. Spanned(B, b)
      BY HeldSpanned
    <2>2. Spanned(A, a) /\ Spanned(D, a)
      BY <1>0 DEF Spanned, Span, Held, SlotSet
    <2> QED
      BY <2>1, <2>2
  <1>2. \A c \in Cpus : Part(A, a, c) <= Part(D, a, c) + Part(B, b, c)
    BY <1>0 DEF Part, Span, Held, At, SlotSet
  <1>3. /\ Cpu!Ongoing(current.slots, p, current.now) = Total(A, a)
        /\ Cpu!Ongoing(slot, p, now) = Total(B, b)
    BY OngoingSum
  <1>4. Cpu!Overlap(p) = Total(D, a)
    BY Zenon DEF Cpu!Overlap, Total, Cpu!FoldSet, Cpu!MapThenFoldSet, Spans!FoldOver,
                 Spans!FoldSet, Spans!MapThenFoldSet, AddSpan
  <1> HIDE DEF a, b, A, B, D
  <1>5. Total(A, a) \in Nat /\ Total(B, b) \in Nat /\ Total(D, a) \in Nat
    BY <1>1, TotalOf
  <1>6. Total(A, a) <= Total(D, a) + Total(B, b)
    BY <1>1, <1>2, Compare
  <1> QED
    BY <1>3, <1>4, <1>5, <1>6

\* The CPU time of intervals that ended, as far as the helper's totals know of it.
Charged(p) == IF totals[p] = None THEN 0 ELSE totals[p]

CpuTypes ==
  /\ now \in Nat /\ slot \in [Cpus -> SlotSet] /\ totals \in [Procs -> Nat \cup {None}]
  /\ done \in [Procs -> Nat] /\ current \in CurrentSet \cup {None} /\ known \subseteq Procs
  /\ previous \in [Procs -> Nat \cup {None}] /\ shown \in [Procs -> Nat]
  /\ twice \in [Procs -> Nat] /\ first \in [Procs -> Nat \cup {None}]
  /\ until \in [Procs -> Nat] /\ whole \in [Procs -> BOOLEAN]
  /\ \A c \in Cpus : slot[c].since <= now
  /\ current # None =>
       current.now <= now /\ \A c \in Cpus : current.slots[c].since <= current.now

\* While the helper is between its reads, the first read is not ahead of the process,
\* what ended since is in the second, and no batch is shown.
ReadGood(p) ==
  current # None =>
    /\ current.real[p] <= Cpu!Real(p)
    /\ current.real[p] <= done[p] + Cpu!Ongoing(current.slots, p, current.now)
    /\ shown[p] <= current.real[p] + twice[p]

\* What is shown is ahead of the last counters by no more than the totals have lost to
\* evictions and than was read twice.
ShownGood(p) ==
  /\ Charged(p) <= done[p]
  /\ shown[p] <= Cpu!Real(p) + twice[p]
  /\ previous[p] # None => shown[p] + Charged(p) <= previous[p] + done[p] + twice[p]

\* Nothing was lost: the totals are what ended, the process has been in every batch
\* since its first, and the next counters will have it.
WholeGood(p) ==
  whole[p] =>
    /\ Charged(p) = done[p]
    /\ current # None /\ (\E c \in Cpus : current.slots[c].proc = p) =>
         totals[p] # None \/ \E c \in Cpus : slot[c].proc = p
    /\ first[p] # None =>
         /\ p \in known /\ previous[p] # None
         /\ totals[p] # None \/ \E c \in Cpus : slot[c].proc = p
         /\ current # None => totals[p] # None \/ \E c \in Cpus : current.slots[c].proc = p
         /\ until[p] <= previous[p]
         /\ previous[p] <= shown[p] + first[p] + twice[p]

CpuInv == CpuTypes /\ \A p \in Procs : ReadGood(p) /\ ShownGood(p) /\ WholeGood(p)

LEMMA RealIn ==
  ASSUME CpusApart, CpuTypes, NEW p \in Procs
  PROVE  /\ Cpu!Real(p) \in Nat /\ Cpu!Ongoing(slot, p, now) \in Nat
         /\ Charged(p) \in Nat
         /\ current # None => /\ Cpu!Ongoing(current.slots, p, current.now) \in Nat
                              /\ current.real[p] \in Nat
  <1>1. now <= now /\ (current # None => current.now \in Nat /\ current.now <= current.now)
    BY DEF CpuTypes, CurrentSet
  <1>2. Cpu!Ongoing(slot, p, now) \in Nat
    BY <1>1, OngoingGrows DEF CpusApart, CpuTypes
  <1>3. current # None => Cpu!Ongoing(current.slots, p, current.now) \in Nat
    BY <1>1, OngoingGrows DEF CpusApart, CpuTypes, CurrentSet
  <1> QED
    BY <1>2, <1>3 DEF CpuTypes, CurrentSet, Cpu!Real, Charged

\* A step of the kernel that takes no time back and charges what it ends.
LEMMA Passes ==
  ASSUME CpusApart, CpuInv, CpuTypes', NEW p \in Procs,
         UNCHANGED <<current, known, previous, shown, twice, first, until>>,
         Cpu!Real(p) <= Cpu!Real(p)', done[p] <= done'[p],
         Charged(p)' <= done'[p],
         Charged(p)' + done[p] <= Charged(p) + done'[p],
         whole'[p] =>
           /\ whole[p] /\ Charged(p)' + done[p] = Charged(p) + done'[p]
           /\ totals[p] # None => totals'[p] # None
           /\ (\E c \in Cpus : slot[c].proc = p) =>
                totals'[p] # None \/ \E c \in Cpus : slot'[c].proc = p
  PROVE  ReadGood(p)' /\ ShownGood(p)' /\ WholeGood(p)'
  <1>1. /\ Cpu!Real(p) \in Nat /\ Charged(p) \in Nat
        /\ current # None => /\ Cpu!Ongoing(current.slots, p, current.now) \in Nat
                             /\ current.real[p] \in Nat
    BY RealIn DEF CpuInv
  <1>2. Cpu!Real(p)' \in Nat /\ Charged(p)' \in Nat
    <2>1. CpusApart => (CpuTypes => Cpu!Real(p) \in Nat /\ Charged(p) \in Nat)
      BY RealIn
    <2>2. CpusApart => (CpuTypes => Cpu!Real(p) \in Nat /\ Charged(p) \in Nat)'
      BY RealIn, PTL
    <2> QED
      BY <2>2
  <1>3. /\ done[p] \in Nat /\ done'[p] \in Nat /\ shown[p] \in Nat /\ twice[p] \in Nat
        /\ previous[p] \in Nat \cup {None} /\ first[p] \in Nat \cup {None} /\ until[p] \in Nat
    BY DEF CpuInv, CpuTypes
  <1>4. ReadGood(p) /\ ShownGood(p) /\ WholeGood(p)
    BY DEF CpuInv
  <1>5. ReadGood(p)'
    BY <1>1, <1>2, <1>3, <1>4 DEF ReadGood
  <1>6. ShownGood(p)'
    BY <1>1, <1>2, <1>3, <1>4 DEF ShownGood, CpusApart
  <1>7. WholeGood(p)'
    BY <1>1, <1>2, <1>3, <1>4 DEF WholeGood
  <1> QED
    BY <1>5, <1>6, <1>7

LEMMA KernelCpus ==
  ASSUME CpusApart, CpuInv,
         \/ Cpu!Tick
         \/ \E c \in Cpus, p \in Procs \cup {None} : Cpu!Schedule(c, p)
         \/ \E p \in Procs : Cpu!Evict(p)
  PROVE  CpuInv'
  <1>0. CpuTypes /\ \A p \in Procs : Cpu!Real(p) \in Nat /\ Charged(p) \in Nat /\ Charged(p) <= done[p]
    BY RealIn DEF CpuInv, ShownGood
  <1>1. CASE Cpu!Tick
    <2> USE <1>1 DEF Cpu!Tick, Cpu!serverVars
    <2>1. CpuTypes'
      <3>1. now' \in Nat /\ now <= now'
        BY <1>0 DEF CpuTypes
      <3>2. \A c \in Cpus : slot'[c].since <= now'
        BY <1>0, <3>1 DEF CpuTypes, SlotSet
      <3>3. current' # None =>
              current'.now <= now' /\ \A c \in Cpus : current'.slots[c].since <= current'.now
        BY <1>0, <3>1 DEF CpuTypes, CurrentSet
      <3> QED
        BY <1>0, <3>1, <3>2, <3>3 DEF CpuTypes
    <2>2. ASSUME NEW p \in Procs PROVE Cpu!Real(p) <= Cpu!Real(p)'
      <3>1. Cpu!Ongoing(slot, p, now) <= Cpu!Ongoing(slot, p, now') /\ Cpu!Ongoing(slot, p, now) \in Nat
        BY <1>0, OngoingGrows DEF CpuTypes, CpusApart
      <3>2. Cpu!Ongoing(slot, p, now') \in Nat
        BY <1>0, OngoingGrows DEF CpuTypes, CpusApart
      <3>3. Cpu!Real(p) = done[p] + Cpu!Ongoing(slot, p, now)
            /\ Cpu!Real(p)' = done[p] + Cpu!Ongoing(slot, p, now')
        BY DEF Cpu!Real
      <3> QED
        BY <1>0, <3>1, <3>2, <3>3 DEF CpuTypes
    <2>3. ASSUME NEW p \in Procs PROVE ReadGood(p)' /\ ShownGood(p)' /\ WholeGood(p)'
      <3>1. Charged(p)' = Charged(p) /\ done[p] \in Nat
        BY <1>0 DEF Charged, CpuTypes
      <3> QED
        BY <1>0, <2>1, <2>2, <3>1, Passes
    <2> QED
      BY <2>1, <2>3 DEF CpuInv
  <1>2. ASSUME NEW c \in Cpus, NEW next \in Procs \cup {None}, Cpu!Schedule(c, next)
        PROVE  CpuInv'
    <2> DEFINE old == slot[c].proc
               ran == now - slot[c].since
    <2>1. /\ next # old /\ slot' = [slot EXCEPT ![c] = [proc |-> next, since |-> now]]
          /\ UNCHANGED <<now, current, known, previous, shown, first, until, twice, whole>>
      BY <1>2 DEF Cpu!Schedule, Cpu!serverVars
    <2>2. ran \in Nat /\ slot[c].since <= now /\ slot[c] \in SlotSet /\ old \in Procs \cup {None}
      BY <1>0 DEF CpuTypes, SlotSet
    <2>3. /\ \A p \in Procs \ {old} : totals'[p] = totals[p] /\ done'[p] = done[p]
          /\ old # None => /\ totals'[old] = Charged(old) + ran
                           /\ done'[old] = done[old] + ran
          /\ totals' \in [Procs -> Nat \cup {None}] /\ done' \in [Procs -> Nat]
      <3>1. CASE old = None
        <4>1. UNCHANGED <<totals, done>>
          BY <1>2, <3>1 DEF Cpu!Schedule
        <4> QED
          BY <1>0, <3>1, <4>1 DEF CpuTypes
      <3>2. CASE old # None
        <4>1. /\ totals' = [totals EXCEPT ![old] = (IF @ = None THEN 0 ELSE @) + ran]
              /\ done' = [done EXCEPT ![old] = @ + ran]
          BY <1>2, <3>2 DEF Cpu!Schedule
        <4>2. old \in Procs /\ Charged(old) \in Nat /\ done[old] \in Nat
          BY <1>0, <2>2, <3>2 DEF CpuTypes
        <4>3. totals' = [totals EXCEPT ![old] = Charged(old) + ran]
          BY <4>1 DEF Charged
        <4> HIDE DEF old, ran
        <4> QED
          BY <1>0, <2>2, <4>1, <4>2, <4>3 DEF CpuTypes
      <3> QED
        BY <3>1, <3>2
    <2>4. CpuTypes'
      <3>1. slot' \in [Cpus -> SlotSet] /\ \A k \in Cpus : slot'[k].since <= now
        BY <1>0, <2>1 DEF CpuTypes, SlotSet
      <3> QED
        BY <1>0, <2>1, <2>3, <3>1 DEF CpuTypes
    <2>5. ASSUME NEW p \in Procs
          PROVE  /\ Charged(p)' = Charged(p) + (IF p = old THEN ran ELSE 0)
                 /\ done'[p] = done[p] + (IF p = old THEN ran ELSE 0)
                 /\ p = old => totals'[p] # None
      <3>1. done[p] \in Nat /\ Charged(p) \in Nat
        BY <1>0 DEF CpuTypes
      <3>2. CASE p = old
        <4>1. old # None
          BY <3>2 DEF CpusApart
        <4>2. totals'[p] = Charged(p) + ran /\ done'[p] = done[p] + ran
          BY <2>3, <3>2, <4>1
        <4>3. totals'[p] \in Nat /\ totals'[p] # None
          BY <2>2, <3>1, <4>2 DEF CpusApart
        <4>4. Charged(p)' = totals'[p]
          BY <4>3 DEF Charged
        <4> HIDE DEF ran
        <4> QED
          BY <3>2, <4>2, <4>3, <4>4
      <3>3. CASE p # old
        <4>1. totals'[p] = totals[p] /\ done'[p] = done[p]
          BY <2>3, <3>3
        <4>2. Charged(p)' = Charged(p)
          BY <4>1 DEF Charged
        <4> QED
          BY <3>1, <3>3, <4>1, <4>2
      <3> QED
        BY <3>2, <3>3
    <2>6. ASSUME NEW p \in Procs PROVE Cpu!Real(p)' = Cpu!Real(p)
      <3>1. Cpu!Ongoing(slot, p, now) = Cpu!Ongoing(slot', p, now) + (IF p = old THEN ran ELSE 0)
        <4>1. slot \in [Cpus -> SlotSet] /\ now \in Nat /\ IsFiniteSet(Cpus)
          BY <1>0 DEF CpuTypes, CpusApart
        <4>2. /\ slot' \in [Cpus -> SlotSet] /\ slot'[c].since = now
              /\ slot'[c].proc # slot[c].proc /\ \A k \in Cpus \ {c} : slot'[k] = slot[k]
          BY <2>1, <2>4, <4>1 DEF CpuTypes
        <4> QED
          BY <2>2, <4>1, <4>2, OngoingSwitched
      <3>2. Cpu!Ongoing(slot', p, now) \in Nat
        BY <2>1, <2>4, OngoingGrows DEF CpuTypes, CpusApart
      <3>3. Cpu!Real(p) = done[p] + Cpu!Ongoing(slot, p, now)
            /\ Cpu!Real(p)' = done'[p] + Cpu!Ongoing(slot', p, now)
        BY <2>1 DEF Cpu!Real
      <3>4. done[p] \in Nat
        BY <1>0 DEF CpuTypes
      <3> HIDE DEF ran
      <3> QED
        BY <2>2, <2>5, <3>1, <3>2, <3>3, <3>4
    <2>7. ASSUME NEW p \in Procs PROVE ReadGood(p)' /\ ShownGood(p)' /\ WholeGood(p)'
      <3> DEFINE more == IF p = old THEN ran ELSE 0
      <3>1. done[p] \in Nat /\ Charged(p) \in Nat /\ Charged(p) <= done[p] /\ more \in Nat
        BY <1>0, <2>2 DEF CpuTypes
      <3>2. Charged(p)' = Charged(p) + more /\ done'[p] = done[p] + more
        BY <2>5
      <3>3. /\ totals[p] # None => totals'[p] # None
            /\ (\E k \in Cpus : slot[k].proc = p) =>
                 totals'[p] # None \/ \E k \in Cpus : slot'[k].proc = p
        <4>1. p # old => totals'[p] = totals[p] /\ \A k \in Cpus : slot[k].proc = p => slot'[k].proc = p
          BY <1>0, <2>1, <2>3 DEF CpuTypes, SlotSet
        <4> QED
          BY <2>5, <4>1
      <3>4. whole'[p] => whole[p]
        BY <2>1
      <3> HIDE DEF more, old, ran
      <3>5. /\ Cpu!Real(p) <= Cpu!Real(p)' /\ done[p] <= done'[p] /\ Charged(p)' <= done'[p]
            /\ Charged(p)' + done[p] = Charged(p) + done'[p]
            /\ Charged(p)' + done[p] <= Charged(p) + done'[p]
        BY <1>0, <2>6, <3>1, <3>2
      <3> QED
        BY <2>1, <2>4, <3>3, <3>4, <3>5, Passes
    <2> QED
      BY <2>4, <2>7 DEF CpuInv
  <1>3. ASSUME NEW e \in Procs, Cpu!Evict(e) PROVE CpuInv'
    <2>1. /\ totals' = [totals EXCEPT ![e] = None] /\ whole' = [whole EXCEPT ![e] = FALSE]
          /\ UNCHANGED <<now, slot, done, current, known, previous, shown, first, until, twice>>
      BY <1>3 DEF Cpu!Evict, Cpu!serverVars
    <2>2. CpuTypes'
      BY <1>0, <2>1 DEF CpuTypes
    <2>3. ASSUME NEW p \in Procs PROVE ReadGood(p)' /\ ShownGood(p)' /\ WholeGood(p)'
      <3>1. Cpu!Real(p)' = Cpu!Real(p)
        BY <2>1 DEF Cpu!Real
      <3>2. /\ p = e => Charged(p)' = 0 /\ ~whole'[p]
            /\ p # e => totals'[p] = totals[p] /\ Charged(p)' = Charged(p) /\ whole'[p] = whole[p]
        BY <1>0, <2>1 DEF Charged, CpuTypes
      <3>3. done[p] \in Nat /\ done'[p] = done[p]
        BY <1>0, <2>1 DEF CpuTypes
      <3> QED
        <4>1. /\ Cpu!Real(p) <= Cpu!Real(p)' /\ done[p] <= done'[p] /\ Charged(p)' <= done'[p]
              /\ Charged(p)' + done[p] <= Charged(p) + done'[p]
              /\ whole'[p] => /\ whole[p] /\ Charged(p)' + done[p] = Charged(p) + done'[p]
                              /\ totals[p] # None => totals'[p] # None
          BY <1>0, <3>1, <3>2, <3>3
        <4>2. slot' = slot
          BY <2>1
        <4> QED
          BY <2>1, <2>2, <4>1, <4>2, Passes
    <2> QED
      BY <2>2, <2>3 DEF CpuInv
  <1> QED
    BY <1>1, <1>2, <1>3


\* What ReadTotals makes of a process that its counters show.
LEMMA CpuProcessed ==
  ASSUME CpusApart, CpuInv, current # None, NEW p \in Procs, NEW cum \in Nat,
         cum = Charged(p) + Cpu!Ongoing(current.slots, p, current.now),
         previous'[p] = cum,
         shown'[p] = shown[p] + Cpu!Monus(cum, IF previous[p] = None THEN cum ELSE previous[p]),
         first'[p] = IF first[p] = None THEN Cpu!Real(p) ELSE first[p],
         until'[p] = current.real[p],
         twice'[p] = twice[p] + Cpu!Overlap(p)
  PROVE  /\ shown'[p] \in Nat /\ first'[p] \in Nat
         /\ shown'[p] <= Cpu!Real(p) + twice'[p]
         /\ shown'[p] + Charged(p) <= cum + done[p] + twice'[p]
         /\ whole[p] => until'[p] <= cum /\ cum <= shown'[p] + first'[p] + twice'[p]
  <1> DEFINE real == Cpu!Real(p)
             ch == Charged(p)
             over == Cpu!Overlap(p)
             then == Cpu!Ongoing(current.slots, p, current.now)
             og == Cpu!Ongoing(slot, p, now)
             read == current.real[p]
  <1>1. /\ real \in Nat /\ ch \in Nat /\ then \in Nat /\ og \in Nat /\ read \in Nat
        /\ real = done[p] + og
    BY RealIn DEF CpuInv, Cpu!Real
  <1>2. over \in Nat /\ then <= over + og
    BY OverlapBounds DEF CpuInv, CpuTypes, CpusApart
  <1>3. /\ done[p] \in Nat /\ shown[p] \in Nat /\ twice[p] \in Nat
        /\ previous[p] = None \/ previous[p] \in Nat
        /\ first[p] = None \/ first[p] \in Nat
    BY DEF CpuInv, CpuTypes
  <1>4. /\ read <= real /\ read <= done[p] + then /\ shown[p] <= read + twice[p]
        /\ ch <= done[p]
        /\ previous[p] # None => shown[p] + ch <= previous[p] + done[p] + twice[p]
    BY DEF CpuInv, ReadGood, ShownGood
  <1>5. whole[p] => /\ ch = done[p]
                    /\ first[p] # None => /\ previous[p] # None
                                          /\ previous[p] <= shown[p] + first[p] + twice[p]
    BY DEF CpuInv, WholeGood
  <1>6. cum = ch + then /\ twice'[p] = twice[p] + over
    OBVIOUS
  <1>7. /\ shown'[p] \in Nat
        /\ shown[p] <= shown'[p]
        /\ shown'[p] + ch <= cum + done[p] + twice[p]
        /\ previous[p] # None => cum - previous[p] <= shown'[p] - shown[p]
    <2>1. CASE previous[p] = None
      <3>1. shown'[p] = shown[p] + 0
        BY <2>1 DEF Cpu!Monus
      <3> HIDE DEF ch, then, over, real, og, read
      <3> QED
        BY <1>1, <1>3, <1>4, <1>6, <2>1, <3>1
    <2>2. CASE previous[p] # None /\ cum > previous[p]
      <3>1. shown'[p] = shown[p] + (cum - previous[p])
        BY <2>2 DEF Cpu!Monus
      <3> HIDE DEF ch, then, over, real, og, read
      <3> QED
        BY <1>1, <1>3, <1>4, <1>6, <2>2, <3>1
    <2>3. CASE previous[p] # None /\ ~(cum > previous[p])
      <3>1. shown'[p] = shown[p] + 0
        BY <2>3 DEF Cpu!Monus
      <3> HIDE DEF ch, then, over, real, og, read
      <3> QED
        BY <1>1, <1>3, <1>4, <1>6, <2>3, <3>1
    <2> QED
      BY <2>1, <2>2, <2>3
  <1>8. /\ first'[p] \in Nat /\ (first[p] = None => first'[p] = real)
        /\ (first[p] # None => first'[p] = first[p])
    BY <1>1, <1>3
  <1>9. until'[p] = read
    OBVIOUS
  <1> HIDE DEF ch, then, over, real, og, read
  <1>10. shown'[p] <= real + twice'[p] /\ shown'[p] + ch <= cum + done[p] + twice'[p]
    BY <1>1, <1>2, <1>3, <1>4, <1>6, <1>7
  <1>11. ASSUME whole[p] PROVE until'[p] <= cum /\ cum <= shown'[p] + first'[p] + twice'[p]
    <2>1. read <= cum
      BY <1>1, <1>3, <1>4, <1>5, <1>6, <1>11
    <2>2. CASE first[p] = None
      <3>1. cum <= real + over
        BY <1>1, <1>2, <1>3, <1>4, <1>6
      <3>2. first'[p] = real
        BY <1>8, <2>2
      <3> QED
        BY <1>1, <1>2, <1>3, <1>6, <1>7, <1>9, <2>1, <3>1, <3>2
    <2>3. CASE first[p] # None
      <3>1. /\ previous[p] \in Nat /\ first[p] \in Nat /\ first'[p] = first[p]
            /\ previous[p] <= shown[p] + first[p] + twice[p]
            /\ cum - previous[p] <= shown'[p] - shown[p]
        BY <1>3, <1>5, <1>7, <1>8, <1>11, <2>3
      <3> QED
        BY <1>2, <1>3, <1>6, <1>7, <1>9, <2>1, <3>1
    <2> QED
      BY <1>9, <2>1, <2>2, <2>3
  <1> QED
    BY <1>7, <1>8, <1>10, <1>11 DEF real, ch

\* The helper's first read starts from what is there.
LEMMA CpuRead ==
  ASSUME CpusApart, CpuInv, Cpu!ReadCurrent
  PROVE  CpuInv'
  <1> DEFINE read == [now |-> now, slots |-> slot, real |-> [p \in Procs |-> Cpu!Real(p)]]
  <1>0. CpuTypes /\ \A p \in Procs : Cpu!Real(p) \in Nat
    BY RealIn DEF CpuInv
  <1>1. /\ current' = read
        /\ UNCHANGED <<now, slot, totals, done, known, previous, shown, first, until, twice, whole>>
    BY DEF Cpu!ReadCurrent, Cpu!kernelVars, Cpu!serverVars
  <1>2. read \in CurrentSet /\ read.now = now /\ read.slots = slot
        /\ \A p \in Procs : read.real[p] = Cpu!Real(p)
    BY <1>0 DEF CpuTypes, CurrentSet
  <1> HIDE DEF read
  <1>3. CpuTypes'
    <2>1. now <= now
      BY <1>0 DEF CpuTypes
    <2> QED
      BY <1>0, <1>1, <1>2, <2>1 DEF CpuTypes
  <1>4. ASSUME NEW p \in Procs PROVE ReadGood(p)' /\ ShownGood(p)' /\ WholeGood(p)'
    <2>0. ReadGood(p) /\ ShownGood(p) /\ WholeGood(p)
      BY DEF CpuInv
    <2>1. /\ Cpu!Real(p)' = Cpu!Real(p) /\ Charged(p)' = Charged(p)
          /\ Cpu!Real(p) = done[p] + Cpu!Ongoing(slot, p, now)
      BY <1>1 DEF Cpu!Real, Charged
    <2>2. ReadGood(p)'
      <3>1. Cpu!Ongoing(current'.slots, p, current'.now) = Cpu!Ongoing(slot, p, now)
        BY <1>1, <1>2
      <3>2. current'.real[p] = Cpu!Real(p) /\ Cpu!Real(p) <= Cpu!Real(p)
        BY <1>0, <1>1, <1>2
      <3> QED
        BY <1>1, <2>0, <2>1, <3>1, <3>2 DEF ReadGood, ShownGood
    <2>3. ShownGood(p)'
      BY <1>1, <2>0, <2>1 DEF ShownGood
    <2>4. WholeGood(p)'
      BY <1>1, <1>2, <2>0, <2>1 DEF WholeGood
    <2> QED
      BY <2>2, <2>3, <2>4
  <1> QED
    BY <1>3, <1>4 DEF CpuInv

\* A snapshot that misses a process only ends its claim to be whole.
LEMMA CpuSnapshot ==
  ASSUME CpusApart, CpuInv, Cpu!Snapshot
  PROVE  CpuInv'
  <1>1. PICK seen \in SUBSET Procs :
          /\ known' = seen
          /\ whole' = [p \in Procs |-> whole[p] /\ (p \in seen \/ first[p] = None)]
    BY DEF Cpu!Snapshot
  <1>2. UNCHANGED <<now, slot, totals, done, current, previous, shown, first, until, twice>>
    BY DEF Cpu!Snapshot, Cpu!kernelVars
  <1>3. CpuTypes'
    BY <1>1, <1>2 DEF CpuInv, CpuTypes
  <1>4. ASSUME NEW p \in Procs PROVE ReadGood(p)' /\ ShownGood(p)' /\ WholeGood(p)'
    <2>1. Cpu!Real(p)' = Cpu!Real(p) /\ Charged(p)' = Charged(p)
      BY <1>2 DEF Cpu!Real, Charged
    <2>2. ReadGood(p) /\ ShownGood(p) /\ WholeGood(p)
      BY DEF CpuInv
    <2>3. ReadGood(p)' /\ ShownGood(p)'
      BY <1>2, <2>1, <2>2 DEF ReadGood, ShownGood
    <2>4. whole'[p] => whole[p] /\ (p \in known' \/ first[p] = None)
      BY <1>1
    <2>5. WholeGood(p)'
      BY <1>2, <2>1, <2>2, <2>4 DEF WholeGood
    <2> QED
      BY <2>3, <2>5
  <1> QED
    BY <1>3, <1>4 DEF CpuInv

\* What one process's batch is made of.
LEMMA CpuBatch ==
  ASSUME NEW given, Cpu!Process(given), NEW p \in Procs
  PROVE  /\ known' = known
         /\ IF p \in known /\ (given.totals[p] # None \/ Cpu!RunningOn(given, p) # {})
              THEN /\ shown'[p] = shown[p] + Cpu!Monus(Cpu!Cumulative(given, p), Cpu!Baseline(given, p))
                   /\ previous'[p] = Cpu!Cumulative(given, p)
                   /\ first'[p] = IF first[p] = None THEN given.high[p] ELSE first[p]
                   /\ until'[p] = given.low[p]
              ELSE /\ shown'[p] = shown[p] + 0 /\ previous'[p] = None
                   /\ first'[p] = first[p] /\ until'[p] = until[p]
  BY DEF Cpu!Process

LEMMA CpuBatchTypes ==
  ASSUME NEW given, Cpu!Process(given)
  PROVE  /\ shown' = [p \in Procs |-> shown'[p]] /\ previous' = [p \in Procs |-> previous'[p]]
         /\ first' = [p \in Procs |-> first'[p]] /\ until' = [p \in Procs |-> until'[p]]
  BY DEF Cpu!Process

\* A read that failed shows nothing and forgets the counters.
LEMMA CpuFails ==
  ASSUME CpusApart, CpuInv, Cpu!CollectFails
  PROVE  CpuInv'
  <1>1. /\ current' = None /\ whole' = [p \in Procs |-> FALSE]
        /\ UNCHANGED <<now, slot, totals, done, twice>>
    BY DEF Cpu!CollectFails, Cpu!kernelVars
  <1>2. /\ known' = known /\ shown' = shown /\ first' = first /\ until' = until
        /\ previous' \in [Procs -> Nat \cup {None}]
        /\ \A p \in Procs : previous'[p] # None => previous'[p] = previous[p]
    <2>1. CASE Cpu!Process(Cpu!Default)
      <3>1. ASSUME NEW p \in Procs
            PROVE  /\ known' = known /\ shown'[p] = shown[p] /\ previous'[p] = None
                   /\ first'[p] = first[p] /\ until'[p] = until[p]
        <4>1. Cpu!Default.totals[p] = None
          BY DEF Cpu!Default
        <4>2. Cpu!RunningOn(Cpu!Default, p) = {}
          BY DEF Cpu!RunningOn, Cpu!Default, Cpu!Free, CpusApart
        <4>3. shown[p] \in Nat
          BY DEF CpuInv, CpuTypes
        <4> QED
          BY <2>1, <4>1, <4>2, <4>3, CpuBatch
      <3>2. known' = known
        BY <2>1 DEF Cpu!Process
      <3> QED
        BY <2>1, <3>1, <3>2, CpuBatchTypes DEF CpuInv, CpuTypes
    <2>2. CASE UNCHANGED Cpu!serverVars
      BY <2>2 DEF Cpu!serverVars, CpuInv, CpuTypes
    <2> QED
      BY <2>1, <2>2 DEF Cpu!CollectFails
  <1>3. CpuTypes'
    BY <1>1, <1>2 DEF CpuInv, CpuTypes
  <1>4. ASSUME NEW p \in Procs PROVE ReadGood(p)' /\ ShownGood(p)' /\ WholeGood(p)'
    <2>1. Cpu!Real(p)' = Cpu!Real(p) /\ Charged(p)' = Charged(p)
      BY <1>1 DEF Cpu!Real, Charged
    <2>2. ShownGood(p)
      BY DEF CpuInv
    <2> QED
      BY <1>1, <1>2, <2>1, <2>2 DEF ReadGood, ShownGood, WholeGood
  <1> QED
    BY <1>3, <1>4 DEF CpuInv

\* A batch shows what the counters gained, and no more than the process ran.
LEMMA CpuTotals ==
  ASSUME CpusApart, CpuInv, Cpu!ReadTotals
  PROVE  CpuInv'
  <1> DEFINE given == Cpu!Collected
  <1>1. /\ current # None /\ current' = None /\ twice' = [p \in Procs |-> twice[p] + Cpu!Overlap(p)]
        /\ UNCHANGED <<now, slot, totals, done, whole>>
        /\ Cpu!Process(given) \/ UNCHANGED Cpu!serverVars
    BY DEF Cpu!ReadTotals, Cpu!kernelVars
  <1>2. /\ CpuTypes /\ current \in CurrentSet /\ current.now \in Nat
        /\ \A p \in Procs : ReadGood(p) /\ ShownGood(p) /\ WholeGood(p)
    BY <1>1 DEF CpuInv, CpuTypes, CurrentSet
  <1>3. ASSUME NEW p \in Procs
        PROVE  /\ Cpu!Overlap(p) \in Nat /\ twice[p] \in Nat
               /\ twice'[p] = twice[p] + Cpu!Overlap(p)
               /\ twice'[p] \in Nat /\ twice[p] <= twice'[p]
               /\ Cpu!Real(p)' = Cpu!Real(p) /\ Charged(p)' = Charged(p)
               /\ Cpu!Real(p) \in Nat /\ Charged(p) \in Nat
               /\ Cpu!Ongoing(current.slots, p, current.now) \in Nat /\ current.real[p] \in Nat
    <2>1. Cpu!Overlap(p) \in Nat
      BY <1>1, <1>2, OverlapBounds DEF CpuTypes, CpusApart
    <2>2. twice[p] \in Nat /\ twice'[p] = twice[p] + Cpu!Overlap(p)
      BY <1>1, <1>2 DEF CpuTypes
    <2>3. Cpu!Real(p)' = Cpu!Real(p) /\ Charged(p)' = Charged(p)
      BY <1>1 DEF Cpu!Real, Charged
    <2> QED
      BY <1>1, <1>2, <2>1, <2>2, <2>3, RealIn
  <1>4. CASE UNCHANGED Cpu!serverVars
    <2>1. UNCHANGED <<known, previous, shown, first, until>>
      BY <1>4 DEF Cpu!serverVars
    <2>2. CpuTypes'
      BY <1>1, <1>2, <1>3, <2>1 DEF CpuTypes
    <2>3. ASSUME NEW p \in Procs PROVE ReadGood(p)' /\ ShownGood(p)' /\ WholeGood(p)'
      <3>1. /\ shown[p] \in Nat /\ previous[p] \in Nat \cup {None}
            /\ first[p] \in Nat \cup {None} /\ until[p] \in Nat /\ done[p] \in Nat
        BY <1>2 DEF CpuTypes
      <3>2. ReadGood(p)'
        BY <1>1 DEF ReadGood
      <3>3. ShownGood(p)'
        BY <1>1, <1>2, <1>3, <2>1, <3>1 DEF ShownGood
      <3>4. WholeGood(p)'
        BY <1>1, <1>2, <1>3, <2>1, <3>1 DEF WholeGood
      <3> QED
        BY <3>2, <3>3, <3>4
    <2> QED
      BY <2>2, <2>3 DEF CpuInv
  <1>5. CASE Cpu!Process(given)
    <2>1. known' = known
      BY <1>5 DEF Cpu!Process
    <2>2. ASSUME NEW p \in Procs
          PROVE  /\ given.totals[p] = totals[p] /\ given.high[p] = Cpu!Real(p)
                 /\ given.low[p] = current.real[p]
                 /\ given.slots = current.slots /\ given.now = current.now
                 /\ Cpu!Cumulative(given, p)
                      = Charged(p) + Cpu!Ongoing(current.slots, p, current.now)
                 /\ Cpu!RunningOn(given, p) = {c \in Cpus : current.slots[c].proc = p}
      <3>1. /\ given.totals = totals /\ given.high[p] = Cpu!Real(p) /\ given.low = current.real
            /\ given.slots = current.slots /\ given.now = current.now
        BY DEF Cpu!Collected
      <3>2. Cpu!Cumulative(given, p) = Charged(p) + Cpu!Ongoing(current.slots, p, current.now)
        BY <3>1 DEF Cpu!Cumulative, Charged
      <3>3. Cpu!RunningOn(given, p) = {c \in Cpus : current.slots[c].proc = p}
        BY <1>1, <1>2, <3>1 DEF Cpu!RunningOn, CpuTypes
      <3> QED
        BY <3>1, <3>2, <3>3
    <2> HIDE DEF given
    <2>3. ASSUME NEW p \in Procs
          PROVE  /\ shown'[p] \in Nat /\ previous'[p] \in Nat \cup {None}
                 /\ first'[p] \in Nat \cup {None} /\ until'[p] \in Nat
                 /\ ShownGood(p)' /\ WholeGood(p)'
      <3> DEFINE cum == Charged(p) + Cpu!Ongoing(current.slots, p, current.now)
                 in == p \in known /\ (totals[p] # None \/ \E c \in Cpus : current.slots[c].proc = p)
      <3>0. /\ shown[p] \in Nat /\ previous[p] \in Nat \cup {None}
            /\ first[p] \in Nat \cup {None} /\ until[p] \in Nat /\ done[p] \in Nat
        BY <1>2 DEF CpuTypes
      <3>1. CASE in
        <4>1. /\ shown'[p] = shown[p] + Cpu!Monus(cum, IF previous[p] = None THEN cum ELSE previous[p])
              /\ previous'[p] = cum
              /\ first'[p] = IF first[p] = None THEN Cpu!Real(p) ELSE first[p]
              /\ until'[p] = current.real[p]
          BY <1>5, <2>2, <3>1, CpuBatch DEF Cpu!Baseline
        <4>2. cum \in Nat /\ cum # None
          BY <1>3 DEF CpusApart
        <4> HIDE DEF cum
        <4>3. /\ shown'[p] \in Nat /\ first'[p] \in Nat
              /\ shown'[p] <= Cpu!Real(p) + twice'[p]
              /\ shown'[p] + Charged(p) <= cum + done[p] + twice'[p]
              /\ whole[p] => until'[p] <= cum /\ cum <= shown'[p] + first'[p] + twice'[p]
          BY <1>1, <1>3, <4>1, <4>2, CpuProcessed DEF cum
        <4>4. ShownGood(p)'
          BY <1>1, <1>2, <1>3, <4>1, <4>3 DEF ShownGood
        <4>5. WholeGood(p)'
          <5>1. whole[p] => Charged(p) = done[p]
            BY <1>2 DEF WholeGood
          <5>2. whole[p] => totals[p] # None \/ \E c \in Cpus : slot[c].proc = p
            <6>1. whole[p] /\ first[p] # None => totals[p] # None \/ \E c \in Cpus : slot[c].proc = p
              BY <1>2 DEF WholeGood
            <6>2. whole[p] /\ (\E c \in Cpus : current.slots[c].proc = p) =>
                    totals[p] # None \/ \E c \in Cpus : slot[c].proc = p
              BY <1>1, <1>2 DEF WholeGood
            <6> QED
              BY <3>1, <6>1, <6>2
          <5> QED
            BY <1>1, <1>3, <2>1, <3>1, <4>1, <4>2, <4>3, <5>1, <5>2 DEF WholeGood
        <4> QED
          BY <1>3, <4>1, <4>2, <4>3, <4>4, <4>5
      <3>2. CASE ~in
        <4>1. /\ shown'[p] = shown[p] /\ previous'[p] = None
              /\ first'[p] = first[p] /\ until'[p] = until[p]
          BY <1>5, <2>2, <3>0, <3>2, CpuBatch
        <4>2. ShownGood(p)'
          BY <1>1, <1>2, <1>3, <3>0, <4>1 DEF ShownGood
        <4>3. whole[p] => first[p] = None /\ Charged(p) = done[p]
          BY <1>1, <1>2, <3>2 DEF WholeGood
        <4>4. WholeGood(p)'
          BY <1>1, <1>3, <4>1, <4>3 DEF WholeGood
        <4> QED
          BY <3>0, <4>1, <4>2, <4>4
      <3> QED
        BY <3>1, <3>2
    <2>4. CpuTypes'
      BY <1>1, <1>2, <1>3, <1>5, <2>1, <2>3, CpuBatchTypes DEF CpuTypes
    <2>5. \A p \in Procs : ReadGood(p)'
      BY <1>1 DEF ReadGood
    <2> QED
      BY <2>3, <2>4, <2>5 DEF CpuInv
  <1> QED
    BY <1>1, <1>4, <1>5

\* The properties of CpuActivity do not see the rest of MCObservation.
LEMMA AboutCpus ==
  /\ MCInit /\ which = "cpu" => Cpu!Init
  /\ [MCNext]_allVars /\ which = "cpu" => which' = "cpu" /\ [Cpu!Next]_(Cpu!vars)
  /\ [MCNext]_allVars /\ which # "cpu" => which' # "cpu"
  BY DEF MCInit, MCNext, allVars, cpuOnly, stackCpu, symbolCpu, eventCpu, Cpu!vars,
         Cpu!kernelVars, Cpu!serverVars

LEMMA CpuStep ==
  ASSUME CpusApart, CpuInv, [Cpu!Next]_(Cpu!vars)
  PROVE  CpuInv'
  <1>1. CASE UNCHANGED Cpu!vars
    <2>1. UNCHANGED <<now, slot, totals, done, current, known, previous, shown, first, until,
                      twice, whole>>
      BY <1>1 DEF Cpu!vars, Cpu!kernelVars, Cpu!serverVars
    <2> QED
      BY <2>1 DEF CpuInv, CpuTypes, ReadGood, ShownGood, WholeGood, Charged, Cpu!Real
  <1>2. CASE Cpu!Next
    BY <1>2, KernelCpus, CpuRead, CpuTotals, CpuFails, CpuSnapshot DEF Cpu!Next
  <1> QED
    BY <1>1, <1>2

\* The run time of the batches is time the process ran, and while its counters were
\* kept it is all of it since the process was first seen, but for an interval that
\* ended between the helper's two reads: for any CPUs, processes and time, whatever is
\* evicted, lost or missed (system/sched.rs, ActivityProcessor::cpu).
THEOREM RuntimesReal ==
  ASSUME CpusApart
  PROVE  MCSpec => []RuntimeOfCpus
  <1> DEFINE Checked == which = "cpu" => CpuInv
  <1>1. ASSUME Cpu!Init PROVE CpuInv
    <2> USE <1>1 DEF Cpu!Init
    <2>1. CpuTypes
      BY DEF CpuTypes, SlotSet, Cpu!Free
    <2>2. ASSUME NEW p \in Procs PROVE ReadGood(p) /\ ShownGood(p) /\ WholeGood(p)
      <3>1. Cpu!Real(p) \in Nat
        BY <2>1, RealIn
      <3> QED
        BY <3>1 DEF ReadGood, ShownGood, WholeGood, Charged
    <2> QED
      BY <2>1, <2>2 DEF CpuInv
  <1>2. MCInit => Checked
    BY <1>1, AboutCpus
  <1>3. Checked /\ [MCNext]_allVars => Checked'
    BY AboutCpus, CpuStep
  <1>4. Checked => RuntimeOfCpus
    <2> SUFFICES ASSUME CpuInv PROVE Cpu!RuntimeReal /\ Cpu!RuntimeWhole
      BY DEF RuntimeOfCpus
    <2>1. Cpu!RuntimeReal
      BY DEF CpuInv, ShownGood, Cpu!RuntimeReal
    <2>2. ASSUME NEW p \in Procs, whole[p], first[p] # None
          PROVE  shown[p] + first[p] + twice[p] >= until[p]
      <3>1. /\ until[p] \in Nat /\ previous[p] \in Nat /\ until[p] <= previous[p]
            /\ previous[p] <= shown[p] + first[p] + twice[p]
            /\ shown[p] \in Nat /\ first[p] \in Nat /\ twice[p] \in Nat
        BY <2>2 DEF CpuInv, CpuTypes, WholeGood
      <3> QED
        BY <3>1
    <2> QED
      BY <2>1, <2>2 DEF Cpu!RuntimeWhole
  <1> HIDE DEF Checked
  <1> QED
    BY <1>2, <1>3, <1>4, PTL DEF MCSpec

-----------------------------------------------------------------------------
(* HardwareView: the view is closed and its paths follow the tree.         *)

\* Bridges and functions are numbered, and finitely many.
NodesNumbered ==
  /\ Bridges \cap Functions = {}
  /\ \E N \in Nat : Bridges \cup Functions \subseteq 0..N

\* A parent has the smaller number.
TreeGood ==
  /\ parent \in [Functions -> Hardware!Nodes] /\ \A n \in Functions : parent[n] < n
  /\ interest \subseteq Functions /\ present \subseteq Functions

\* The recursion that defines the paths of sysfs has a solution.
LEMMA ChainIs ==
  ASSUME NodesNumbered, TreeGood
  PROVE  \A n \in Hardware!Nodes :
           Hardware!Chain[n] = IF n \in Bridges THEN <<n>> ELSE Append(Hardware!Chain[parent[n]], n)
  <1> DEFINE Nodes == Hardware!Nodes
             Upto(k) == {n \in Nodes : n <= k}
             Next1(f, n) == IF n \in Bridges THEN <<n>> ELSE Append(f[parent[n]], n)
             Solves(f, k) == f = [n \in Upto(k) |-> Next1(f, n)]
             T == {k \in Nat : \E f : Solves(f, k)}
  <1>1. PICK N \in Nat : Nodes \subseteq 0..N
    BY DEF NodesNumbered, Hardware!Nodes
  <1>2. \A n \in Nodes : n \in Nat /\ (n \notin Bridges => parent[n] \in Nodes /\ parent[n] < n)
    BY <1>1 DEF TreeGood, Hardware!Nodes
  <1> HIDE DEF Nodes
  <1>3. 0 \in T
    <2> DEFINE f == [n \in Upto(0) |-> <<n>>]
    <2>1. \A n \in Upto(0) : n \in Bridges
      BY <1>2
    <2>2. Solves(f, 0)
      BY <2>1
    <2> QED
      BY <2>2, Zenon
  <1>4. ASSUME NEW k \in Nat \ {0}, k - 1 \in T PROVE k \in T
    <2>1. PICK f : Solves(f, k - 1)
      BY <1>4
    <2> DEFINE g == [n \in Upto(k) |-> Next1(f, n)]
    <2>2. ASSUME NEW n \in Upto(k - 1) PROVE n \in Upto(k) /\ g[n] = f[n]
      <3>1. n \in Upto(k)
        BY <1>2
      <3> HIDE DEF Upto
      <3>2. f[n] = Next1(f, n) /\ g[n] = Next1(f, n)
        BY <2>1, <3>1, Zenon
      <3> QED
        BY <3>1, <3>2, Zenon
    <2>3. ASSUME NEW n \in Upto(k) PROVE Next1(g, n) = Next1(f, n)
      <3>1. CASE n \in Bridges
        BY <3>1, Zenon
      <3>2. CASE n \notin Bridges
        <4>1. parent[n] \in Upto(k - 1)
          BY <1>2, <3>2
        <4>2. g[parent[n]] = f[parent[n]]
          BY <2>2, <4>1, Zenon
        <4> HIDE DEF g
        <4> QED
          BY <3>2, <4>2
      <3> QED
        BY <3>1, <3>2
    <2>4. g = [n \in Upto(k) |-> Next1(g, n)]
      <3> HIDE DEF Upto
      <3>1. \A n \in Upto(k) : Next1(g, n) = Next1(f, n)
        BY <2>3, Zenon
      <3> HIDE DEF Next1
      <3> QED
        BY <3>1
    <2> HIDE DEF g
    <2> QED
      BY <2>4, Zenon
  <1>5. N \in T
    <2> HIDE DEF T
    <2>1. \A n \in 0..N : n \in T
      BY <1>3, <1>4, Spans!Reaches
    <2> QED
      BY <2>1
  <1>6. PICK f : f = [n \in Nodes |-> Next1(f, n)]
    <2>1. PICK f : Solves(f, N)
      BY <1>5
    <2>2. Upto(N) = Nodes
      <3>1. \A n \in Nodes : n <= N
        BY <1>1
      <3> QED
        BY <3>1, Zenon
    <2> QED
      BY <2>1, <2>2, Zenon
  <1>7. Hardware!Chain = [n \in Nodes |-> Next1(Hardware!Chain, n)]
    BY <1>6, Zenon DEF Hardware!Chain, Nodes
  <1> QED
    BY <1>7, Zenon DEF Nodes

\* A path of sysfs starts at a host bridge, goes from parent to child up to its node,
\* and its beginnings are the paths of the nodes on it.
PathGood(n) ==
  LET c == Hardware!Chain[n]
  IN  /\ c \in Seq(Hardware!Nodes) /\ Len(c) >= 1 /\ c[Len(c)] = n /\ c[1] \in Bridges
      /\ \A i \in 2..Len(c) : c[i] \in Functions /\ parent[c[i]] = c[i - 1]
      /\ \A i \in 1..Len(c) : c[i] <= n
      /\ \A i \in 1..Len(c) : /\ Len(Hardware!Chain[c[i]]) = i
                              /\ \A j \in 1..i : Hardware!Chain[c[i]][j] = c[j]

LEMMA ChainShape ==
  ASSUME NodesNumbered, TreeGood
  PROVE  \A n \in Hardware!Nodes : PathGood(n)
  <1> DEFINE Nodes == Hardware!Nodes
             T == {k \in Nat : \A n \in Nodes : n <= k => PathGood(n)}
  <1>1. PICK N \in Nat : Nodes \subseteq 0..N
    BY DEF NodesNumbered, Hardware!Nodes
  <1>2. \A n \in Nodes : /\ n \in Nat
                         /\ n \in Bridges \/ (n \in Functions /\ parent[n] \in Nodes /\ parent[n] < n)
    BY <1>1 DEF TreeGood, Hardware!Nodes
  <1>3. ASSUME NEW n \in Nodes, n \in Bridges PROVE PathGood(n)
    <2>1. Hardware!Chain[n] = <<n>>
      BY <1>3, ChainIs
    <2> DEFINE c == Hardware!Chain[n]
    <2>2. /\ c \in Seq(Nodes) /\ Len(c) = 1 /\ c[1] = n /\ n <= n
      BY <1>2, <2>1
    <2>3. \A i \in 1..Len(c) : i = 1
      BY <2>2
    <2> QED
      BY <1>3, <2>2, <2>3 DEF PathGood
  <1>4. ASSUME NEW n \in Nodes, n \in Functions, PathGood(parent[n]) PROVE PathGood(n)
    <2> DEFINE m == parent[n]
               b == Hardware!Chain[m]
               c == Hardware!Chain[n]
    <2>1. n \notin Bridges /\ m \in Nodes /\ m < n /\ n \in Nat /\ m \in Nat
      BY <1>2, <1>4 DEF NodesNumbered
    <2>2. c = Append(b, n)
      BY <2>1, ChainIs
    <2>3. /\ b \in Seq(Nodes) /\ Len(b) \in Nat /\ Len(b) >= 1 /\ b[Len(b)] = m /\ b[1] \in Bridges
          /\ \A i \in 2..Len(b) : b[i] \in Functions /\ parent[b[i]] = b[i - 1]
          /\ \A i \in 1..Len(b) : b[i] <= m
          /\ \A i \in 1..Len(b) : /\ Len(Hardware!Chain[b[i]]) = i
                                  /\ \A j \in 1..i : Hardware!Chain[b[i]][j] = b[j]
      BY <1>4 DEF PathGood
    <2> HIDE DEF b, Nodes
    <2>4. /\ c \in Seq(Nodes) /\ Len(c) = Len(b) + 1 /\ c[Len(c)] = n
          /\ \A i \in 1..Len(b) : c[i] = b[i]
      BY <2>2, <2>3
    <2>5. \A i \in 1..Len(b) : b[i] \in Nodes /\ b[i] \in Nat
      BY <1>2, <2>3
    <2> HIDE DEF c, m
    <2>6. Len(c) >= 1 /\ c[1] \in Bridges
      BY <2>3, <2>4
    <2>7. ASSUME NEW i \in 2..Len(c) PROVE c[i] \in Functions /\ parent[c[i]] = c[i - 1]
      <3>1. CASE i = Len(c)
        BY <1>4, <2>3, <2>4, <3>1 DEF m
      <3>2. CASE i # Len(c)
        BY <2>3, <2>4, <3>2
      <3> QED
        BY <3>1, <3>2
    <2>8. \A i \in 1..Len(c) : c[i] <= n
      BY <2>1, <2>3, <2>4, <2>5
    <2>9. ASSUME NEW i \in 1..Len(c)
          PROVE  Len(Hardware!Chain[c[i]]) = i /\ \A j \in 1..i : Hardware!Chain[c[i]][j] = c[j]
      <3>1. CASE i = Len(c)
        BY <2>4, <3>1 DEF c
      <3>2. CASE i # Len(c)
        BY <2>3, <2>4, <3>2
      <3> QED
        BY <3>1, <3>2
    <2> QED
      BY <2>4, <2>6, <2>7, <2>8, <2>9 DEF PathGood, c, Nodes
  <1> HIDE DEF Nodes
  <1>5. 0 \in T
    BY <1>2, <1>3
  <1>6. ASSUME NEW k \in Nat \ {0}, k - 1 \in T PROVE k \in T
    <2>1. ASSUME NEW n \in Nodes, n <= k PROVE PathGood(n)
      <3>1. CASE n \in Bridges
        BY <1>3, <3>1
      <3>2. CASE n \in Functions /\ parent[n] \in Nodes /\ parent[n] < n
        <4>1. parent[n] <= k - 1
          BY <1>2, <2>1, <3>2
        <4> QED
          BY <1>4, <1>6, <3>2, <4>1
      <3> QED
        BY <1>2, <3>1, <3>2
    <2> QED
      BY <2>1
  <1>7. N \in T
    <2> HIDE DEF T
    <2>1. \A n \in 0..N : n \in T
      BY <1>5, <1>6, Spans!Reaches
    <2> QED
      BY <2>1
  <1> QED
    BY <1>1, <1>7 DEF Nodes

\* The length two paths have in common: the longest beginning of both.
LEMMA CommonIs ==
  ASSUME NEW S, NEW ca \in Seq(S), NEW cb \in Seq(S)
  PROVE  LET k == Hardware!CommonLength(ca, cb)
         IN  /\ k \in 0..Len(ca) /\ k <= Len(cb)
             /\ \A i \in 1..k : ca[i] = cb[i]
             /\ \A j \in 0..Len(ca) : j <= Len(cb) /\ (\A i \in 1..j : ca[i] = cb[i]) => j <= k
  <1> DEFINE same == {k \in 0..Len(ca) : k <= Len(cb) /\ SubSeq(ca, 1, k) = SubSeq(cb, 1, k)}
             Agree(k) == k <= Len(cb) /\ \A i \in 1..k : ca[i] = cb[i]
  <1>0. Len(ca) \in Nat /\ Len(cb) \in Nat
    OBVIOUS
  <1>1. ASSUME NEW k \in 0..Len(ca) PROVE k \in same <=> Agree(k)
    <2>1. CASE k <= Len(cb)
      <3>1. /\ Len(SubSeq(ca, 1, k)) = k /\ Len(SubSeq(cb, 1, k)) = k
            /\ SubSeq(ca, 1, k) \in Seq(S) /\ SubSeq(cb, 1, k) \in Seq(S)
            /\ \A i \in 1..k : SubSeq(ca, 1, k)[i] = ca[i] /\ SubSeq(cb, 1, k)[i] = cb[i]
        BY <1>0, <2>1
      <3>2. (\A i \in 1..k : ca[i] = cb[i]) => SubSeq(ca, 1, k) = SubSeq(cb, 1, k)
        BY <3>1, SeqEqual
      <3> QED
        BY <2>1, <3>1, <3>2
    <2> QED
      BY <2>1
  <1>2. \E k \in same : \A j \in same : j <= k
    <2> DEFINE U == {k \in 0..Len(ca) : \E j \in same : j >= k}
    <2>1. 0 \in same
      BY <1>0, <1>1
    <2> HIDE DEF same
    <2>2. SUFFICES ASSUME ~ \E k \in same : \A j \in same : j <= k PROVE FALSE
      OBVIOUS
    <2>3. same \subseteq 0..Len(ca)
      BY DEF same
    <2>4. 0 \in U
      BY <1>0, <2>1
    <2>5. \A n \in 1..Len(ca) : n - 1 \in U => n \in U
      <3> SUFFICES ASSUME NEW n \in 1..Len(ca), n - 1 \in U PROVE n \in U
        OBVIOUS
      <3>1. PICK j \in same : j >= n - 1
        OBVIOUS
      <3>2. PICK i \in same : ~(i <= j)
        BY <2>2
      <3>3. i >= n
        BY <1>0, <2>3, <3>1, <3>2
      <3> QED
        BY <3>2, <3>3
    <2>6. Len(ca) \in U
      <3> HIDE DEF U
      <3>1. \A n \in 0..Len(ca) : n \in U
        BY <1>0, <2>4, <2>5, Spans!Reaches
      <3> QED
        BY <1>0, <3>1
    <2>7. PICK j \in same : j >= Len(ca)
      BY <2>6
    <2>8. \A i \in same : i <= j
      BY <1>0, <2>3, <2>7
    <2> QED
      BY <2>2, <2>8
  <1> DEFINE k == Hardware!CommonLength(ca, cb)
  <1>3. k \in same /\ \A j \in same : j <= k
    <2>1. k = CHOOSE x \in same : \A j \in same : j <= x
      BY DEF Hardware!CommonLength
    <2> HIDE DEF k, same
    <2> QED
      BY <1>2, <2>1
  <1>4. k \in 0..Len(ca) /\ Agree(k)
    BY <1>1, <1>3
  <1>5. \A j \in 0..Len(ca) : Agree(j) => j <= k
    BY <1>1, <1>3
  <1> HIDE DEF k, same
  <1> QED
    BY <1>4, <1>5 DEF k

\* The walk from a device to another: up its own path as far as the common part reaches,
\* or to its host bridge, and down the other's.
Walks(walk, ca, cb, m, c) ==
  /\ m \in 0..Len(ca) /\ m < Len(cb) /\ Len(ca) >= 1 /\ m = Hardware!CommonLength(ca, cb)
  /\ c = (IF m = 0 THEN 1 ELSE m)
  /\ walk = (<<ca[Len(ca)]>> \o Hardware!Via(ca, cb)) \o <<cb[Len(cb)]>>

LEMMA WalkIs ==
  ASSUME NEW S, NEW ca \in Seq(S), NEW cb \in Seq(S), NEW m, NEW c, NEW walk,
         Walks(walk, ca, cb, m, c)
  PROVE  /\ walk \in Seq(S) /\ Len(walk) = ((Len(ca) + 1) - c) + (Len(cb) - m)
         /\ \A i \in 1..((Len(ca) + 1) - c) : walk[i] = ca[Len(ca) + 1 - i]
         /\ \A j \in 1..(Len(cb) - m) : walk[((Len(ca) + 1) - c) + j] = cb[m + j]
  <1> DEFINE a == Len(ca)
             b == Len(cb)
             u == a - c
             d == b - 1 - m
             ups == SubSeq(ca, c, a - 1)
             rev == Hardware!Reversed(ups)
             downs == SubSeq(cb, m + 1, b - 1)
             via == rev \o downs
  <1>0. /\ a \in Nat /\ b \in Nat /\ c \in Nat /\ c >= 1 /\ a >= 1 /\ b >= 1 /\ m \in Nat
        /\ u \in Nat /\ d \in Nat /\ a = u + c /\ b = (d + 1) + m
    BY SMTT(30) DEF Walks
  <1>a. a \in Nat /\ b \in Nat /\ c \in 1..a /\ m \in Nat /\ m <= b - 1 /\ b >= 1
    BY DEF Walks
  <1>1. Hardware!Via(ca, cb) = via
    BY DEF Walks, Hardware!Via, Hardware!Max1
  <1>2. /\ ups \in Seq(S) /\ Len(ups) = u
        /\ \A i \in 1..u : ups[i] = ca[c + i - 1]
    <2>1. /\ ups \in Seq(S) /\ Len(ups) = a - c
          /\ \A i \in 1..(a - c) : ups[i] = ca[c + i - 1]
      BY <1>a
    <2> QED
      BY <2>1
  <1>4. /\ downs \in Seq(S) /\ Len(downs) = d
        /\ \A i \in 1..d : downs[i] = cb[m + i]
    <2>1. /\ downs \in Seq(S) /\ Len(downs) = b - 1 - m
          /\ \A i \in 1..(b - 1 - m) : downs[i] = cb[m + i]
      BY <1>a
    <2> QED
      BY <2>1
  <1> HIDE DEF ups, downs, u, d
  <1>3. /\ rev \in Seq(S) /\ Len(rev) = u
        /\ \A i \in 1..u : rev[i] = ca[a - i]
    <2>1. rev = [i \in 1..u |-> ups[u + 1 - i]]
      BY <1>2 DEF Hardware!Reversed
    <2>2. ASSUME NEW i \in 1..u PROVE ups[u + 1 - i] = ca[a - i] /\ ups[u + 1 - i] \in S
      <3>1. u + 1 - i \in 1..u /\ c + (u + 1 - i) - 1 = a - i
        BY <1>0
      <3>2. ups[u + 1 - i] = ca[c + (u + 1 - i) - 1] /\ ups[u + 1 - i] \in S
        BY <1>2, <3>1
      <3> QED
        BY <3>1, <3>2
    <2> HIDE DEF rev
    <2> QED
      BY <1>0, <2>1, <2>2
  <1> HIDE DEF rev
  <1>5. /\ via \in Seq(S) /\ Len(via) = u + d
        /\ \A i \in 1..u : via[i] = ca[a - i]
        /\ \A i \in 1..d : via[u + i] = cb[m + i]
    <2>1. via \in Seq(S) /\ Len(via) = u + d
      BY <1>3, <1>4, ConcatProperties
    <2>2. ASSUME NEW i \in 1..u PROVE via[i] = rev[i]
      BY <1>0, <1>3, <1>4
    <2>3. ASSUME NEW i \in 1..d PROVE via[u + i] = downs[i]
      <3>1. u + i \in (u + 1)..(u + d) /\ (u + i) - u = i
        BY <1>0
      <3> QED
        BY <1>0, <1>3, <1>4, <3>1, SMTT(30)
    <2> HIDE DEF via
    <2> QED
      BY <1>3, <1>4, <2>1, <2>2, <2>3
  <1>b. walk = (<<ca[a]>> \o via) \o <<cb[b]>>
    BY <1>1, Zenon DEF Walks
  <1> HIDE DEF via
  <1>6. ca[a] \in S /\ cb[b] \in S
    BY <1>0
  <1>7. /\ walk \in Seq(S) /\ Len(walk) = Len(via) + 2
        /\ walk[1] = ca[a] /\ walk[Len(via) + 2] = cb[b]
        /\ \A i \in 1..Len(via) : walk[i + 1] = via[i]
    <2> DEFINE w == <<ca[a]>> \o via
    <2>1. /\ w \in Seq(S) /\ Len(w) = Len(via) + 1 /\ w[1] = ca[a]
          /\ \A i \in 1..Len(via) : w[i + 1] = via[i]
      BY <1>5, <1>6
    <2> HIDE DEF w
    <2>2. /\ w \o <<cb[b]>> \in Seq(S) /\ Len(w \o <<cb[b]>>) = Len(w) + 1
          /\ \A i \in 1..Len(w) : (w \o <<cb[b]>>)[i] = w[i]
          /\ (w \o <<cb[b]>>)[Len(w) + 1] = cb[b]
      BY <1>6, <2>1
    <2> QED
      BY <1>5, <1>b, <2>1, <2>2 DEF w
  <1>8. Len(walk) = (u + 1) + (d + 1)
    BY <1>0, <1>5, <1>7
  <1>9. ASSUME NEW i \in 1..(u + 1) PROVE walk[i] = ca[a + 1 - i]
    <2>1. CASE i = 1
      BY <1>0, <1>7, <2>1
    <2>2. CASE i # 1
      <3> DEFINE j == i - 1
      <3>1. j \in 1..u /\ j \in 1..Len(via) /\ i = j + 1 /\ a - j = a + 1 - i
        BY <1>0, <1>5, <2>2
      <3> HIDE DEF j
      <3> QED
        BY <1>5, <1>7, <3>1
    <2> QED
      BY <2>1, <2>2
  <1>10. ASSUME NEW j \in 1..(d + 1) PROVE walk[(u + 1) + j] = cb[m + j]
    <2>1. CASE j = d + 1
      <3>1. (u + 1) + j = Len(via) + 2 /\ m + j = b
        BY <1>0, <1>5, <2>1
      <3> QED
        BY <1>7, <3>1
    <2>2. CASE j # d + 1
      <3>1. j \in 1..d /\ u + j \in 1..Len(via) /\ (u + 1) + j = (u + j) + 1
        BY <1>0, <1>5, <2>2
      <3>2. walk[(u + j) + 1] = via[u + j] /\ via[u + j] = cb[m + j]
        BY <1>5, <1>7, <3>1
      <3> QED
        BY <3>1, <3>2
    <2> QED
      BY <2>1, <2>2
  <1>11. (a + 1) - c = u + 1 /\ b - m = d + 1
    BY <1>0
  <1> QED
    BY <1>7, <1>8, <1>9, <1>10, <1>11, Zenon

\* What holds of the walk between two devices, along the tree.
WalkGood(walk, a, b) ==
  LET m == Hardware!CommonLength(Hardware!Chain[a], Hardware!Chain[b])
      bridges == {i \in DOMAIN walk : walk[i] \in Bridges}
  IN  /\ Cardinality(Hardware!SeqRange(walk)) = Len(walk)
      /\ \A i \in 1..(Len(walk) - 1) :
           Hardware!Adjacent(walk[i], walk[i + 1]) \/ {i, i + 1} \subseteq bridges
      /\ m \in Nat
      /\ m = 0 => Cardinality(bridges) = 2
      /\ m > 0 /\ Hardware!Chain[a][m] \in Bridges => Cardinality(bridges) = 1
      /\ m > 0 /\ Hardware!Chain[a][m] \notin Bridges => Cardinality(bridges) = 0

LEMMA WalkIsGood ==
  ASSUME NodesNumbered, TreeGood, NEW a \in Functions, NEW b \in Functions, a < b
  PROVE  WalkGood((<<a>> \o Hardware!Via(Hardware!Chain[a], Hardware!Chain[b])) \o <<b>>, a, b)
  <1> DEFINE ca == Hardware!Chain[a]
             cb == Hardware!Chain[b]
             m == Hardware!CommonLength(ca, cb)
             c == IF m = 0 THEN 1 ELSE m
             walk == (<<a>> \o Hardware!Via(ca, cb)) \o <<b>>
             la == Len(ca)
             lb == Len(cb)
             up == (la + 1) - c
             down == lb - m
             Depth(x) == Len(Hardware!Chain[x])
  <1>1. /\ ca \in Seq(Hardware!Nodes) /\ la \in Nat /\ la >= 1 /\ ca[la] = a /\ ca[1] \in Bridges
        /\ \A i \in 2..la : ca[i] \in Functions /\ parent[ca[i]] = ca[i - 1]
        /\ \A i \in 1..la : ca[i] <= a
        /\ \A i \in 1..la : Depth(ca[i]) = i /\ \A j \in 1..i : Hardware!Chain[ca[i]][j] = ca[j]
    BY ChainShape DEF PathGood, Hardware!Nodes
  <1>2. /\ cb \in Seq(Hardware!Nodes) /\ lb \in Nat /\ lb >= 1 /\ cb[lb] = b /\ cb[1] \in Bridges
        /\ \A i \in 2..lb : cb[i] \in Functions /\ parent[cb[i]] = cb[i - 1]
        /\ \A i \in 1..lb : Depth(cb[i]) = i /\ \A j \in 1..i : Hardware!Chain[cb[i]][j] = cb[j]
    BY ChainShape DEF PathGood, Hardware!Nodes
  <1>3. a \in Nat /\ b \in Nat
    BY DEF NodesNumbered
  <1> HIDE DEF ca, cb
  <1>4. /\ m \in 0..la /\ m <= lb
        /\ \A i \in 1..m : ca[i] = cb[i]
        /\ \A j \in 0..la : j <= lb /\ (\A i \in 1..j : ca[i] = cb[i]) => j <= m
    BY <1>1, <1>2, CommonIs
  <1> HIDE DEF m
  <1>5. m < lb
    <2> SUFFICES ASSUME m = lb PROVE FALSE
      BY <1>2, <1>4
    <2>1. lb \in 1..m /\ lb \in 1..la /\ ca[lb] = cb[lb]
      BY <1>1, <1>2, <1>4
    <2> QED
      BY <1>1, <1>2, <1>3, <2>1
  <1>6. /\ c \in 1..la /\ up \in Nat /\ up >= 1 /\ down \in Nat /\ down >= 1 /\ m \in Nat
        /\ (m = 0 => c = 1) /\ (m > 0 => c = m) /\ up = la + 1 - c /\ lb = m + down
    BY <1>1, <1>2, <1>4, <1>5
  <1>7. Walks(walk, ca, cb, m, c)
    BY <1>1, <1>2, <1>4, <1>5 DEF Walks, m
  <1> HIDE DEF walk, c
  <1>8. /\ walk \in Seq(Hardware!Nodes) /\ Len(walk) = up + down
        /\ \A i \in 1..up : walk[i] = ca[la + 1 - i]
        /\ \A j \in 1..down : walk[up + j] = cb[m + j]
    BY <1>1, <1>2, <1>7, WalkIs
  <1> HIDE DEF up, down
  <1>9. \A i \in 1..Len(walk) : i \in 1..up \/ \E j \in 1..down : i = up + j
    <2> SUFFICES ASSUME NEW i \in 1..Len(walk), i \notin 1..up PROVE \E j \in 1..down : i = up + j
      OBVIOUS
    <2>1. i - up \in 1..down /\ i = up + (i - up)
      BY <1>6, <1>8
    <2> QED
      BY <2>1
  <1> HIDE DEF la, lb
  \* Where a node stands in the walk is told by its depth.
  <1>10. \A i \in 1..up : /\ la + 1 - i \in 1..la /\ la + 1 - i >= c
                          /\ Depth(walk[i]) = la + 1 - i
                          /\ (walk[i] \in Bridges <=> la + 1 - i = 1)
    <2> SUFFICES ASSUME NEW i \in 1..up
                 PROVE  /\ la + 1 - i \in 1..la /\ la + 1 - i >= c
                        /\ Depth(walk[i]) = la + 1 - i
                        /\ (walk[i] \in Bridges <=> la + 1 - i = 1)
      OBVIOUS
    <2>1. la + 1 - i \in 1..la /\ la + 1 - i >= c /\ walk[i] = ca[la + 1 - i]
      BY <1>1, <1>6, <1>8
    <2>2. \A k \in 1..la : ca[k] \in Bridges <=> k = 1
      BY <1>1 DEF NodesNumbered
    <2> QED
      BY <1>1, <2>1, <2>2
  <1>11. \A j \in 1..down : /\ m + j \in 1..lb
                            /\ Depth(walk[up + j]) = m + j
                            /\ (walk[up + j] \in Bridges <=> m + j = 1)
    <2> SUFFICES ASSUME NEW j \in 1..down
                 PROVE  /\ m + j \in 1..lb
                        /\ Depth(walk[up + j]) = m + j
                        /\ (walk[up + j] \in Bridges <=> m + j = 1)
      OBVIOUS
    <2>1. m + j \in 1..lb /\ walk[up + j] = cb[m + j]
      BY <1>2, <1>6, <1>8
    <2>2. \A k \in 1..lb : cb[k] \in Bridges <=> k = 1
      BY <1>2 DEF NodesNumbered
    <2> QED
      BY <1>2, <2>1, <2>2
  <1> HIDE DEF Depth
  <1>12. \A i \in 1..up, j \in 1..down : walk[i] # walk[up + j]
    <2> SUFFICES ASSUME NEW i \in 1..up, NEW j \in 1..down, walk[i] = walk[up + j] PROVE FALSE
      OBVIOUS
    <2> DEFINE k == m + j
    <2>1. k = la + 1 - i /\ k \in 1..la /\ k \in 1..lb
      BY <1>10, <1>11
    <2>2. ca[k] = cb[k]
      BY <1>8, <2>1
    <2>3. \A n \in 1..k : ca[n] = cb[n]
      BY <1>1, <1>2, <2>1, <2>2, ZenonT(60)
    <2>4. k <= m
      <3>1. k \in 0..la /\ k <= lb
        BY <1>1, <1>2, <2>1
      <3> HIDE DEF k
      <3> QED
        BY <1>4, <2>3, <3>1 DEF la, lb
    <2> QED
      BY <1>6, <2>4
  <1>13. \A i, j \in 1..Len(walk) : walk[i] = walk[j] => i = j
    <2> SUFFICES ASSUME NEW i \in 1..Len(walk), NEW j \in 1..Len(walk), walk[i] = walk[j] PROVE i = j
      OBVIOUS
    <2>1. CASE i \in 1..up /\ j \in 1..up
      <3>1. la + 1 - i = la + 1 - j
        BY <1>10, <2>1
      <3> QED
        BY <1>1, <2>1, <3>1 DEF la
    <2>2. ASSUME NEW x \in 1..down, NEW y \in 1..down, i = up + x, j = up + y PROVE i = j
      <3>1. m + x = m + y
        BY <1>11, <2>2
      <3> QED
        BY <1>6, <2>2, <3>1
    <2> QED
      BY <1>9, <1>12, <2>1, <2>2
  <1>14. Cardinality(Hardware!SeqRange(walk)) = Len(walk)
    <2> DEFINE R == Hardware!SeqRange(walk)
               D == 1..Len(walk)
    <2>1. Len(walk) \in Nat /\ DOMAIN walk = D
      BY <1>8
    <2>2. IsFiniteSet(D) /\ Cardinality(D) = Len(walk)
      <3> DEFINE n == Len(walk)
      <3> HIDE DEF n
      <3>1. n \in Nat /\ D = 1..n
        BY <2>1 DEF n
      <3>2. IsFiniteSet(1..n) /\ Cardinality(1..n) = n
        BY <3>1, FS_Interval
      <3> QED
        BY <3>1, <3>2 DEF n
    <2>3. R = {walk[i] : i \in D}
      BY <2>1 DEF Hardware!SeqRange
    <2>4. walk \in Bijection(D, R)
      <3>1. walk = [i \in D |-> walk[i]]
        BY <1>8, <2>1
      <3> HIDE DEF D, R
      <3>2. walk \in [D -> R]
        BY <2>3, <3>1
      <3>3. \A i, j \in D : walk[i] = walk[j] => i = j
        BY <1>13 DEF D
      <3>4. \A r \in R : \E i \in D : walk[i] = r
        BY <2>3
      <3> QED
        BY <3>2, <3>3, <3>4 DEF Bijection, Injection, Surjection, IsInjective
    <2> HIDE DEF D, R
    <2>5. Cardinality(R) = Cardinality(D)
      BY <2>2, <2>4, FS_Bijection DEF ExistsBijection
    <2> QED
      BY <2>2, <2>5 DEF R
  <1>a. Len(walk) \in Nat /\ Len(walk) = up + down
    BY <1>8
  <1> DEFINE bridges == {i \in DOMAIN walk : walk[i] \in Bridges}
  <1>15. /\ bridges \subseteq 1..Len(walk)
         /\ \A i \in 1..Len(walk) : i \in bridges <=> walk[i] \in Bridges
    BY <1>8
  <1> HIDE DEF bridges
  <1>16. ASSUME NEW i \in 1..(Len(walk) - 1)
         PROVE  Hardware!Adjacent(walk[i], walk[i + 1]) \/ {i, i + 1} \subseteq bridges
    <2>1. CASE i \in 1..up /\ i + 1 \in 1..up
      <3> DEFINE k == la + 1 - i
      <3>1. k \in 2..la /\ walk[i] = ca[k] /\ walk[i + 1] = ca[k - 1]
        <4>1. la + 1 - (i + 1) = k - 1 /\ k - 1 >= 1 /\ k <= la
          BY <1>1, <1>6, <1>10, <2>1 DEF la
        <4> QED
          BY <1>1, <1>8, <2>1, <4>1 DEF la
      <3>2. walk[i] \in Functions /\ parent[walk[i]] = walk[i + 1]
        <4> HIDE DEF k
        <4> QED
          BY <1>1, <3>1
      <3> QED
        BY <3>2 DEF Hardware!Adjacent
    <2>2. CASE i = up
      <3>1. la + 1 - up = c /\ 1 \in 1..down /\ up \in 1..up
        BY <1>1, <1>6 DEF la
      <3>4. walk[i] = ca[c] /\ walk[i + 1] = cb[m + 1]
        BY <1>8, <2>2, <3>1
      <3>2. CASE m = 0
        <4>1. walk[i] \in Bridges /\ walk[i + 1] \in Bridges
          BY <1>1, <1>2, <1>6, <3>4, <3>2
        <4>2. i \in 1..Len(walk) /\ i + 1 \in 1..Len(walk)
          BY <1>a
        <4> QED
          BY <1>15, <4>1, <4>2
      <3>3. CASE m > 0
        <4>1. c = m /\ m \in 1..m /\ ca[m] = cb[m] /\ m + 1 \in 2..lb
          BY <1>4, <1>5, <1>6, <3>3, <1>2, SMTT(30) DEF la, lb
        <4> DEFINE k == m + 1
        <4>2. k \in 2..lb /\ k - 1 = m
          BY <1>6, <4>1
        <4>3. cb[k] \in Functions /\ parent[cb[k]] = cb[m]
          <5> HIDE DEF k
          <5> QED
            BY <1>2, <4>2
        <4> QED
          BY <3>4, <4>1, <4>3 DEF Hardware!Adjacent
      <3> QED
        BY <1>6, <3>2, <3>3
    <2>3. ASSUME NEW j \in 1..down, i = up + j PROVE Hardware!Adjacent(walk[i], walk[i + 1])
      <3> DEFINE k == m + (j + 1)
      <3>1. j + 1 \in 1..down /\ i + 1 = up + (j + 1) /\ k \in 2..lb /\ m + j = k - 1
        BY <1>6, <1>8, <2>3, SMTT(30)
      <3>2. walk[i] = cb[k - 1] /\ walk[i + 1] = cb[k]
        BY <1>8, <2>3, <3>1
      <3>3. walk[i + 1] \in Functions /\ parent[walk[i + 1]] = walk[i]
        <4> HIDE DEF k
        <4> QED
          BY <1>2, <3>1, <3>2
      <3> QED
        BY <3>3 DEF Hardware!Adjacent
    <2>4. i \in 1..Len(walk) /\ (i \in 1..up => i = up \/ i + 1 \in 1..up)
      BY <1>6, <1>8
    <2> QED
      BY <1>9, <2>1, <2>2, <2>3, <2>4
  <1>17. \A i \in bridges : (i \in 1..up /\ i = la) \/ (m = 0 /\ i = up + 1)
    <2> SUFFICES ASSUME NEW i \in bridges
                 PROVE  (i \in 1..up /\ i = la) \/ (m = 0 /\ i = up + 1)
      OBVIOUS
    <2>1. CASE i \in 1..up
      BY <1>1, <1>10, <1>15, <2>1 DEF la
    <2>2. ASSUME NEW j \in 1..down, i = up + j PROVE m = 0 /\ i = up + 1
      BY <1>6, <1>11, <1>15, <2>2
    <2> QED
      BY <1>9, <1>15, <2>1, <2>2
  <1>18. ASSUME m = 0 PROVE Cardinality(bridges) = 2
    <2>1. up = la /\ 1 \in 1..down /\ up \in 1..up /\ c = 1
      BY <1>1, <1>6, <1>18 DEF la
    <2>2. walk[up] \in Bridges /\ walk[up + 1] \in Bridges
      BY <1>1, <1>6, <1>10, <1>11, <1>18, <2>1 DEF la
    <2>3. up \in 1..Len(walk) /\ up + 1 \in 1..Len(walk)
      BY <1>6, <1>8
    <2> DEFINE x == up + 1
    <2>4. bridges = {up, x}
      BY <1>15, <1>17, <2>1, <2>2, <2>3
    <2>5. up # x
      BY <1>6
    <2> HIDE DEF x
    <2>6. bridges = {up} \cup {x} /\ x \notin {up}
      BY <2>4, <2>5
    <2>7. IsFiniteSet({up}) /\ Cardinality({up}) = 1
      BY FS_Singleton
    <2>8. Cardinality({up} \cup {x}) = Cardinality({up}) + 1
      BY <2>6, <2>7, FS_AddElement
    <2> QED
      BY <2>6, <2>7, <2>8
  <1>19. ASSUME m > 0, ca[m] \in Bridges PROVE Cardinality(bridges) = 1
    <2>1. m = 1 /\ c = 1 /\ up = la /\ up \in 1..up
      BY <1>1, <1>4, <1>6, <1>19 DEF la, NodesNumbered
    <2>2. walk[up] \in Bridges /\ up \in 1..Len(walk)
      BY <1>1, <1>6, <1>8, <1>10, <2>1 DEF la
    <2>3. bridges = {up}
      <3>1. \A i \in bridges : i = up
        BY <1>17, <1>19, <2>1
      <3>2. up \in bridges
        BY <1>15, <2>2
      <3> QED
        BY <3>1, <3>2
    <2> QED
      BY <2>3, FS_Singleton
  <1>20. ASSUME m > 0, ca[m] \notin Bridges PROVE Cardinality(bridges) = 0
    <2>1. m # 1 /\ c = m /\ c >= 2
      BY <1>1, <1>6, <1>20
    <2>2. la \notin 1..up
      BY <1>1, <1>6, <1>10, <2>1 DEF la
    <2>3. bridges = {}
      BY <1>17, <1>20, <2>2
    <2> QED
      BY <2>3, FS_EmptySet
  <1> QED
    BY <1>6, <1>14, <1>16, <1>18, <1>19, <1>20, Zenon DEF WalkGood, bridges, m, ca, cb, walk

\* A function that is plugged in and passed was recorded, or is among the nodes whose
\* attributes are read next.
AcquiredGood ==
  /\ phase \in {"names", "devices", "descriptors", "observed"}
  /\ phase = "names" => climbing = <<>>
  /\ phase = "devices" =>
       /\ climbing \in Seq(Hardware!Nodes)
       /\ ~truncated => \A f \in present :
            f \in todo \/ (f \in links /\ (f \in texts \/ \E i \in 1..Len(climbing) : climbing[i] = f))
  /\ phase \in {"descriptors", "observed"} /\ ~truncated => present \subseteq links \cap texts
  /\ phase # "observed" => view.paths = {}

HardwareInv ==
  /\ TreeGood /\ AcquiredGood
  /\ Hardware!ViewClosed /\ Hardware!DevicesShown /\ Hardware!PathsOfTree

LEMMA NotObserved ==
  ASSUME AcquiredGood', phase' # "observed"
  PROVE  Hardware!ViewClosed' /\ Hardware!DevicesShown' /\ Hardware!PathsOfTree'
  BY DEF AcquiredGood, Hardware!ViewClosed, Hardware!DevicesShown, Hardware!PathsOfTree

LEMMA AllButLast ==
  ASSUME NEW S, NEW s \in Seq(S), Len(s) >= 1
  PROVE  LET r == SubSeq(s, 1, Len(s) - 1)
         IN  /\ r \in Seq(S) /\ Len(r) = Len(s) - 1
             /\ \A i \in 1..(Len(s) - 1) : r[i] = s[i]
  <1> DEFINE k == Len(s) - 1
             r == SubSeq(s, 1, k)
  <1>1. k \in Nat /\ k \in Int /\ 1 \in Int /\ (\A i \in 1..k : s[i] \in S)
    OBVIOUS
  <1> HIDE DEF k
  <1>2. r \in Seq(S) /\ Len(r) = k /\ \A i \in 1..k : r[i] = s[i]
    BY <1>1
  <1> QED
    BY <1>2, Zenon DEF k, r

LEMMA AcquiringKeeps ==
  ASSUME NodesNumbered, HardwareInv, Hardware!ReadNames \/ Hardware!ReadLink \/ Hardware!ReadNode
  PROVE  HardwareInv'
  <1>1. CASE Hardware!ReadNames
    <2>1. /\ phase' = "devices" /\ phase = "names" /\ todo' = present
          /\ UNCHANGED <<parent, interest, present, climbing, links, texts, truncated, view>>
      BY <1>1 DEF Hardware!ReadNames, Hardware!world
    <2>2. climbing' \in Seq(Hardware!Nodes)
      BY <2>1 DEF HardwareInv, AcquiredGood
    <2>3. TreeGood'
      BY <2>1 DEF HardwareInv, TreeGood
    <2>4. AcquiredGood'
      BY <2>1, <2>2 DEF HardwareInv, AcquiredGood
    <2> QED
      BY <2>1, <2>3, <2>4, NotObserved DEF HardwareInv
  <1>2. CASE Hardware!ReadLink
    <2> DEFINE f == Hardware!Least(todo)
    <2>1. /\ phase = "devices" /\ phase' = "devices" /\ climbing = <<>> /\ ~truncated
          /\ todo' = todo \ {f}
          /\ UNCHANGED <<parent, interest, present, texts, view>>
          /\ \/ f \notin present /\ UNCHANGED <<climbing, links, truncated>>
             \/ truncated' = TRUE /\ UNCHANGED <<climbing, links>>
             \/ /\ f \in present /\ links' = links \cup {f} /\ climbing' = Hardware!Chain[f]
                /\ UNCHANGED truncated
      BY <1>2 DEF Hardware!ReadLink, Hardware!world
    <2> HIDE DEF f
    <2>2. \A g \in present : g \in todo \/ (g \in links /\ g \in texts)
      BY <2>1 DEF HardwareInv, AcquiredGood
    <2>3. ASSUME f \in present
          PROVE  /\ Hardware!Chain[f] \in Seq(Hardware!Nodes)
                 /\ \E i \in 1..Len(Hardware!Chain[f]) : Hardware!Chain[f][i] = f
      <3>1. PathGood(f)
        BY <2>3, ChainShape DEF HardwareInv, TreeGood, Hardware!Nodes
      <3> DEFINE c == Hardware!Chain[f]
      <3>2. c \in Seq(Hardware!Nodes) /\ Len(c) \in Nat /\ Len(c) >= 1 /\ c[Len(c)] = f
        BY <3>1 DEF PathGood
      <3> HIDE DEF c
      <3>3. Len(c) \in 1..Len(c)
        BY <3>2
      <3> QED
        BY <3>2, <3>3 DEF c
    <2>4. TreeGood'
      BY <2>1 DEF HardwareInv, TreeGood
    <2>5. climbing' \in Seq(Hardware!Nodes)
      BY <2>1, <2>3 DEF HardwareInv, AcquiredGood
    <2>6. ASSUME ~truncated', NEW g \in present
          PROVE  g \in todo' \/ (g \in links' /\ (g \in texts' \/ \E i \in 1..Len(climbing') : climbing'[i] = g))
      BY <2>1, <2>2, <2>3, <2>6
    <2>7. AcquiredGood'
      BY <2>1, <2>5, <2>6 DEF HardwareInv, AcquiredGood
    <2> QED
      BY <2>1, <2>4, <2>7, NotObserved DEF HardwareInv
  <1>3. CASE Hardware!ReadNode
    <2> DEFINE n == climbing[Len(climbing)]
               rest == SubSeq(climbing, 1, Len(climbing) - 1)
    <2>1. /\ phase = "devices" /\ phase' = "devices" /\ climbing # <<>> /\ ~truncated
          /\ climbing' = rest
          /\ UNCHANGED <<parent, interest, present, todo, links, view>>
          /\ \/ (n \in texts \/ n \notin Bridges \cup present) /\ UNCHANGED <<texts, truncated>>
             \/ truncated' = TRUE /\ UNCHANGED texts
             \/ texts' = texts \cup {n} /\ UNCHANGED truncated
      BY <1>3 DEF Hardware!ReadNode, Hardware!world
    <2>2. climbing \in Seq(Hardware!Nodes) /\ Len(climbing) \in Nat /\ Len(climbing) >= 1
      BY <2>1 DEF HardwareInv, AcquiredGood
    <2>3. /\ rest \in Seq(Hardware!Nodes) /\ Len(rest) = Len(climbing) - 1
          /\ \A i \in 1..(Len(climbing) - 1) : rest[i] = climbing[i]
      BY <2>2, AllButLast
    <2>4. \A i \in 1..Len(climbing) :
            climbing[i] = n \/ \E j \in 1..Len(rest) : rest[j] = climbing[i]
      <3> SUFFICES ASSUME NEW i \in 1..Len(climbing), i # Len(climbing)
                   PROVE  \E j \in 1..Len(rest) : rest[j] = climbing[i]
        OBVIOUS
      <3>1. i \in 1..Len(rest)
        BY <2>2, <2>3
      <3> QED
        BY <2>3, <3>1
    <2> HIDE DEF n, rest
    <2>5. TreeGood'
      BY <2>1 DEF HardwareInv, TreeGood
    <2>6. ASSUME ~truncated', NEW g \in present
          PROVE  g \in todo' \/ (g \in links' /\ (g \in texts' \/ \E i \in 1..Len(climbing') : climbing'[i] = g))
      <3>1. g \in todo \/ (g \in links /\ (g \in texts \/ \E i \in 1..Len(climbing) : climbing[i] = g))
        BY <2>1 DEF HardwareInv, AcquiredGood
      <3>2. texts \subseteq texts' /\ (g = n => g \in texts')
        BY <2>1, <2>6
      <3> QED
        BY <2>1, <2>4, <3>1, <3>2
    <2>7. AcquiredGood'
      BY <2>1, <2>3, <2>6 DEF HardwareInv, AcquiredGood
    <2> QED
      BY <2>1, <2>5, <2>7, NotObserved DEF HardwareInv
  <1> QED
    BY <1>1, <1>2, <1>3

\* The world changes, the devices are done, and the descriptors are listed.
LEMMA ListingKeeps ==
  ASSUME HardwareInv,
         \/ \E f \in Functions : Hardware!Unplug(f)
         \/ \E p \in Processes : Hardware!Exits(p)
         \/ Hardware!Acquired \/ Hardware!ListDescriptors \/ Hardware!StillThere
  PROVE  HardwareInv'
  <1>1. CASE \E f \in Functions : Hardware!Unplug(f)
    <2>1. /\ phase \in {"names", "devices"} /\ present' \subseteq present
          /\ UNCHANGED <<parent, interest, todo, climbing, links, texts, truncated, phase, view>>
      BY <1>1 DEF Hardware!Unplug, Hardware!world
    <2>2. TreeGood'
      BY <2>1 DEF HardwareInv, TreeGood
    <2>3. AcquiredGood'
      BY <2>1 DEF HardwareInv, AcquiredGood
    <2> QED
      BY <2>1, <2>2, <2>3, NotObserved DEF HardwareInv
  <1>2. CASE Hardware!Acquired
    <2>1. /\ phase = "devices" /\ phase' = "descriptors" /\ (truncated \/ (climbing = <<>> /\ todo = {}))
          /\ UNCHANGED <<parent, interest, present, links, texts, truncated, view>>
      BY <1>2 DEF Hardware!Acquired, Hardware!world
    <2>2. TreeGood'
      BY <2>1 DEF HardwareInv, TreeGood
    <2>3. ~truncated => present \subseteq links \cap texts
      BY <2>1 DEF HardwareInv, AcquiredGood
    <2>4. AcquiredGood'
      BY <2>1, <2>3 DEF HardwareInv, AcquiredGood
    <2> QED
      BY <2>1, <2>2, <2>4, NotObserved DEF HardwareInv
  <1>3. CASE (\E p \in Processes : Hardware!Exits(p)) \/ Hardware!ListDescriptors \/ Hardware!StillThere
    <2>1. /\ phase = "descriptors" /\ phase' = "descriptors"
          /\ UNCHANGED <<parent, interest, present, links, texts, truncated, view>>
      BY <1>3 DEF Hardware!Exits, Hardware!ListDescriptors, Hardware!StillThere, Hardware!world
    <2>2. TreeGood'
      BY <2>1 DEF HardwareInv, TreeGood
    <2>3. AcquiredGood'
      BY <2>1 DEF HardwareInv, AcquiredGood
    <2> QED
      BY <2>1, <2>2, <2>3, NotObserved DEF HardwareInv
  <1> QED
    BY <1>1, <1>2, <1>3

\* A path is a walk along the tree, and its class counts its host bridges.
LEMMA PathIsGood ==
  ASSUME NodesNumbered, TreeGood, NEW a \in Functions, NEW b \in Functions, a < b, NEW chains
  PROVE  Hardware!AlongTree(Hardware!Path(a, b, chains))
  <1> DEFINE p == Hardware!Path(a, b, chains)
             ca == Hardware!Chain[a]
             m == Hardware!CommonLength(ca, Hardware!Chain[b])
             walk == (<<a>> \o Hardware!Via(ca, Hardware!Chain[b])) \o <<b>>
             bridges == {i \in DOMAIN walk : walk[i] \in Bridges}
             class == Hardware!PathClass(a, b, chains)
  <1>1. p.a = a /\ p.b = b /\ p.via = Hardware!Via(ca, Hardware!Chain[b]) /\ p.class = class
    BY DEF Hardware!Path
  <1>2. WalkGood(walk, a, b)
    BY WalkIsGood
  <1>3. m \in Nat
    BY <1>2 DEF WalkGood
  <1>4. /\ m = 0 => class \in {"Node", "Sys"}
        /\ m > 0 /\ ca[m] \in Bridges => class = "Phb"
        /\ m > 0 /\ ca[m] \notin Bridges => class \in {"Pix", "Pxb"}
    <2>1. CASE m = 0
      <3>1. ~(m > 0)
        BY <1>3, <2>1
      <3> QED
        BY <2>1, <3>1 DEF Hardware!PathClass
    <2>2. CASE m > 0
      <3>1. m # 0 /\ Hardware!Max1(m) = m
        BY <1>3, <2>2 DEF Hardware!Max1
      <3> QED
        BY <2>2, <3>1 DEF Hardware!PathClass
    <2> QED
      BY <1>3, <2>1, <2>2
  <1>5. Cardinality(bridges) = (CASE class \in {"Pix", "Pxb"} -> 0
                                  [] class = "Phb" -> 1
                                  [] OTHER -> 2)
    <2>1. /\ m = 0 => Cardinality(bridges) = 2
          /\ m > 0 /\ ca[m] \in Bridges => Cardinality(bridges) = 1
          /\ m > 0 /\ ca[m] \notin Bridges => Cardinality(bridges) = 0
      BY <1>2, Zenon DEF WalkGood
    <2> HIDE DEF bridges, class, m, ca
    <2> QED
      BY <1>3, <1>4, <2>1
  <1>6. /\ Cardinality(Hardware!SeqRange(walk)) = Len(walk)
        /\ \A i \in 1..(Len(walk) - 1) :
             Hardware!Adjacent(walk[i], walk[i + 1]) \/ {i, i + 1} \subseteq bridges
    BY <1>2, Zenon DEF WalkGood
  <1> HIDE DEF p, class
  <1> DEFINE w == <<p.a>> \o p.via \o <<p.b>>
             over == {i \in DOMAIN w : w[i] \in Bridges}
  <1>7. w = walk
    BY <1>1, Zenon
  <1> HIDE DEF w, walk
  <1>8. over = bridges
    BY <1>7
  <1> HIDE DEF over, bridges
  <1>9. Cardinality(over) = (CASE p.class \in {"Pix", "Pxb"} -> 0
                               [] p.class = "Phb" -> 1
                               [] OTHER -> 2)
    BY <1>1, <1>5, <1>8
  <1>10. /\ Cardinality(Hardware!SeqRange(w)) = Len(w)
         /\ \A i \in 1..(Len(w) - 1) :
              Hardware!Adjacent(w[i], w[i + 1]) \/ {i, i + 1} \subseteq over
    BY <1>6, <1>7, <1>8
  <1>11. Hardware!Cardinality(over) = Cardinality(over)
         /\ Hardware!Cardinality(Hardware!SeqRange(w)) = Cardinality(Hardware!SeqRange(w))
    BY DEF Hardware!Cardinality, Cardinality
  <1>12. /\ Hardware!Cardinality(Hardware!SeqRange(w)) = Len(w)
         /\ Hardware!Cardinality(over) = (CASE p.class \in {"Pix", "Pxb"} -> 0
                                             [] p.class = "Phb" -> 1
                                             [] OTHER -> 2)
    BY <1>9, <1>10, <1>11
  <1>13. Hardware!AlongTree(p)
    BY <1>10, <1>12, Zenon DEF over, w, Hardware!AlongTree
  <1> QED
    BY <1>13 DEF p

\* What is shown is built of one state: chains, nodes, paths and handles fit.
LEMMA ObserveKeeps ==
  ASSUME NodesNumbered, HardwareInv, Hardware!Observe
  PROVE  HardwareInv'
  <1> DEFINE chains == Hardware!Chains
             nodes == Hardware!TopologyNodes(chains)
             pairs == {p \in nodes \X nodes : /\ p[1] < p[2]
                                              /\ Hardware!Role(p[1], chains) = "Endpoint"
                                              /\ Hardware!Role(p[2], chains) = "Endpoint"}
             paths == {Hardware!Path(q[1], q[2], chains) : q \in pairs}
  <1>1. /\ phase = "descriptors" /\ phase' = "observed"
        /\ view' = [nodes |-> [n \in nodes |-> Hardware!Role(n, chains)], paths |-> paths,
                    handles |-> Hardware!Handles(nodes)]
        /\ UNCHANGED <<parent, interest, present, links, texts, truncated, live>>
    BY DEF Hardware!Observe, Hardware!world
  <1>2. chains \subseteq Functions /\ chains = {f \in links : f \in interest /\ f \in texts}
    BY DEF HardwareInv, TreeGood, Hardware!Chains, Hardware!Kind
  <1>3. \A n \in nodes : n \in Hardware!Nodes /\ \E f \in chains : n \in Hardware!SeqRange(Hardware!Chain[f])
    BY DEF Hardware!TopologyNodes
  <1>4. \A f \in chains : /\ f \in Hardware!Nodes /\ PathGood(f)
                          /\ DOMAIN Hardware!Chain[f] = 1..Len(Hardware!Chain[f])
    <2>1. \A f \in chains : f \in Hardware!Nodes
      BY <1>2 DEF Hardware!Nodes
    <2> HIDE DEF chains
    <2>2. \A f \in chains : PathGood(f)
      BY <2>1, ChainShape DEF HardwareInv
    <2> QED
      BY <2>1, <2>2 DEF PathGood
  <1> HIDE DEF chains
  <1>5. ASSUME NEW n \in nodes, n \notin Bridges PROVE parent[n] \in nodes
    <2>1. PICK f \in chains : n \in Hardware!SeqRange(Hardware!Chain[f])
      BY <1>3
    <2> DEFINE c == Hardware!Chain[f]
    <2>2. PICK i \in 1..Len(c) : c[i] = n
      BY <1>4, <2>1 DEF Hardware!SeqRange
    <2>3. /\ c \in Seq(Hardware!Nodes) /\ Len(c) \in Nat /\ c[1] \in Bridges /\ DOMAIN c = 1..Len(c)
          /\ \A j \in 2..Len(c) : parent[c[j]] = c[j - 1]
      BY <1>4 DEF PathGood
    <2> HIDE DEF c
    <2>4. i # 1
      BY <1>5, <2>2, <2>3
    <2>5. i \in 2..Len(c) /\ i - 1 \in 1..Len(c)
      BY <2>3, <2>4
    <2>6. parent[n] = c[i - 1] /\ c[i - 1] \in Hardware!Nodes
      BY <2>2, <2>3, <2>5
    <2>7. parent[n] \in Hardware!SeqRange(c)
      BY <2>3, <2>5, <2>6 DEF Hardware!SeqRange
    <2> QED
      BY <2>6, <2>7 DEF Hardware!TopologyNodes, c
  <1>6. ASSUME NEW f \in chains PROVE f \in nodes /\ Hardware!Role(f, chains) = "Endpoint"
    <2> DEFINE c == Hardware!Chain[f]
    <2>1. Len(c) \in Nat /\ Len(c) >= 1 /\ c[Len(c)] = f /\ DOMAIN c = 1..Len(c)
      BY <1>4 DEF PathGood
    <2> HIDE DEF c
    <2>2. Len(c) \in 1..Len(c)
      BY <2>1
    <2>3. f \in Hardware!SeqRange(c)
      BY <2>1, <2>2 DEF Hardware!SeqRange
    <2>4. f \in nodes
      BY <1>4, <2>3 DEF Hardware!TopologyNodes, c
    <2>5. f \notin Bridges
      BY <1>2 DEF NodesNumbered
    <2> QED
      BY <2>4, <2>5 DEF Hardware!Role, Hardware!Endpoint
  <1>7. ASSUME NEW q \in pairs PROVE q[1] \in Functions /\ q[2] \in Functions /\ q[1] < q[2]
    <2>1. \A n \in nodes : Hardware!Role(n, chains) = "Endpoint" => n \in Functions
      BY <1>2, <1>3 DEF Hardware!Role, Hardware!Endpoint, Hardware!Nodes
    <2> HIDE DEF nodes
    <2> QED
      BY <2>1
  <1>8. view'.nodes = [n \in nodes |-> Hardware!Role(n, chains)] /\ view'.paths = paths
        /\ view'.handles = Hardware!Handles(nodes)
    <2> HIDE DEF nodes, paths
    <2> QED
      BY <1>1
  <1> HIDE DEF nodes
  <1>9. TreeGood'
    BY <1>1 DEF HardwareInv, TreeGood
  <1>10. AcquiredGood'
    BY <1>1 DEF HardwareInv, AcquiredGood
  <1>11. Hardware!ViewClosed'
    BY <1>1, <1>5, <1>8 DEF Hardware!ViewClosed, Hardware!Handles
  <1>12. Hardware!DevicesShown'
    <2>1. ASSUME ~truncated, NEW f \in present \cap interest PROVE f \in chains
      BY <1>1, <1>2, <2>1 DEF HardwareInv, AcquiredGood
    <2> QED
      BY <1>1, <1>6, <1>8, <2>1 DEF Hardware!DevicesShown
  <1>13. Hardware!PathsOfTree'
    <2>1. TreeGood
      BY DEF HardwareInv
    <2>2. ASSUME NEW q \in pairs PROVE Hardware!AlongTree(Hardware!Path(q[1], q[2], chains))
      <3> DEFINE a == q[1]
                 b == q[2]
      <3>1. a \in Functions /\ b \in Functions /\ a < b
        BY <1>7
      <3> HIDE DEF pairs, a, b
      <3>2. Hardware!AlongTree(Hardware!Path(a, b, chains))
        BY <2>1, <3>1, PathIsGood, Zenon
      <3> QED
        BY <3>2, Zenon DEF a, b
    <2>3. \A p \in paths : Hardware!AlongTree(p)
      <3> HIDE DEF pairs
      <3> QED
        BY <2>2, Zenon
    <2>4. \A x, y : Hardware!Adjacent(x, y)' <=> Hardware!Adjacent(x, y)
      BY <1>1 DEF Hardware!Adjacent
    <2>5. \A p : Hardware!AlongTree(p)' <=> Hardware!AlongTree(p)
      BY <2>4, Zenon DEF Hardware!AlongTree
    <2> HIDE DEF paths
    <2>6. \A p \in view'.paths : Hardware!AlongTree(p)'
      BY <1>8, <2>3, <2>5, Zenon
    <2> QED
      BY <2>6, Zenon DEF Hardware!PathsOfTree
  <1> QED
    BY <1>9, <1>10, <1>11, <1>12, <1>13 DEF HardwareInv

LEMMA HardwareStep ==
  ASSUME NodesNumbered
  PROVE  /\ Hardware!Init => HardwareInv
         /\ HardwareInv /\ [Hardware!Next]_(Hardware!vars) => HardwareInv'
  <1>1. ASSUME Hardware!Init PROVE HardwareInv
    BY <1>1 DEF Hardware!Init, HardwareInv, TreeGood, AcquiredGood, Hardware!ViewClosed,
                Hardware!DevicesShown, Hardware!PathsOfTree
  <1>2. ASSUME HardwareInv, UNCHANGED Hardware!vars PROVE HardwareInv'
    <2>1. UNCHANGED <<parent, interest, present, phase, todo, climbing, links, texts, truncated,
                      live, view>>
      BY <1>2 DEF Hardware!vars
    <2>2. TreeGood' /\ AcquiredGood'
      BY <1>2, <2>1 DEF HardwareInv, TreeGood, AcquiredGood
    <2>3. Hardware!ViewClosed' /\ Hardware!DevicesShown'
      BY <1>2, <2>1 DEF HardwareInv, Hardware!ViewClosed, Hardware!DevicesShown
    <2>4. Hardware!PathsOfTree'
      <3>1. \A x, y : Hardware!Adjacent(x, y)' <=> Hardware!Adjacent(x, y)
        BY <2>1 DEF Hardware!Adjacent
      <3>2. Hardware!PathsOfTree /\ view' = view
        BY <1>2, <2>1 DEF HardwareInv
      <3> QED
        BY <3>1, <3>2, Zenon DEF Hardware!PathsOfTree, Hardware!AlongTree
    <2> QED
      BY <2>2, <2>3, <2>4 DEF HardwareInv
  <1> QED
    BY <1>1, <1>2, AcquiringKeeps, ListingKeeps, ObserveKeeps DEF Hardware!Next

LEMMA AboutHardware ==
  /\ MCInit /\ which = "hardware" => Hardware!Init
  /\ [MCNext]_allVars /\ which = "hardware" =>
       which' = "hardware" /\ [Hardware!Next]_(Hardware!vars)
  /\ [MCNext]_allVars /\ which # "hardware" => which' # "hardware"
  BY DEF MCInit, HardwareInit, MCNext, allVars, hardwareOnly, stackHardware, stackSymbolHardware,
         Hardware!vars

\* The hardware view is closed: the parent of every function, and the device and the
\* process of every handle, are in it. A device of interest that stayed plugged in is
\* shown, or the view says it is cut short. A path goes along the tree, visits nothing
\* twice and crosses the host bridges its class tells of. All this for any tree, although
\* devices are unplugged and processes end while they are read one after the other
\* (collect_hardware_files, read_topology, build_hardware_paths).
THEOREM ViewOfTree ==
  ASSUME NodesNumbered
  PROVE  /\ Hardware!Spec =>
              [](Hardware!ViewClosed /\ Hardware!DevicesShown /\ Hardware!PathsOfTree)
         /\ MCSpec => []ViewClosed
  <1> DEFINE Checked == which = "hardware" => HardwareInv
  <1>1. (Hardware!Init => HardwareInv) /\ (HardwareInv /\ [Hardware!Next]_(Hardware!vars) => HardwareInv')
    BY HardwareStep
  <1>2. HardwareInv => Hardware!ViewClosed /\ Hardware!DevicesShown /\ Hardware!PathsOfTree
    BY DEF HardwareInv
  <1>3. MCInit => Checked
    BY <1>1, AboutHardware
  <1>4. Checked /\ [MCNext]_allVars => Checked'
    BY <1>1, AboutHardware
  <1>5. Checked => ViewClosed
    BY <1>2 DEF ViewClosed
  <1> HIDE DEF Checked
  <1> QED
    BY <1>1, <1>2, <1>3, <1>4, <1>5, PTL DEF Hardware!Spec, MCSpec

-----------------------------------------------------------------------------
(* StackSampler: what a capture attached to is let go.                     *)

\* A behaviour of MCObservation about stacks is one of StackSampler, for good.
LEMMA AboutStacks ==
  /\ MCInit /\ which = "stacks" => Sampler!Init
  /\ which = "stacks" /\ [MCNext]_allVars => which' = "stacks" /\ [Sampler!Next]_Sampler!vars
  /\ which # "stacks" /\ [MCNext]_allVars => which' # "stacks"
  BY DEF MCInit, MCNext, allVars, stackOnly, stackCpu, stackHardware, stackSymbolHardware,
         Sampler!vars, Sampler!kernelVars, Sampler!samplerVars, Sampler!loopVars

\* A thread that no capture holds.
Free(t) == tracee[t] \in {"free", "dead"} /\ signal[t] # "held"

\* The thread of the guard: attached until the guard has seen it stop or die,
\* stopped from then on, and its signal with the guard.
Attached ==
  LET t == guard.tid
  IN /\ t \in Tids
     /\ guard \in [tid : Tids, stopped : BOOLEAN, signal : {None, "held"}, result : {guard.result}]
     /\ phase \in {"interrupt", "wait"} => ~guard.stopped /\ tracee[t] # "free"
     /\ phase = "read" => guard.stopped
     /\ IF guard.stopped
          THEN tracee[t] \in {"stopped", "dead"} /\ (signal[t] = "held" => guard.signal = "held")
          ELSE tracee[t] \in {"free", "seized", "dead"} /\ signal[t] # "held"

TraceInv ==
  /\ tracee \in [Tids -> {"free", "seized", "stopped", "dead"}]
  /\ signal \in [Tids -> {None, "pending", "held", "handled"}]
  /\ IF phase \in {"interrupt", "wait", "read", "drop"}
       THEN Attached /\ \A t \in Tids : t # guard.tid => Free(t)
       ELSE \A t \in Tids : Free(t)

\* Steps of the kernel: no capture moves, and a thread that dies lets go itself.
LEMMA KernelKeeps ==
  ASSUME None \notin {"pending", "held", "handled"}, TraceInv, Sampler!Kernel
  PROVE  TraceInv'
  <1>1. ASSUME UNCHANGED <<tracee, signal, phase, guard>> PROVE TraceInv'
    BY <1>1 DEF TraceInv, Attached, Free
  <1>2. ASSUME NEW t \in Tids, NEW abi \in 0..2, Sampler!Clock(t, abi) \/ Sampler!SwitchSample(t, abi)
        PROVE  TraceInv'
    BY <1>1, <1>2 DEF Sampler!Clock, Sampler!SwitchSample, Sampler!loopVars
  <1>3. ASSUME NEW t \in Tids, Sampler!SwitchOut(t) \/ Sampler!SwitchIn(t) \/ Sampler!Throttle(t)
        PROVE  TraceInv'
    BY <1>1, <1>3 DEF Sampler!SwitchOut, Sampler!SwitchIn, Sampler!Throttle, Sampler!loopVars
  <1>4. ASSUME NEW S, Sampler!Dies(S) PROVE TraceInv'
    BY <1>4 DEF Sampler!Dies, Sampler!samplerVars, Sampler!loopVars, TraceInv, Attached, Free
  <1>5. ASSUME NEW t \in Tids, Sampler!ThreadExits(t) PROVE TraceInv'
    BY <1>4, <1>5 DEF Sampler!ThreadExits
  <1>6. ASSUME NEW t \in Tids, Sampler!ThreadStarts(t) PROVE TraceInv'
    BY <1>1, <1>6 DEF Sampler!ThreadStarts, Sampler!samplerVars, Sampler!loopVars
  <1>7. ASSUME NEW t \in Tids, Sampler!SendSignal(t) PROVE TraceInv'
    BY <1>7 DEF Sampler!SendSignal, Sampler!samplerVars, Sampler!loopVars, TraceInv, Attached, Free
  <1>8. ASSUME NEW t \in Tids, Sampler!HandleSignal(t) PROVE TraceInv'
    BY <1>8 DEF Sampler!HandleSignal, Sampler!samplerVars, Sampler!loopVars, TraceInv, Attached, Free
  <1>9. CASE Sampler!ProcessExits
    BY <1>4, <1>9 DEF Sampler!ProcessExits
  <1>10. CASE Sampler!TenSecondsPass
    BY <1>1, <1>10 DEF Sampler!TenSecondsPass, Sampler!kernelVars
  <1> QED
    BY <1>2, <1>3, <1>5, <1>6, <1>7, <1>8, <1>9, <1>10 DEF Sampler!Kernel

\* A poll touches no tracee, and begins and ends outside a capture.
LEMMA PollKeeps ==
  ASSUME TraceInv, Sampler!Poll
  PROVE  TraceInv'
  <1>1. /\ UNCHANGED <<tracee, signal, guard>>
        /\ phase \notin {"interrupt", "wait", "read", "drop"}
        /\ phase' \notin {"interrupt", "wait", "read", "drop"}
    BY DEF Sampler!Poll, Sampler!PollFails, Sampler!PollEnds, Sampler!PollBegins, Sampler!ReadStat,
           Sampler!Drain, Sampler!kernelVars
  <1> QED
    BY <1>1 DEF TraceInv, Free

\* The steps of a capture.
LEMMA CaptureKeeps ==
  ASSUME None \notin {"pending", "held", "handled"}, TraceInv, Sampler!Capture
  PROVE  TraceInv'
  <1> USE DEF TraceInv, Attached, Free
  <1>1. ASSUME NEW t \in Tids, Sampler!Seize(t) PROVE TraceInv'
    BY <1>1, ZenonT(60) DEF Sampler!Seize, Sampler!NoGuard
  <1>2. CASE Sampler!Interrupt
    BY <1>2 DEF Sampler!Interrupt, Sampler!kernelVars
  <1>0. ASSUME phase \in {"wait", "drop"}, phase' \in {"read", "drop"}, ~guard.stopped,
               \/ tracee[guard.tid] = "seized" /\ Sampler!Stopped(guard.tid)
               \/ /\ phase' = "drop" /\ tracee' = [tracee EXCEPT ![guard.tid] = "free"]
                  /\ UNCHANGED <<signal, guard>>
        PROVE  TraceInv'
    <2> DEFINE t == guard.tid
    <2>1. t \in Tids /\ signal[t] # "held" /\ \A u \in Tids : u # t => Free(u)
      BY <1>0
    <2>2. CASE tracee[t] = "seized" /\ Sampler!Stopped(t)
      <3>1. /\ guard'.tid = t /\ guard'.stopped
            /\ guard'.signal = IF signal[t] = "pending" THEN "held" ELSE None
            /\ guard' \in [tid : Tids, stopped : BOOLEAN, signal : {None, "held"},
                           result : {guard'.result}]
        BY <1>0, <2>2 DEF Sampler!Stopped
      <3>2. /\ tracee'[t] = "stopped" /\ (signal'[t] = "held" => signal[t] = "pending")
            /\ \A u \in Tids : u # t => tracee'[u] = tracee[u] /\ signal'[u] = signal[u]
            /\ tracee' \in [Tids -> {"free", "seized", "stopped", "dead"}]
            /\ signal' \in [Tids -> {None, "pending", "held", "handled"}]
        BY <2>1, <2>2 DEF Sampler!Stopped
      <3> QED
        BY <1>0, <2>1, <3>1, <3>2
    <2>3. CASE /\ phase' = "drop" /\ tracee' = [tracee EXCEPT ![t] = "free"]
               /\ UNCHANGED <<signal, guard>>
      BY <1>0, <2>1, <2>3
    <2> QED
      BY <1>0, <2>2, <2>3
  <1>3. CASE Sampler!Wait
    BY <1>0, <1>3 DEF Sampler!Wait
  <1>4. CASE Sampler!ReadRegisters
    BY <1>4 DEF Sampler!ReadRegisters
  <1>5. CASE Sampler!DropRunning
    BY <1>0, <1>5 DEF Sampler!DropRunning
  <1>6. CASE Sampler!Detach
    BY <1>6 DEF Sampler!Detach
  <1>7. CASE Sampler!CaptureEnds
    BY <1>7 DEF Sampler!CaptureEnds, Sampler!kernelVars
  <1> QED
    BY <1>1, <1>2, <1>3, <1>4, <1>5, <1>6, <1>7 DEF Sampler!Capture

\* Whatever a capture meets, a thread that dies at any of its steps and a signal
\* that arrives meanwhile included, afterwards no thread is attached or stopped
\* and every signal has been handed back (PtraceGuard, snapshot/ptrace.rs).
THEOREM CapturesLetGo ==
  ASSUME None \notin {"pending", "held", "handled"}
  PROVE  /\ Sampler!Spec => []Sampler!TraceesReleased
         /\ MCSpec => []TraceesReleased
  <1>1. Sampler!Init => TraceInv
    BY DEF Sampler!Init, TraceInv, Free
  <1>2. TraceInv /\ [Sampler!Next]_Sampler!vars => TraceInv'
    <2> SUFFICES ASSUME TraceInv, [Sampler!Next]_Sampler!vars PROVE TraceInv'
      OBVIOUS
    <2>1. CASE UNCHANGED Sampler!vars
      BY <2>1 DEF Sampler!vars, Sampler!kernelVars, Sampler!samplerVars, Sampler!loopVars, TraceInv,
                  Attached, Free
    <2> QED
      BY <2>1, KernelKeeps, PollKeeps, CaptureKeeps DEF Sampler!Next
  <1>3. TraceInv => Sampler!TraceesReleased
    BY DEF TraceInv, Free, Sampler!TraceesReleased
  <1> DEFINE Checked == which = "stacks" => TraceInv
  <1>4. MCInit => Checked
    BY <1>1, AboutStacks
  <1>5. Checked /\ [MCNext]_allVars => Checked'
    BY <1>2, AboutStacks
  <1>6. Checked => TraceesReleased
    BY <1>3 DEF TraceesReleased
  <1> HIDE DEF Checked
  <1> QED
    BY <1>1, <1>2, <1>3, <1>4, <1>5, <1>6, PTL DEF Sampler!Spec, MCSpec
-----------------------------------------------------------------------------
(* StackSampler: whose stacks are shown.                                   *)

\* Samples, the records of a ring, readers and entries.
SampleSet ==
  [time : Nat, cpu : Cpus \cup {None}, of : Nat, source : {"clock", "switch", "ptrace"}, by : Nat]
SampleRecords == [kind : {"sample"}, abi : 0..2, sample : SampleSet]
SwitchRecords ==
  [kind : {"switch"}, out : BOOLEAN, time : Nat, cpu : Cpus \cup {None}, id : Nat]
RecordSet ==
  SampleRecords \cup SwitchRecords \cup [kind : {"throttle"}] \cup [kind : {"lost"}, count : Nat]
ReaderSet ==
  [of : Nat, ring : Seq(RecordSet), dropped : Nat, lost : Nat, pending : SampleSet \cup {None}]
EntrySet ==
  [start : Nat, event : ReaderSet \cup {None}, switch_event : ReaderSet \cup {None}, lost : Nat,
   setup : SUBSET {"setup"}, ptrace : SUBSET {"ptrace"},
   error : SUBSET {"perf", "setup", "ptrace"}, latest : SampleSet \cup {None}, epoch : Nat,
   maps : Layouts \cup {None}]

\* Absent is none of them.
NoneApart == None \notin SampleSet \cup ReaderSet \cup EntrySet \cup {"pending", "held", "handled"}

\* A sample of an owner the tid had since the entry's, classified by its own switch.
SampleGood(s, from, to) ==
  s \in SampleSet /\ s.of \in from..to /\ (s.source = "switch" => s.by = s.time)

\* The records of a ring are of such owners; a switch-out that follows a sample
\* without a gap is the one that took it.
ReaderGood(r, from, to) ==
  /\ r \in ReaderSet
  /\ r.of = 0 \/ r.of \in from..to
  /\ r.pending # None => r.pending.of \in from..to /\ r.pending.source = "clock"
  /\ \A i \in 1..Len(r.ring) :
       /\ r.ring[i].kind = "sample" =>
            r.ring[i].sample.of \in from..to /\ r.ring[i].sample.source = "clock"
       /\ r.ring[i].kind = "switch" /\ r.ring[i].out =>
            /\ i > 1 /\ r.ring[i - 1].kind = "sample" => r.ring[i - 1].sample.time = r.ring[i].id
            /\ i = 1 /\ r.pending # None => r.pending.time = r.ring[i].id

\* What a reader has lost; nothing without one.
LostBy(r) == IF r = None THEN 0 ELSE r.lost

EntryGood(e, to) ==
  /\ e \in EntrySet
  /\ e.start \in 1..to
  /\ e.event # None => ReaderGood(e.event, e.start, to) /\ e.event.pending = None
  /\ e.switch_event # None => ReaderGood(e.switch_event, e.start, to)
  /\ e.latest # None => SampleGood(e.latest, e.start, to)
  /\ e.lost = LostBy(e.event) + LostBy(e.switch_event)

\* The sample at the end of what a reader has read and not read: a switch record
\* written next would complete it.
OpenSample(r) ==
  IF Len(r.ring) = 0 THEN r.pending
  ELSE IF r.ring[Len(r.ring)].kind = "sample" THEN r.ring[Len(r.ring)].sample ELSE None

\* Unless a record was dropped, that is the sample of the switch the thread is in.
SwitchOpen(r, t) ==
  start[t] # 0 /\ r.of = start[t] /\ r.dropped = 0 /\ OpenSample(r) # None =>
    sampled[t] = OpenSample(r).time

EpochGood(e) ==
  e.latest # None =>
    /\ e.epoch <= context.epoch
    /\ e.epoch = context.epoch => e.maps = context.maps

ThreadGood(t) ==
  threads[t] # None =>
    /\ EntryGood(threads[t], born[t])
    /\ threads[t].switch_event # None => SwitchOpen(threads[t].switch_event, t)
    /\ EpochGood(threads[t])

\* The kernel's clock and threads.
KernelGood ==
  /\ now \in Nat \ {0}
  /\ start \in [Tids -> Nat] /\ born \in [Tids -> Nat] /\ sampled \in [Tids -> Nat]
  /\ cpu \in [Tids -> Cpus \cup {None}]
  /\ \A t \in Tids : start[t] \in {0, born[t]}

\* What a poll has done so far, and what a capture works on.
Capturing == {"capture", "interrupt", "wait", "read", "drop"}
LoopGood ==
  /\ todo \subseteq Tids /\ alive \subseteq Tids /\ calm \in BOOLEAN
  /\ phase = "drain" =>
       LET t == Sampler!Least(todo)
       IN t \in todo /\ stat \in 1..born[t] /\ (calm => stat = start[t])
  /\ phase = "threads" => alive \cap todo = {}
  /\ phase = "drain" => alive \cap todo = {Sampler!Least(todo)}
  /\ phase \in {"threads", "drain"} /\ calm =>
       \A t \in alive \ todo : threads[t] # None => threads[t].start = start[t]
  /\ phase \in Capturing \cup {"idle"} /\ calm =>
       \A t \in Tids : threads[t] # None => threads[t].start = start[t]
  /\ phase \in Capturing => \A t \in todo : threads[t] # None
  /\ phase \in Capturing \ {"capture"} =>
       LET t == guard.tid
       IN /\ threads[t] # None /\ t \in Tids
          /\ guard.result # None => SampleGood(guard.result, threads[t].start, born[t])

SamplesInv ==
  /\ KernelGood /\ LoopGood
  /\ context \in [epoch : Nat, maps : Layouts \cup {None}]
  /\ threads \in [Tids -> EntrySet \cup {None}]
  /\ \A t \in Tids : ThreadGood(t)

\* The loop of drain over the records of a ring.
Drains == INSTANCE FoldProofs WITH Op <- Sampler!ReadRecord

\* What drain has after n records of a good reader: a sample it would show is good,
\* and the one that waits for its switch is the record it read last.
DrainGood(acc, r, switches, n, from, to) ==
  /\ acc \in [pending : SampleSet \cup {None}, lost : Nat, latest : SampleSet \cup {None},
              failed : BOOLEAN]
  /\ acc.lost >= r.lost
  /\ acc.latest # None => SampleGood(acc.latest, from, to)
  /\ ~switches => acc.pending = None
  /\ ~acc.failed /\ acc.pending # None =>
       IF n = 0 THEN acc.pending = r.pending
                ELSE r.ring[n].kind = "sample" /\ acc.pending = r.ring[n].sample

LEMMA RecordKinds ==
  ASSUME NEW x \in RecordSet
  PROVE  /\ x.kind \in {"sample", "switch", "throttle", "lost"}
         /\ x.kind = "sample" => x.abi \in 0..2 /\ x.sample \in SampleSet
         /\ x.kind = "switch" =>
              x.out \in BOOLEAN /\ x.time \in Nat /\ x.cpu \in Cpus \cup {None} /\ x.id \in Nat
         /\ x.kind = "lost" => x.count \in Nat
  BY DEF RecordSet, SampleRecords, SwitchRecords

LEMMA ReadKeeps ==
  ASSUME NEW r, NEW from \in Nat, NEW to \in Nat, ReaderGood(r, from, to),
         NEW switches \in BOOLEAN, NEW n \in 1..Len(r.ring), NEW acc,
         DrainGood(acc, r, switches, n - 1, from, to)
  PROVE  DrainGood(Sampler!ReadRecord(acc, r.ring[n], switches), r, switches, n, from, to)
  <1> DEFINE x == r.ring[n]
             next == Sampler!ReadRecord(acc, x, switches)
  <1>1. r.ring \in Seq(RecordSet) /\ r.lost \in Nat /\ x \in RecordSet /\ Len(r.ring) \in Nat
    BY DEF ReaderGood, ReaderSet
  <1>2. /\ x.kind \in {"sample", "switch", "throttle", "lost"}
        /\ x.kind = "sample" => x.abi \in 0..2 /\ x.sample \in SampleSet
        /\ x.kind = "switch" =>
             x.out \in BOOLEAN /\ x.time \in Nat /\ x.cpu \in Cpus \cup {None} /\ x.id \in Nat
        /\ x.kind = "lost" => x.count \in Nat
    BY <1>1, RecordKinds
  <1>3. /\ x.kind = "sample" => x.sample.of \in from..to /\ x.sample.source = "clock"
        /\ x.kind = "switch" /\ x.out =>
             /\ n > 1 /\ r.ring[n - 1].kind = "sample" => r.ring[n - 1].sample.time = x.id
             /\ n = 1 /\ r.pending # None => r.pending.time = x.id
        /\ n > 1 /\ r.ring[n - 1].kind = "sample" =>
             r.ring[n - 1].sample.of \in from..to /\ r.ring[n - 1].sample.source = "clock"
        /\ r.pending # None => r.pending.of \in from..to /\ r.pending.source = "clock"
    BY <1>1 DEF ReaderGood
  <1> DEFINE Accs == [pending : SampleSet \cup {None}, lost : Nat, latest : SampleSet \cup {None},
                      failed : BOOLEAN]
  <1> SUFFICES DrainGood(next, r, switches, n, from, to)
    OBVIOUS
  <1>4. acc \in Accs /\ acc.lost >= r.lost
    BY DEF DrainGood
  <1>5. CASE acc.failed
    <2>1. next = acc
      BY <1>2, <1>5 DEF Sampler!ReadRecord
    <2> QED
      BY <1>5, <2>1 DEF DrainGood
  <1>6. CASE ~acc.failed /\ x.kind = "sample"
    <2>1. CASE x.abi = 1
      <3>1. next = [acc EXCEPT !.failed = TRUE]
        BY <1>6, <2>1 DEF Sampler!ReadRecord
      <3> HIDE DEF next
      <3> QED
        BY <3>1, <1>4, <1>6 DEF DrainGood
    <2>2. CASE x.abi # 1 /\ switches
      <3>1. next = [acc EXCEPT !.pending = Sampler!Parsed(x)]
        BY <1>6, <2>2 DEF Sampler!ReadRecord
      <3>2. Sampler!Parsed(x) \in {None, x.sample}
        BY DEF Sampler!Parsed
      <3> HIDE DEF next
      <3> QED
        BY <3>1, <3>2, <1>1, <1>2, <1>4, <1>6, <2>2 DEF DrainGood
    <2>3. CASE x.abi # 1 /\ ~switches
      <3>1. next = [acc EXCEPT !.latest = IF x.abi = 0 THEN @ ELSE Sampler!Parsed(x)]
        BY <1>6, <2>3 DEF Sampler!ReadRecord
      <3>2. x.abi # 0 => Sampler!Parsed(x) = x.sample
        BY DEF Sampler!Parsed
      <3>3. SampleGood(x.sample, from, to)
        BY <1>2, <1>3, <1>6 DEF SampleGood
      <3>4. acc.pending = None
        BY <2>3 DEF DrainGood
      <3> HIDE DEF next
      <3> QED
        BY <3>1, <3>2, <3>3, <3>4, <1>1, <1>2, <1>4, <1>6, <2>3 DEF DrainGood
    <2> QED
      BY <2>1, <2>2, <2>3
  <1>7. CASE ~acc.failed /\ x.kind = "switch"
    <2> DEFINE completed == [acc.pending EXCEPT !.source = "switch", !.by = x.id]
    <2>1. next = [acc EXCEPT !.pending = None,
                             !.latest = IF Sampler!Completes(x, acc.pending) THEN completed ELSE @]
      BY <1>7 DEF Sampler!ReadRecord
    <2>2. ASSUME Sampler!Completes(x, acc.pending)
          PROVE  completed \in SampleSet /\ SampleGood(completed, from, to)
      <3>1. acc.pending # None /\ x.out
        BY <2>2 DEF Sampler!Completes
      <3>2. acc.pending \in SampleSet
        BY <1>4, <3>1
      <3>3. acc.pending.time = x.id /\ acc.pending.of \in from..to
        <4>1. CASE n = 1
          BY <1>1, <1>3, <1>7, <3>1, <4>1 DEF DrainGood
        <4>2. CASE n # 1
          BY <1>1, <1>3, <1>7, <3>1, <4>2 DEF DrainGood
        <4> QED BY <4>1, <4>2
      <3> QED
        BY <1>2, <1>7, <3>2, <3>3 DEF SampleGood, SampleSet
    <2> HIDE DEF next, completed
    <2> QED
      BY <2>1, <2>2, <1>1, <1>4, <1>7 DEF DrainGood
  <1>8. CASE ~acc.failed /\ x.kind = "throttle"
    <2>1. next = [acc EXCEPT !.pending = None]
      BY <1>8 DEF Sampler!ReadRecord, Sampler!Unclassified
    <2> HIDE DEF next
    <2> QED
      BY <2>1, <1>1, <1>4, <1>8 DEF DrainGood
  <1>9. CASE ~acc.failed /\ x.kind = "lost"
    <2>1. next = [acc EXCEPT !.pending = None, !.lost = @ + x.count]
      BY <1>9 DEF Sampler!ReadRecord, Sampler!Unclassified
    <2> HIDE DEF next
    <2>2. x.count \in Nat /\ acc.lost \in Nat /\ acc.lost + x.count >= r.lost
      BY <1>1, <1>2, <1>4, <1>9
    <2>3. /\ next.lost = acc.lost + x.count /\ next.latest = acc.latest
          /\ next.pending = None /\ next.failed = acc.failed
      BY <2>1, <1>4
    <2>4. next \in Accs
      <3>1. acc.lost + x.count \in Nat
        BY <2>2
      <3> QED
        BY <2>1, <3>1, <1>4
    <2> QED
      BY <2>2, <2>3, <2>4, <1>9 DEF DrainGood
  <1> QED
    BY <1>2, <1>4, <1>5, <1>6, <1>7, <1>8, <1>9

\* drain leaves a good reader, whose losses have only grown and whose pending sample
\* is the one that was open, and gives a good sample or none.
LEMMA DrainedGood ==
  ASSUME NEW r, NEW from \in Nat, NEW to \in Nat, ReaderGood(r, from, to),
         NEW switches \in BOOLEAN, switches \/ r.pending = None
  PROVE  LET d == Sampler!Drained(r, switches)
         IN /\ ReaderGood(d.reader, from, to)
            /\ d.reader.lost >= r.lost /\ d.reader.of = r.of /\ d.reader.dropped = r.dropped
            /\ d.reader.ring = << >>
            /\ d.reader.pending # None => d.reader.pending = OpenSample(r)
            /\ ~switches => d.reader.pending = None
            /\ d.sample # None => SampleGood(d.sample, from, to)
  <1> DEFINE base == [pending |-> r.pending, lost |-> r.lost, latest |-> None, failed |-> FALSE]
             drained == Drains!FoldAlong(base, r.ring, switches)
             d == Sampler!Drained(r, switches)
             n == Len(r.ring)
  <1>1. r \in ReaderSet /\ r.ring \in Seq(RecordSet) /\ n \in Nat /\ r.lost \in Nat
    BY DEF ReaderGood, ReaderSet
  <1>2. d = [reader |-> [r EXCEPT !.ring = <<>>,
                                  !.pending = IF drained.failed THEN None ELSE drained.pending,
                                  !.lost = IF drained.failed THEN drained.lost + 1 ELSE drained.lost],
             sample |-> IF drained.failed THEN None ELSE drained.latest,
             failed |-> drained.failed]
    BY Zenon DEF Sampler!Drained, Sampler!FoldLeft, Sampler!MapThenFoldSet, Sampler!Max,
                 Drains!FoldAlong, Drains!FoldLeft, Drains!MapThenFoldSet, Drains!Max
  <1>3. PICK g : /\ g[0] = base
                 /\ \A i \in 1..n : g[i] = Sampler!ReadRecord(g[i - 1], r.ring[i], switches)
                 /\ Drains!FoldAlong(base, r.ring, switches) = g[n]
    BY <1>1, Drains!SeqLoop, SMTT(30)
  <1> DEFINE T == {i \in 0..n : DrainGood(g[i], r, switches, i, from, to)}
  <1>4. 0 \in T
    <2>1. base \in [pending : SampleSet \cup {None}, lost : Nat, latest : SampleSet \cup {None},
                    failed : BOOLEAN]
      BY <1>1 DEF ReaderSet
    <2>2. DrainGood(base, r, switches, 0, from, to)
      BY <1>1, <2>1 DEF DrainGood
    <2> QED
      BY <1>1, <1>3, <2>2
  <1>5. \A i \in 1..n : i - 1 \in T => i \in T
    <2> SUFFICES ASSUME NEW i \in 1..n, DrainGood(g[i - 1], r, switches, i - 1, from, to)
                 PROVE  DrainGood(g[i], r, switches, i, from, to)
      BY <1>1
    <2> QED
      BY <1>3, ReadKeeps
  <1>6. DrainGood(drained, r, switches, n, from, to)
    <2>1. n \in T
      <3> HIDE DEF T, n
      <3>1. \A i \in 0..n : i \in T
        BY <1>1, <1>4, <1>5, Drains!Reaches
      <3> QED
        BY <1>1, <3>1
    <2> QED
      BY <1>3, <2>1
  <1> HIDE DEF d, drained
  <1>7. /\ d.reader \in ReaderSet /\ d.reader.of = r.of /\ d.reader.dropped = r.dropped
        /\ d.reader.ring = << >>
        /\ d.reader.pending = IF drained.failed THEN None ELSE drained.pending
        /\ d.reader.lost = IF drained.failed THEN drained.lost + 1 ELSE drained.lost
        /\ d.sample = IF drained.failed THEN None ELSE drained.latest
    <2> DEFINE pend == IF drained.failed THEN None ELSE drained.pending
               cost == IF drained.failed THEN drained.lost + 1 ELSE drained.lost
               reader == [r EXCEPT !.ring = <<>>, !.pending = pend, !.lost = cost]
    <2>1. pend \in SampleSet \cup {None} /\ cost \in Nat
      BY <1>6 DEF DrainGood
    <2>2. d.reader = reader /\ d.sample = IF drained.failed THEN None ELSE drained.latest
      BY <1>2
    <2> HIDE DEF pend, cost
    <2>3. /\ reader \in ReaderSet /\ reader.of = r.of /\ reader.dropped = r.dropped
          /\ reader.ring = << >> /\ reader.pending = pend /\ reader.lost = cost
      <3>1. << >> \in Seq(RecordSet)
        OBVIOUS
      <3>2. reader.ring = << >> /\ reader.pending = pend /\ reader.lost = cost
        BY <1>1 DEF ReaderSet
      <3>3. reader \in ReaderSet
        BY <1>1, <2>1, <3>1 DEF ReaderSet
      <3> QED
        BY <1>1, <3>2, <3>3 DEF ReaderSet
    <2> QED
      BY <2>2, <2>3 DEF pend, cost
  <1>8. d.reader.pending # None =>
          d.reader.pending = OpenSample(r) /\ d.reader.pending.of \in from..to
          /\ d.reader.pending.source = "clock"
    BY <1>1, <1>6, <1>7 DEF DrainGood, ReaderGood, OpenSample
  <1>9. ReaderGood(d.reader, from, to)
    BY <1>7, <1>8 DEF ReaderGood
  <1>10. d.reader.lost >= r.lost /\ (d.sample # None => SampleGood(d.sample, from, to))
    BY <1>1, <1>6, <1>7 DEF DrainGood
  <1> QED
    BY <1>6, <1>7, <1>8, <1>9, <1>10 DEF DrainGood, d

\* A record the kernel writes keeps a reader good: the next switch-out is the open
\* sample's own, unless a record is missing in between.
LEMMA WrittenGood ==
  ASSUME NoneApart, NEW r, NEW from \in Nat, NEW to \in Nat, ReaderGood(r, from, to),
         NEW x \in RecordSet,
         x.kind = "sample" => x.sample.of \in from..to /\ x.sample.source = "clock",
         x.kind = "switch" /\ x.out /\ r.dropped = 0 /\ OpenSample(r) # None =>
           OpenSample(r).time = x.id
  PROVE  LET w == Sampler!Written(r, x)
         IN /\ ReaderGood(w, from, to)
            /\ w.of = r.of /\ w.lost = r.lost /\ w.pending = r.pending
            /\ w.dropped = 0 => OpenSample(w) = IF x.kind = "sample" THEN x.sample ELSE None
  <1> DEFINE w == Sampler!Written(r, x)
             n == Len(r.ring)
             gap == [kind |-> "lost", count |-> r.dropped]
             more == IF r.dropped > 0 THEN <<gap, x>> ELSE <<x>>
             all == r.ring \o more
  <1>1. r \in ReaderSet /\ r.ring \in Seq(RecordSet) /\ n \in Nat /\ r.dropped \in Nat
    BY DEF ReaderGood, ReaderSet
  <1>2. gap \in RecordSet /\ gap.kind = "lost"
    BY <1>1 DEF RecordSet
  <1> HIDE DEF gap
  <1>3. \A i \in 1..n : r.ring[i] \in RecordSet
    BY <1>1
  <1>4. CASE w = [r EXCEPT !.ring = all, !.dropped = 0]
    <2>1. /\ more \in Seq(RecordSet) /\ Len(more) \in Nat
          /\ r.dropped > 0 => Len(more) = 2 /\ more[1] = gap /\ more[2] = x
          /\ ~(r.dropped > 0) => Len(more) = 1 /\ more[1] = x
      BY <1>2
    <2> HIDE DEF more
    <2>2. all \in Seq(RecordSet) /\ Len(all) = n + Len(more)
      BY <1>1, <2>1
    <2>3. /\ \A i \in 1..n : all[i] = r.ring[i]
          /\ \A i \in 1..Len(more) : all[n + i] = more[i]
      BY <1>1, <2>1
    <2>4. /\ r.dropped > 0 => all[n + 1] = gap /\ all[n + 2] = x
          /\ ~(r.dropped > 0) => all[n + 1] = x
      BY <2>1, <2>3
    <2> HIDE DEF all, w
    <2>5. /\ w.ring = all /\ w.dropped = 0 /\ w.of = r.of /\ w.lost = r.lost
          /\ w.pending = r.pending /\ w \in ReaderSet
      BY <1>1, <1>4, <2>2 DEF ReaderSet
    <2>0. /\ r.dropped > 0 => Len(all) = n + 2 /\ all[n + 1] = gap /\ all[n + 2] = x
          /\ ~(r.dropped > 0) => Len(all) = n + 1 /\ all[n + 1] = x
      BY <2>1, <2>2, <2>4
    <2>6. Len(all) > 0 /\ all[Len(all)] = x
      <3>0. n \in Nat
        BY <1>1
      <3> HIDE DEF n
      <3>1. CASE r.dropped > 0
        BY <2>0, <3>0, <3>1
      <3>2. CASE ~(r.dropped > 0)
        BY <2>0, <3>0, <3>2
      <3> QED
        BY <3>1, <3>2
    <2>7. OpenSample(w) = IF x.kind = "sample" THEN x.sample ELSE None
      BY <2>5, <2>6 DEF OpenSample
    <2>8. ASSUME NEW i \in 1..Len(all)
          PROVE  /\ all[i].kind = "sample" =>
                      all[i].sample.of \in from..to /\ all[i].sample.source = "clock"
                 /\ all[i].kind = "switch" /\ all[i].out =>
                      /\ i > 1 /\ all[i - 1].kind = "sample" => all[i - 1].sample.time = all[i].id
                      /\ i = 1 /\ r.pending # None => r.pending.time = all[i].id
      <3>1. CASE i <= n
        <4>1. all[i] = r.ring[i] /\ (i > 1 => all[i - 1] = r.ring[i - 1])
          BY <1>1, <2>3, <3>1
        <4>2. i \in 1..Len(r.ring)
          BY <1>1, <3>1
        <4> QED
          BY <4>1, <4>2 DEF ReaderGood
      <3>2. CASE i > n /\ r.dropped > 0
        <4>1. i = n + 1 \/ i = n + 2
          <5>1. n \in Nat /\ Len(all) = n + 2
            BY <1>1, <2>0, <3>2
          <5> HIDE DEF n
          <5> QED
            BY <5>1, <3>2
        <4>2. i = n + 1 => all[i] = gap
          BY <2>4, <3>2
        <4>3. i = n + 2 => all[i] = x /\ all[i - 1] = gap /\ i > 1
          BY <1>1, <2>4, <3>2
        <4> QED
          BY <1>2, <4>1, <4>2, <4>3
      <3>3. CASE i > n /\ ~(r.dropped > 0)
        <4>1. i = n + 1 /\ all[i] = x /\ r.dropped = 0
          <5>1. n \in Nat /\ Len(all) = n + 1 /\ all[n + 1] = x /\ r.dropped \in Nat
            BY <1>1, <2>0, <3>3
          <5> HIDE DEF n
          <5>2. i = n + 1
            BY <5>1, <3>3
          <5> QED
            BY <5>1, <5>2, <3>3
        <4>2. CASE n = 0
          <5>1. OpenSample(r) = r.pending
            BY <4>2 DEF OpenSample
          <5> QED
            BY <4>1, <4>2, <5>1
        <4>3. CASE n > 0
          <5>1. all[i - 1] = r.ring[n] /\ i > 1 /\ r.ring[n] \in RecordSet
            BY <1>1, <1>3, <2>3, <4>1, <4>3
          <5>2. ASSUME r.ring[n].kind = "sample"
                PROVE  OpenSample(r) = r.ring[n].sample /\ OpenSample(r) # None
            BY <4>3, <5>1, <5>2, RecordKinds DEF OpenSample, NoneApart
          <5> QED
            BY <4>1, <4>3, <5>1, <5>2
        <4> QED
          BY <1>1, <4>2, <4>3
      <3> QED
        BY <1>1, <3>1, <3>2, <3>3
    <2>9. ReaderGood(w, from, to)
      BY <2>5, <2>8 DEF ReaderGood
    <2> QED
      BY <2>5, <2>7, <2>9 DEF w
  <1>5. CASE w = [r EXCEPT !.dropped = @ + 1]
    <2> HIDE DEF w
    <2>1. /\ w.ring = r.ring /\ w.dropped = r.dropped + 1 /\ w.of = r.of /\ w.lost = r.lost
          /\ w.pending = r.pending /\ w \in ReaderSet
      BY <1>1, <1>5 DEF ReaderSet
    <2>2. ReaderGood(w, from, to)
      BY <2>1 DEF ReaderGood
    <2> QED
      BY <1>1, <2>1, <2>2 DEF w
  <1>6. w = [r EXCEPT !.ring = all, !.dropped = 0] \/ w = [r EXCEPT !.dropped = @ + 1]
    BY DEF Sampler!Written, gap
  <1> QED
    BY <1>4, <1>5, <1>6

\* A step leaves what an entry shows.
ShownKept(u) ==
  /\ (threads[u] = None) = (threads'[u] = None)
  /\ threads[u] # None =>
       /\ threads'[u].start = threads[u].start /\ threads'[u].latest = threads[u].latest
       /\ threads'[u].lost = threads[u].lost

\* The kernel writes a record of thread t: a sample into either ring, or another
\* record into that of the context switches.
LEMMA Recorded ==
  ASSUME NoneApart, KernelGood, threads \in [Tids -> EntrySet \cup {None}],
         \A u \in Tids : ThreadGood(u),
         NEW t \in Tids, start[t] # 0, NEW ev \in {"event", "switch_event"}, NEW x \in RecordSet,
         Sampler!Record(t, ev, x), UNCHANGED <<start, born, context>>,
         \A u \in Tids : u # t \/ ev = "event" => sampled'[u] = sampled[u],
         x.kind = "sample" => x.sample.of = start[t] /\ x.sample.source = "clock",
         ev = "event" => x.kind = "sample",
         ev = "switch_event" /\ x.kind = "sample" => sampled'[t] = x.sample.time,
         x.kind = "switch" /\ x.out => x.id = sampled[t]
  PROVE  /\ threads' \in [Tids -> EntrySet \cup {None}]
         /\ \A u \in Tids : ThreadGood(u)' /\ ShownKept(u)
  <1> DEFINE e == threads[t]
             r == e[ev]
             w == Sampler!Written(r, x)
  <1>1. CASE threads' = threads /\ (e = None \/ r = None \/ r.of # start[t])
    <2>1. \A u \in Tids : ThreadGood(u)'
      <3> SUFFICES ASSUME NEW u \in Tids, threads[u] # None PROVE ThreadGood(u)'
        BY <1>1 DEF ThreadGood
      <3>1. EntryGood(threads[u], born[u]) /\ EpochGood(threads[u])
        BY DEF ThreadGood
      <3>2. EpochGood(threads[u])'
        BY <1>1, <3>1 DEF EpochGood
      <3>3. threads[u].switch_event # None => SwitchOpen(threads[u].switch_event, u)'
        <4>1. CASE sampled'[u] = sampled[u]
          BY <1>1, <4>1 DEF ThreadGood, SwitchOpen
        <4>2. CASE sampled'[u] # sampled[u]
          <5>1. u = t /\ ev = "switch_event"
            BY <4>2
          <5> QED
            BY <1>1, <5>1 DEF SwitchOpen
        <4> QED
          BY <4>1, <4>2
      <3> QED
        BY <1>1, <3>1, <3>2, <3>3 DEF ThreadGood
    <2> QED
      BY <1>1, <2>1 DEF ShownKept
  <1>2. CASE /\ e # None /\ r # None /\ r.of = start[t]
             /\ threads' = [threads EXCEPT ![t][ev] = w]
    <2> DEFINE f == [e EXCEPT ![ev] = w]
    <2>1. threads' = [threads EXCEPT ![t] = f]
      BY <1>2
    <2>2. /\ EntryGood(e, born[t]) /\ EpochGood(e) /\ e \in EntrySet
          /\ e.switch_event # None => SwitchOpen(e.switch_event, t)
      BY <1>2 DEF ThreadGood, EntryGood
    <2>3. ReaderGood(r, e.start, born[t]) /\ e.start \in 1..born[t] /\ born[t] \in Nat
      BY <1>2, <2>2 DEF EntryGood, KernelGood
    <2>4. start[t] \in e.start..born[t]
      BY <1>2, <2>3 DEF KernelGood, ReaderGood
    <2>5. x.kind = "switch" /\ x.out /\ r.dropped = 0 /\ OpenSample(r) # None =>
            OpenSample(r).time = x.id
      BY <1>2, <2>2 DEF SwitchOpen
    <2>6. /\ ReaderGood(w, e.start, born[t])
          /\ w.of = r.of /\ w.lost = r.lost /\ w.pending = r.pending
          /\ w.dropped = 0 => OpenSample(w) = IF x.kind = "sample" THEN x.sample ELSE None
      <3> HIDE DEF r, w, e
      <3>1. e.start \in Nat
        BY <2>3
      <3> QED
        BY <2>3, <2>4, <2>5, <3>1, WrittenGood DEF w
    <2>7. w \in ReaderSet /\ w # None
      BY <2>6 DEF ReaderGood, NoneApart
    <2> HIDE DEF w
    <2>8. /\ f \in EntrySet /\ f # None
          /\ f.start = e.start /\ f.latest = e.latest /\ f.lost = e.lost /\ f.epoch = e.epoch
          /\ f.maps = e.maps
          /\ f.event = IF ev = "event" THEN w ELSE e.event
          /\ f.switch_event = IF ev = "switch_event" THEN w ELSE e.switch_event
      <3>1. CASE ev = "event"
        BY <2>2, <2>7, <3>1 DEF EntrySet, NoneApart
      <3>2. CASE ev = "switch_event"
        BY <2>2, <2>7, <3>2 DEF EntrySet, NoneApart
      <3> QED
        BY <3>1, <3>2
    <2> HIDE DEF f
    <2>9. EntryGood(f, born[t])
      <3>1. ev = "event" => w.pending = None
        BY <1>2, <2>2, <2>6 DEF EntryGood
      <3>2. f.lost = LostBy(f.event) + LostBy(f.switch_event)
        BY <1>2, <2>2, <2>6, <2>7, <2>8 DEF EntryGood, LostBy
      <3> QED
        BY <2>2, <2>3, <2>6, <2>8, <3>1, <3>2 DEF EntryGood
    <2>0. threads'[t] = f
      BY <2>1
    <2>10. threads'[t].switch_event # None => SwitchOpen(threads[t].switch_event, t)'
      <3>1. CASE ev = "event"
        BY <2>0, <2>2, <2>8, <3>1 DEF SwitchOpen
      <3>2. CASE ev = "switch_event"
        BY <2>0, <2>6, <2>8, <3>2 DEF SwitchOpen
      <3> QED
        BY <3>1, <3>2
    <2>11. EpochGood(threads[t])'
      BY <2>0, <2>2, <2>8 DEF EpochGood
    <2>12. ThreadGood(t)'
      BY <2>0, <2>8, <2>9, <2>10, <2>11 DEF ThreadGood
    <2>13. ASSUME NEW u \in Tids, u # t PROVE ThreadGood(u)'
      <3>1. threads'[u] = threads[u]
        BY <2>1, <2>13
      <3>2. ThreadGood(u) /\ sampled'[u] = sampled[u]
        BY <2>13
      <3> QED
        BY <3>1, <3>2 DEF ThreadGood, SwitchOpen, EpochGood
    <2> QED
      BY <1>2, <2>1, <2>8, <2>12, <2>13 DEF ShownKept
  <1> QED
    BY <1>1, <1>2 DEF Sampler!Record

\* A poll or a capture goes on over entries that show what they showed.
LEMMA LoopKept ==
  ASSUME LoopGood, UNCHANGED <<start, born, calm, phase, todo, stat, alive, guard>>,
         \A u \in Tids : ShownKept(u)
  PROVE  LoopGood'
  BY DEF LoopGood, ShownKept

LEMMA KeptAdvances ==
  ASSUME threads \in [Tids -> EntrySet \cup {None}], \A u \in Tids : ShownKept(u)
  PROVE  Sampler!Advances
  BY DEF ShownKept, Sampler!Advances, EntrySet, SampleSet

\* Steps that touch none of it.
LEMMA SamplesStay ==
  ASSUME SamplesInv,
         UNCHANGED <<now, start, born, cpu, sampled, calm, threads, context, phase, todo, stat,
                     alive, guard>>
  PROVE  SamplesInv' /\ Sampler!Advances
  <1>1. \A u \in Tids : ThreadGood(u)' /\ ShownKept(u)
    BY DEF SamplesInv, ThreadGood, SwitchOpen, EpochGood, ShownKept
  <1>2. LoopGood' /\ Sampler!Advances
    BY <1>1, LoopKept, KeptAdvances DEF SamplesInv
  <1> QED
    BY <1>1, <1>2 DEF SamplesInv, KernelGood

\* A tid that is reused leaves what its earlier owners left good.
LEMMA Wider ==
  ASSUME NEW to \in Nat, NEW more \in Nat, to <= more
  PROVE  /\ \A from \in Nat : \A s : SampleGood(s, from, to) => SampleGood(s, from, more)
         /\ \A from \in Nat : \A r : ReaderGood(r, from, to) => ReaderGood(r, from, more)
         /\ \A e : EntryGood(e, to) => EntryGood(e, more)
  <1>1. \A from \in Nat : from..to \subseteq from..more
    OBVIOUS
  <1>2. \A from \in Nat : \A s : SampleGood(s, from, to) => SampleGood(s, from, more)
    BY <1>1 DEF SampleGood
  <1>3. \A from \in Nat : \A r : ReaderGood(r, from, to) => ReaderGood(r, from, more)
    <2> SUFFICES ASSUME NEW from \in Nat, NEW r, ReaderGood(r, from, to)
                 PROVE  ReaderGood(r, from, more)
      OBVIOUS
    <2>1. from..to \subseteq from..more
      BY <1>1
    <2> QED
      BY <2>1 DEF ReaderGood
  <1>4. ASSUME NEW e, EntryGood(e, to) PROVE EntryGood(e, more)
    <2>1. e.start \in Nat /\ e.start \in 1..more
      BY <1>4 DEF EntryGood
    <2> QED
      BY <1>2, <1>3, <1>4, <2>1 DEF EntryGood
  <1> QED
    BY <1>2, <1>3, <1>4

\* Steps of the kernel.
LEMMA KernelSamples ==
  ASSUME NoneApart, SamplesInv, Sampler!Kernel
  PROVE  SamplesInv' /\ Sampler!Advances
  <1>0. ASSUME NEW t \in Tids, start[t] # 0, NEW ev \in {"event", "switch_event"},
               NEW x \in RecordSet, Sampler!Record(t, ev, x),
               UNCHANGED <<start, born, context, calm, phase, todo, stat, alive, guard>>,
               \A u \in Tids : u # t \/ ev = "event" => sampled'[u] = sampled[u],
               x.kind = "sample" => x.sample.of = start[t] /\ x.sample.source = "clock",
               ev = "event" => x.kind = "sample",
               ev = "switch_event" /\ x.kind = "sample" => sampled'[t] = x.sample.time,
               x.kind = "switch" /\ x.out => x.id = sampled[t],
               KernelGood'
        PROVE  SamplesInv' /\ Sampler!Advances
    <2>1. /\ threads' \in [Tids -> EntrySet \cup {None}]
          /\ \A u \in Tids : ThreadGood(u)' /\ ShownKept(u)
      BY <1>0, Recorded DEF SamplesInv
    <2>2. LoopGood' /\ Sampler!Advances
      BY <1>0, <2>1, LoopKept, KeptAdvances DEF SamplesInv
    <2> QED
      BY <1>0, <2>1, <2>2 DEF SamplesInv
  <1>1. ASSUME NEW t \in Tids, NEW abi \in 0..2
        PROVE  LET x == Sampler!Sample(t, abi, "clock")
               IN /\ x \in RecordSet /\ x.kind = "sample" /\ x.sample.of = start[t]
                  /\ x.sample.source = "clock" /\ x.sample.time = now
    <2>1. [time |-> now, cpu |-> cpu[t], of |-> start[t], source |-> "clock", by |-> 0] \in SampleSet
      BY DEF SamplesInv, KernelGood, SampleSet
    <2> QED
      BY <2>1 DEF Sampler!Sample, RecordSet, SampleRecords
  <1>2. ASSUME NEW t \in Tids, NEW out \in BOOLEAN, NEW on \in Cpus \cup {None}
        PROVE  LET x == Sampler!Switch(t, out, on)
               IN x \in RecordSet /\ x.kind = "switch" /\ x.out = out /\ x.id = sampled[t]
    BY DEF SamplesInv, KernelGood, Sampler!Switch, RecordSet, SwitchRecords
  <1>3. ASSUME NEW t \in Tids, NEW abi \in 0..2, Sampler!Clock(t, abi)
        PROVE  SamplesInv' /\ Sampler!Advances
    <2>1. KernelGood' /\ start[t] # 0
      BY <1>3 DEF Sampler!Clock, Sampler!Running, SamplesInv, KernelGood
    <2> DEFINE x == Sampler!Sample(t, abi, "clock")
    <2>2. x \in RecordSet /\ x.kind = "sample" /\ x.sample.of = start[t] /\ x.sample.source = "clock"
      BY <1>1
    <2>3. Sampler!Record(t, "event", x)
      BY <1>3 DEF Sampler!Clock
    <2>4. UNCHANGED <<start, born, context, calm, phase, todo, stat, alive, guard, sampled>>
      BY <1>3 DEF Sampler!Clock, Sampler!loopVars
    <2> HIDE DEF x
    <2> QED
      BY <1>0, <2>1, <2>2, <2>3, <2>4
  <1>4. ASSUME NEW t \in Tids, NEW abi \in 0..2, Sampler!SwitchSample(t, abi)
        PROVE  SamplesInv' /\ Sampler!Advances
    <2>1. KernelGood' /\ start[t] # 0 /\ sampled' = [sampled EXCEPT ![t] = now]
      BY <1>4 DEF Sampler!SwitchSample, Sampler!Running, SamplesInv, KernelGood
    <2> DEFINE x == Sampler!Sample(t, abi, "clock")
    <2>2. /\ x \in RecordSet /\ x.kind = "sample" /\ x.sample.of = start[t]
          /\ x.sample.source = "clock" /\ x.sample.time = now
      BY <1>1
    <2>3. Sampler!Record(t, "switch_event", x)
      BY <1>4 DEF Sampler!SwitchSample
    <2>4. UNCHANGED <<start, born, context, calm, phase, todo, stat, alive, guard>>
      BY <1>4 DEF Sampler!SwitchSample, Sampler!loopVars
    <2>5. sampled'[t] = now /\ \A u \in Tids : u # t => sampled'[u] = sampled[u]
      BY <2>1 DEF SamplesInv, KernelGood
    <2> HIDE DEF x
    <2> QED
      BY <1>0, <2>1, <2>2, <2>3, <2>4, <2>5
  <1>5. ASSUME NEW t \in Tids, Sampler!SwitchOut(t)
        PROVE  SamplesInv' /\ Sampler!Advances
    <2>1. KernelGood' /\ start[t] # 0
      BY <1>5 DEF Sampler!SwitchOut, Sampler!Running, SamplesInv, KernelGood
    <2> DEFINE x == Sampler!Switch(t, TRUE, cpu[t])
    <2>0. cpu[t] \in Cpus \cup {None}
      BY DEF SamplesInv, KernelGood
    <2>2. x \in RecordSet /\ x.kind = "switch" /\ x.id = sampled[t]
      BY <1>2, <2>0
    <2>3. Sampler!Record(t, "switch_event", x)
      BY <1>5 DEF Sampler!SwitchOut
    <2>4. /\ UNCHANGED <<start, born, context, calm, phase, todo, stat, alive, guard>>
          /\ \A u \in Tids : u # t => sampled'[u] = sampled[u]
      BY <1>5 DEF Sampler!SwitchOut, Sampler!loopVars, SamplesInv, KernelGood
    <2> HIDE DEF x
    <2> QED
      BY <1>0, <2>1, <2>2, <2>3, <2>4
  <1>6. ASSUME NEW t \in Tids, Sampler!SwitchIn(t)
        PROVE  SamplesInv' /\ Sampler!Advances
    <2>1. PICK c \in Cpus : /\ cpu' = [cpu EXCEPT ![t] = c]
                            /\ Sampler!Record(t, "switch_event", Sampler!Switch(t, FALSE, c))
      BY <1>6 DEF Sampler!SwitchIn
    <2> DEFINE x == Sampler!Switch(t, FALSE, c)
    <2>2. x \in RecordSet /\ x.kind = "switch" /\ x.id = sampled[t]
      BY <1>2
    <2>3. Sampler!Record(t, "switch_event", x)
      BY <2>1
    <2>4. UNCHANGED <<now, start, born, sampled, context, calm, phase, todo, stat, alive, guard>>
      BY <1>6 DEF Sampler!SwitchIn, Sampler!loopVars
    <2>5. KernelGood' /\ start[t] # 0
      BY <1>6, <2>1, <2>4 DEF Sampler!SwitchIn, SamplesInv, KernelGood
    <2> HIDE DEF x
    <2> QED
      BY <1>0, <2>2, <2>3, <2>4, <2>5
  <1>7. ASSUME NEW t \in Tids, Sampler!Throttle(t)
        PROVE  SamplesInv' /\ Sampler!Advances
    <2>1. KernelGood' /\ start[t] # 0
      BY <1>7 DEF Sampler!Throttle, Sampler!Running, SamplesInv, KernelGood
    <2> DEFINE x == [kind |-> "throttle"]
    <2>2. x \in RecordSet /\ x.kind = "throttle"
      BY DEF RecordSet
    <2>3. Sampler!Record(t, "switch_event", x)
      BY <1>7 DEF Sampler!Throttle
    <2>4. UNCHANGED <<start, born, context, calm, phase, todo, stat, alive, guard, sampled>>
      BY <1>7 DEF Sampler!Throttle, Sampler!loopVars
    <2> HIDE DEF x
    <2> QED
      BY <1>0, <2>1, <2>2, <2>3, <2>4
  <1>8. ASSUME NEW S, Sampler!Dies(S) PROVE SamplesInv' /\ Sampler!Advances
    <2>1. KernelGood'
      BY <1>8 DEF Sampler!Dies, SamplesInv, KernelGood
    <2>2. UNCHANGED <<born, context, threads, phase, todo, stat, alive, guard>> /\ calm' = FALSE
      BY <1>8 DEF Sampler!Dies, Sampler!samplerVars, Sampler!loopVars
    <2>3. LoopGood'
      BY <2>2 DEF LoopGood, SamplesInv
    <2>4. ASSUME NEW u \in Tids PROVE ThreadGood(u)' /\ ShownKept(u)
      <3>1. start'[u] = 0 \/ (start'[u] = start[u] /\ sampled'[u] = sampled[u])
        BY <1>8 DEF Sampler!Dies
      <3> QED
        BY <2>2, <3>1 DEF SamplesInv, ThreadGood, SwitchOpen, EpochGood, ShownKept
    <2> QED
      BY <2>1, <2>2, <2>3, <2>4, KeptAdvances DEF SamplesInv
  <1>9. ASSUME NEW t \in Tids, Sampler!ThreadStarts(t) PROVE SamplesInv' /\ Sampler!Advances
    <2>1. /\ born' = [born EXCEPT ![t] = @ + 1] /\ start' = [start EXCEPT ![t] = born'[t]]
          /\ calm' = FALSE /\ \E c \in Cpus : cpu' = [cpu EXCEPT ![t] = c]
          /\ UNCHANGED <<now, sampled, context, threads, phase, todo, stat, alive, guard>>
      BY <1>9 DEF Sampler!ThreadStarts, Sampler!samplerVars, Sampler!loopVars
    <2>2. KernelGood'
      BY <2>1 DEF SamplesInv, KernelGood
    <2>3. \A u \in Tids : born[u] \in Nat /\ born'[u] \in Nat /\ born[u] <= born'[u]
      BY <2>1 DEF SamplesInv, KernelGood
    <2>4. LoopGood'
      <3>1. ASSUME phase \in Capturing \ {"capture"}, guard.result # None
            PROVE  SampleGood(guard.result, threads[guard.tid].start, born'[guard.tid])
        <4>1. /\ guard.tid \in Tids /\ threads[guard.tid] # None
              /\ SampleGood(guard.result, threads[guard.tid].start, born[guard.tid])
          BY <3>1 DEF SamplesInv, LoopGood
        <4>2. threads[guard.tid].start \in Nat
          BY <4>1 DEF SamplesInv, EntrySet
        <4> QED
          BY <2>3, <4>1, <4>2, Wider
      <3>2. phase = "drain" => stat \in 1..born'[Sampler!Least(todo)]
        BY <2>3 DEF SamplesInv, LoopGood
      <3> QED
        BY <2>1, <3>1, <3>2 DEF LoopGood, SamplesInv
    <2>5. ASSUME NEW u \in Tids PROVE ThreadGood(u)' /\ ShownKept(u)
      <3> SUFFICES ASSUME threads[u] # None PROVE ThreadGood(u)'
        BY <2>1 DEF ThreadGood, ShownKept
      <3>1. EntryGood(threads[u], born'[u])
        BY <2>3, Wider DEF SamplesInv, ThreadGood
      <3>2. threads[u].switch_event # None => SwitchOpen(threads[u].switch_event, u)'
        <4>1. CASE u # t
          BY <2>1, <4>1 DEF SamplesInv, KernelGood, ThreadGood, SwitchOpen
        <4>2. CASE u = t
          <5>1. start'[u] = born[u] + 1
            BY <2>1, <4>2 DEF SamplesInv, KernelGood
          <5>2. ASSUME threads[u].switch_event # None
                PROVE  threads[u].switch_event.of # start'[u]
            <6> DEFINE r == threads[u].switch_event
            <6>1. EntryGood(threads[u], born[u])
              BY DEF SamplesInv, ThreadGood
            <6>2. ReaderGood(r, threads[u].start, born[u])
              BY <5>2, <6>1 DEF EntryGood
            <6>3. r.of = 0 \/ r.of \in threads[u].start..born[u]
              BY <6>2 DEF ReaderGood
            <6>4. threads[u].start \in Nat
              BY <6>1 DEF EntryGood
            <6> HIDE DEF r
            <6>5. r.of # start'[u]
              BY <2>3, <5>1, <6>3, <6>4
            <6> QED
              BY <6>5 DEF r
          <5> QED
            BY <2>1, <5>2 DEF SwitchOpen
        <4> QED
          BY <4>1, <4>2
      <3> QED
        BY <2>1, <3>1, <3>2 DEF SamplesInv, ThreadGood, EpochGood
    <2> QED
      BY <2>1, <2>2, <2>4, <2>5, KeptAdvances DEF SamplesInv
  <1>10. ASSUME NEW t \in Tids, Sampler!SendSignal(t) \/ Sampler!HandleSignal(t)
         PROVE  SamplesInv' /\ Sampler!Advances
    BY <1>10, SamplesStay DEF Sampler!SendSignal, Sampler!HandleSignal, Sampler!samplerVars,
                              Sampler!loopVars
  <1>11. CASE Sampler!TenSecondsPass
    BY <1>11, SamplesStay DEF Sampler!TenSecondsPass, Sampler!kernelVars
  <1>12. ASSUME NEW t \in Tids, Sampler!ThreadExits(t) PROVE SamplesInv' /\ Sampler!Advances
    BY <1>8, <1>12 DEF Sampler!ThreadExits
  <1>13. CASE Sampler!ProcessExits
    BY <1>8, <1>13 DEF Sampler!ProcessExits
  <1> QED
    BY <1>3, <1>4, <1>5, <1>6, <1>7, <1>9, <1>10, <1>11, <1>12, <1>13 DEF Sampler!Kernel

\* The losses of the readers, added up.
AddLost(sum, e, drained) == drained[e].reader.lost + sum
Losses == INSTANCE FoldProofs WITH Op <- AddLost

LEMMA LostSum ==
  ASSUME NEW R \in SUBSET {"event", "switch_event"}, NEW d, \A x \in R : d[x].reader.lost \in Nat
  PROVE  Losses!FoldOver(0, R, d) =
           (IF "event" \in R THEN d["event"].reader.lost ELSE 0)
           + (IF "switch_event" \in R THEN d["switch_event"].reader.lost ELSE 0)
  <1>1. ASSUME NEW Q \in SUBSET R
        PROVE  /\ Losses!FoldOver(0, Q, d) \in Nat
               /\ Q = {} => Losses!FoldOver(0, Q, d) = 0
               /\ \A x \in Q : Losses!FoldOver(0, Q, d) =
                              d[x].reader.lost + Losses!FoldOver(0, Q \ {x}, d)
    <2>1. IsFiniteSet(Q)
      <3>1. IsFiniteSet({"event", "switch_event"})
        <4>1. {"event", "switch_event"} = {"event"} \cup {"switch_event"}
          OBVIOUS
        <4>2. IsFiniteSet({"event"} \cup {"switch_event"})
          BY FS_Union, FS_Singleton
        <4> QED
          BY <4>1, <4>2, Zenon
      <3> QED
        BY <3>1, FS_Subset
    <2>2. \A x \in Q : d[x].reader.lost \in Nat
      OBVIOUS
    <2>3. Losses!Commutes(Q, Nat, d)
      <3>1. \A v \in Nat, x \in Q : AddLost(v, x, d) = d[x].reader.lost + v /\ AddLost(v, x, d) \in Nat
        BY <2>2 DEF AddLost
      <3>2. ASSUME NEW v \in Nat, NEW x \in Q, NEW y \in Q
            PROVE  AddLost(AddLost(v, x, d), y, d) = AddLost(AddLost(v, y, d), x, d)
        <4> DEFINE a == d[x].reader.lost
                   b == d[y].reader.lost
        <4>1. a \in Nat /\ b \in Nat
          BY <2>2
        <4>2. /\ AddLost(AddLost(v, x, d), y, d) = b + (a + v)
              /\ AddLost(AddLost(v, y, d), x, d) = a + (b + v)
          BY DEF AddLost
        <4> HIDE DEF a, b
        <4> QED
          BY <4>1, <4>2
      <3> QED
        BY <3>1, <3>2 DEF Losses!Commutes
    <2>4. /\ Losses!FoldOver(0, Q, d) \in Nat
          /\ Q = {} => Losses!FoldOver(0, Q, d) = 0
          /\ \A x \in Q : Losses!FoldOver(0, Q, d) = AddLost(Losses!FoldOver(0, Q \ {x}, d), x, d)
      <3>1. Losses!IsFiniteSet(Q)
        BY <2>1, Zenon DEF IsFiniteSet, Losses!IsFiniteSet
      <3>2. Losses!FoldOver(0, Q, d) \in Nat
        BY <3>1, <2>3, Losses!SetLoop
      <3>3. Q = {} => Losses!FoldOver(0, Q, d) = 0
        BY <3>1, <2>3, Losses!SetLoop
      <3>4. \A x \in Q : Losses!FoldOver(0, Q, d) = AddLost(Losses!FoldOver(0, Q \ {x}, d), x, d)
        BY <3>1, <2>3, Losses!SetLoop
      <3> QED
        BY <3>2, <3>3, <3>4
    <2> QED
      BY <2>4 DEF AddLost
  <1>2. CASE R = {}
    BY <1>1, <1>2
  <1>3. ASSUME NEW x \in R, R = {x} PROVE Losses!FoldOver(0, R, d) = d[x].reader.lost
    <2>1. R \ {x} = {} /\ {} \in SUBSET R /\ R \in SUBSET R
      BY <1>3
    <2>2. Losses!FoldOver(0, R, d) = d[x].reader.lost + Losses!FoldOver(0, {}, d)
      BY <1>1, <2>1
    <2>3. Losses!FoldOver(0, {}, d) = 0
      BY <1>1, <2>1
    <2> QED
      BY <2>2, <2>3
  <1>4. CASE R = {"event", "switch_event"}
    <2>1. R \ {"event"} = {"switch_event"} /\ {"switch_event"} \ {"switch_event"} = {}
          /\ {} \in SUBSET R /\ R \in SUBSET R /\ {"switch_event"} \in SUBSET R
      BY <1>4
    <2>2. Losses!FoldOver(0, R, d) = d["event"].reader.lost + Losses!FoldOver(0, {"switch_event"}, d)
      BY <1>1, <1>4, <2>1
    <2>3. Losses!FoldOver(0, {"switch_event"}, d)
            = d["switch_event"].reader.lost + Losses!FoldOver(0, {}, d)
      BY <1>1, <2>1
    <2>4. Losses!FoldOver(0, {}, d) = 0
      BY <1>1, <2>1
    <2> QED
      BY <1>4, <2>2, <2>3, <2>4
  <1>5. CASE R = {"event"}
    <2>1. "switch_event" \notin R /\ "event" \in R
      BY <1>5
    <2>2. Losses!FoldOver(0, R, d) = d["event"].reader.lost /\ d["event"].reader.lost \in Nat
      BY <1>3, <1>5, <2>1
    <2> QED
      BY <2>1, <2>2
  <1>6. CASE R = {"switch_event"}
    <2>1. "event" \notin R /\ "switch_event" \in R
      BY <1>6
    <2>2. /\ Losses!FoldOver(0, R, d) = d["switch_event"].reader.lost
          /\ d["switch_event"].reader.lost \in Nat
      BY <1>3, <1>6, <2>1
    <2> QED
      BY <2>1, <2>2
  <1>7. R = {} \/ R = {"event"} \/ R = {"switch_event"} \/ R = {"event", "switch_event"}
    OBVIOUS
  <1> QED
    BY <1>2, <1>4, <1>5, <1>6, <1>7, Zenon

\* A good sample is taken when it is newer, with the maps of now.
LEMMA ProcessedGood ==
  ASSUME NoneApart, NEW g, NEW to \in Nat, EntryGood(g, to), EpochGood(g),
         context \in [epoch : Nat, maps : Layouts \cup {None}],
         NEW s, SampleGood(s, g.start, to)
  PROVE  LET p == Sampler!Processed(g, s)
         IN /\ EntryGood(p, to) /\ EpochGood(p) /\ p.switch_event = g.switch_event
            /\ p.start = g.start /\ p.lost = g.lost
            /\ g.latest # None => p.latest # None /\ p.latest.time >= g.latest.time
  <1> DEFINE p == Sampler!Processed(g, s)
  <1>1. g \in EntrySet /\ s \in SampleSet /\ s # None /\ s.time \in Nat
        /\ (g.latest # None => g.latest.time \in Nat)
    BY DEF EntryGood, EntrySet, SampleGood, SampleSet, NoneApart
  <1>2. CASE ~Sampler!Newer(g, s)
    <2>1. p = g
      BY <1>2 DEF Sampler!Processed
    <2> QED
      BY <1>1, <2>1
  <1>3. CASE Sampler!Newer(g, s)
    <2>1. p = [g EXCEPT !.latest = s, !.epoch = context.epoch, !.maps = context.maps]
      BY <1>3 DEF Sampler!Processed
    <2> HIDE DEF p
    <2>2. /\ p \in EntrySet /\ p.start = g.start /\ p.lost = g.lost /\ p.event = g.event
          /\ p.switch_event = g.switch_event /\ p.latest = s /\ p.epoch = context.epoch
          /\ p.maps = context.maps
      BY <1>1, <2>1 DEF EntrySet
    <2>3. EntryGood(p, to)
      BY <1>1, <2>2 DEF EntryGood
    <2>4. EpochGood(p)
      BY <2>2 DEF EpochGood
    <2>5. g.latest # None => p.latest.time >= g.latest.time
      BY <1>1, <1>3, <2>2 DEF Sampler!Newer
    <2> QED
      BY <1>1, <2>2, <2>3, <2>4, <2>5 DEF p
  <1> QED
    BY <1>2, <1>3

\* Polling an entry drains both rings: the entry stays good and shows no older
\* sample, and no fewer losses, than before.
LEMMA EntryDrained ==
  ASSUME NoneApart, NEW e, NEW to \in Nat, EntryGood(e, to), EpochGood(e), NEW t,
         context \in [epoch : Nat, maps : Layouts \cup {None}],
         e.switch_event # None => SwitchOpen(e.switch_event, t)
  PROVE  LET f == Sampler!DrainedEntry(e)
         IN /\ EntryGood(f, to) /\ EpochGood(f)
            /\ f.switch_event # None => SwitchOpen(f.switch_event, t)
            /\ f.start = e.start /\ f.lost >= e.lost
            /\ e.latest # None => f.latest # None /\ f.latest.time >= e.latest.time
  <1> DEFINE readers == {v \in {"event", "switch_event"} : e[v] # None}
             drained == [v \in readers |-> Sampler!Drained(e[v], v = "switch_event")]
             samples == {drained[v].sample : v \in readers} \ {None}
             ring1 == IF "event" \in readers THEN drained["event"].reader ELSE None
             ring2 == IF "switch_event" \in readers THEN drained["switch_event"].reader ELSE None
             gap == IF readers = {} THEN 0 ELSE Losses!FoldOver(0, readers, drained)
             text == IF \E v \in readers : drained[v].failed THEN {"perf"} ELSE e.setup \cup e.ptrace
             g == [e EXCEPT !.event = ring1, !.switch_event = ring2, !.lost = gap, !.error = text]
             f == Sampler!DrainedEntry(e)
  <1>1. f = IF samples = {} THEN g ELSE Sampler!Processed(g, Sampler!Best(samples))
    BY Zenon DEF Sampler!DrainedEntry, Sampler!FoldSet, Sampler!MapThenFoldSet,
                 Losses!FoldOver, Losses!FoldSet, Losses!MapThenFoldSet, AddLost
  <1> DEFINE a == Sampler!Drained(e.event, FALSE)
             b == Sampler!Drained(e.switch_event, TRUE)
  <1>2. /\ e \in EntrySet /\ e.start \in 1..to /\ e.start \in Nat
        /\ e.event \in ReaderSet \cup {None} /\ e.switch_event \in ReaderSet \cup {None}
    BY DEF EntryGood, EntrySet
  <1>3. /\ "event" \in readers <=> e.event # None
        /\ "switch_event" \in readers <=> e.switch_event # None
        /\ readers \subseteq {"event", "switch_event"}
    OBVIOUS
  <1>4. "event" \in readers => drained["event"] = a
    <2>1. ("event" = "switch_event") = FALSE
      OBVIOUS
    <2>2. "event" \in readers => drained["event"] = Sampler!Drained(e["event"], "event" = "switch_event")
      BY Zenon
    <2>3. Sampler!Drained(e["event"], "event" = "switch_event") = a
      BY <2>1, Zenon
    <2> QED
      BY <2>2, <2>3
  <1>5. "switch_event" \in readers => drained["switch_event"] = b
    <2>1. ("switch_event" = "switch_event") = TRUE
      OBVIOUS
    <2>2. "switch_event" \in readers =>
            drained["switch_event"] = Sampler!Drained(e["switch_event"], "switch_event" = "switch_event")
      BY Zenon
    <2>3. Sampler!Drained(e["switch_event"], "switch_event" = "switch_event") = b
      BY <2>1, Zenon
    <2> QED
      BY <2>2, <2>3
  <1> DEFINE Good(d, r) ==
               /\ ReaderGood(d.reader, e.start, to)
               /\ d.reader.lost >= r.lost /\ d.reader.of = r.of /\ d.reader.dropped = r.dropped
               /\ d.reader.ring = << >>
               /\ d.reader.pending # None => d.reader.pending = OpenSample(r)
               /\ d.sample # None => SampleGood(d.sample, e.start, to)
               /\ d.reader \in ReaderSet /\ r.lost \in Nat /\ d.reader.lost \in Nat
  <1>6. e.event # None => Good(a, e.event) /\ a.reader.pending = None
    <2> SUFFICES ASSUME e.event # None PROVE Good(a, e.event) /\ a.reader.pending = None
      OBVIOUS
    <2>1. ReaderGood(e.event, e.start, to) /\ e.event.pending = None /\ e.event \in ReaderSet
      BY DEF EntryGood, ReaderGood
    <2>2. e.event.lost \in Nat
      BY <2>1 DEF ReaderSet
    <2>3. /\ ReaderGood(a.reader, e.start, to)
          /\ a.reader.lost >= e.event.lost /\ a.reader.of = e.event.of
          /\ a.reader.dropped = e.event.dropped
          /\ a.reader.ring = << >>
          /\ a.reader.pending # None => a.reader.pending = OpenSample(e.event)
          /\ a.reader.pending = None
          /\ a.sample # None => SampleGood(a.sample, e.start, to)
      BY <1>2, <2>1, DrainedGood
    <2>4. a.reader \in ReaderSet /\ a.reader.lost \in Nat
      BY <2>3 DEF ReaderGood, ReaderSet
    <2> QED
      BY <2>2, <2>3, <2>4
  <1>7. e.switch_event # None => Good(b, e.switch_event)
    <2> SUFFICES ASSUME e.switch_event # None PROVE Good(b, e.switch_event)
      OBVIOUS
    <2>1. ReaderGood(e.switch_event, e.start, to) /\ e.switch_event \in ReaderSet
      BY DEF EntryGood, ReaderGood
    <2>2. e.switch_event.lost \in Nat
      BY <2>1 DEF ReaderSet
    <2>3. /\ ReaderGood(b.reader, e.start, to)
          /\ b.reader.lost >= e.switch_event.lost /\ b.reader.of = e.switch_event.of
          /\ b.reader.dropped = e.switch_event.dropped
          /\ b.reader.ring = << >>
          /\ b.reader.pending # None => b.reader.pending = OpenSample(e.switch_event)
          /\ b.sample # None => SampleGood(b.sample, e.start, to)
      BY <1>2, <2>1, DrainedGood
    <2>4. b.reader \in ReaderSet /\ b.reader.lost \in Nat
      BY <2>3 DEF ReaderGood, ReaderSet
    <2> QED
      BY <2>2, <2>3, <2>4
  <1> DEFINE lost1 == IF e.event # None THEN a.reader.lost ELSE 0
             lost2 == IF e.switch_event # None THEN b.reader.lost ELSE 0
  <1>8. /\ gap = lost1 + lost2 /\ lost1 \in Nat /\ lost2 \in Nat
        /\ lost1 + lost2 >= e.lost
    <2>1. \A v \in readers : drained[v].reader.lost \in Nat
      BY <1>3, <1>4, <1>5, <1>6, <1>7
    <2> HIDE DEF readers, drained, a, b, Good
    <2>2. Losses!FoldOver(0, readers, drained) =
            (IF "event" \in readers THEN drained["event"].reader.lost ELSE 0)
            + (IF "switch_event" \in readers THEN drained["switch_event"].reader.lost ELSE 0)
      BY <1>3, <2>1, LostSum
    <2>3. lost1 \in Nat /\ lost2 \in Nat
      BY <1>6, <1>7 DEF Good
    <2>4. Losses!FoldOver(0, readers, drained) = lost1 + lost2
      BY <1>3, <1>4, <1>5, <2>2
    <2>5. readers = {} => lost1 = 0 /\ lost2 = 0
      BY <1>3
    <2>6. lost1 >= LostBy(e.event) /\ lost2 >= LostBy(e.switch_event)
          /\ LostBy(e.event) \in Nat /\ LostBy(e.switch_event) \in Nat
      BY <1>6, <1>7 DEF Good, LostBy
    <2>7. e.lost = LostBy(e.event) + LostBy(e.switch_event)
      BY DEF EntryGood
    <2> QED
      BY <2>3, <2>4, <2>5, <2>6, <2>7
  <1>9. /\ ring1 = IF e.event # None THEN a.reader ELSE None
        /\ ring2 = IF e.switch_event # None THEN b.reader ELSE None
    BY <1>3, <1>4, <1>5
  <1>10. text \in SUBSET {"perf", "setup", "ptrace"}
    BY <1>2 DEF EntrySet
  <1>11. \A s \in samples : SampleGood(s, e.start, to)
    <2>1. \A s \in samples : (e.event # None /\ s = a.sample) \/ (e.switch_event # None /\ s = b.sample)
      BY <1>3, <1>4, <1>5, ZenonT(60)
    <2>2. \A s \in samples : s # None
      OBVIOUS
    <2> HIDE DEF samples, a, b
    <2> QED
      BY <1>6, <1>7, <2>1, <2>2
  <1>12. samples # {} => Sampler!Best(samples) \in samples
    <2>1. \A s \in samples : (e.event # None /\ s = a.sample) \/ (e.switch_event # None /\ s = b.sample)
      BY <1>3, <1>4, <1>5, ZenonT(60)
    <2>2. \A s \in samples : s.time \in Nat
      BY <1>11 DEF SampleGood, SampleSet
    <2> HIDE DEF samples, a, b
    <2>3. ASSUME samples # {}
          PROVE  \E s \in samples : \A o \in samples : o.time <= s.time
      <3>1. PICK s \in samples : TRUE
        BY <2>3
      <3>2. CASE samples = {s}
        <4>1. \A o \in samples : o.time <= s.time
          BY <2>2, <3>2
        <4> QED
          BY <4>1
      <3>3. CASE samples # {s}
        <4>1. PICK z \in samples : z # s
          BY <3>3
        <4>2. \A o \in samples : o = s \/ o = z
          BY <2>1, <4>1
        <4>3. s.time \in Nat /\ z.time \in Nat
          BY <2>2
        <4>4. (\A o \in samples : o.time <= s.time) \/ (\A o \in samples : o.time <= z.time)
          BY <4>2, <4>3
        <4> QED
          BY <4>4
      <3> QED
        BY <3>2, <3>3
    <2> QED
      BY <2>3, Zenon DEF Sampler!Best
  <1> DEFINE Wanted(x) ==
               /\ EntryGood(x, to) /\ EpochGood(x)
               /\ x.switch_event # None => SwitchOpen(x.switch_event, t)
               /\ x.start = e.start /\ x.lost >= e.lost
               /\ e.latest # None => x.latest # None /\ x.latest.time >= e.latest.time
  <1> SUFFICES Wanted(f)
    OBVIOUS
  <1> HIDE DEF readers, drained, samples, gap, text, a, b, ring1, ring2, f, g
  <1>13. /\ ring1 \in ReaderSet \cup {None} /\ ring2 \in ReaderSet \cup {None}
         /\ ring1 # None <=> e.event # None
         /\ ring2 # None <=> e.switch_event # None
    BY <1>6, <1>7, <1>9 DEF NoneApart
  <1>14. /\ g \in EntrySet /\ g.start = e.start /\ g.event = ring1 /\ g.switch_event = ring2
         /\ g.lost = gap /\ g.latest = e.latest /\ g.epoch = e.epoch /\ g.maps = e.maps
    <2>1. gap \in Nat
      BY <1>8
    <2> QED
      BY <1>2, <1>10, <1>13, <2>1 DEF EntrySet, g
  <1>15. Wanted(g)
    <2>1. gap = LostBy(ring1) + LostBy(ring2)
      BY <1>8, <1>9, <1>13 DEF LostBy
    <2>2. ring1 # None => ReaderGood(ring1, e.start, to) /\ ring1.pending = None
      BY <1>6, <1>9
    <2>3. ring2 # None => ReaderGood(ring2, e.start, to)
      BY <1>7, <1>9
    <2>4. EntryGood(g, to)
      BY <1>2, <1>14, <2>1, <2>2, <2>3 DEF EntryGood
    <2>5. ring2 # None => SwitchOpen(ring2, t)
      <3> SUFFICES ASSUME ring2 # None PROVE SwitchOpen(ring2, t)
        OBVIOUS
      <3>1. /\ ring2.of = e.switch_event.of /\ ring2.dropped = e.switch_event.dropped
            /\ ring2.ring = << >>
            /\ ring2.pending # None => ring2.pending = OpenSample(e.switch_event)
        BY <1>7, <1>9
      <3>2. OpenSample(ring2) = ring2.pending
        BY <3>1 DEF OpenSample
      <3>3. SwitchOpen(e.switch_event, t)
        BY <1>13
      <3> QED
        BY <3>1, <3>2, <3>3 DEF SwitchOpen
    <2>6. EpochGood(g)
      BY <1>14 DEF EpochGood
    <2>7. e.latest # None => e.latest.time \in Nat
      BY <1>2 DEF EntrySet, SampleSet
    <2> QED
      BY <1>8, <1>14, <2>4, <2>5, <2>6, <2>7
  <1>16. CASE samples = {}
    BY <1>1, <1>15, <1>16
  <1>17. CASE samples # {}
    <2>1. SampleGood(Sampler!Best(samples), g.start, to)
      BY <1>11, <1>12, <1>14, <1>17
    <2>2. f = Sampler!Processed(g, Sampler!Best(samples))
      BY <1>1, <1>17
    <2> DEFINE s == Sampler!Best(samples)
    <2> HIDE DEF s
    <2>3. Wanted(Sampler!Processed(g, s))
      <3>1. /\ EntryGood(Sampler!Processed(g, s), to) /\ EpochGood(Sampler!Processed(g, s))
            /\ Sampler!Processed(g, s).switch_event = g.switch_event
            /\ Sampler!Processed(g, s).start = g.start /\ Sampler!Processed(g, s).lost = g.lost
            /\ g.latest # None => /\ Sampler!Processed(g, s).latest # None
                                  /\ Sampler!Processed(g, s).latest.time >= g.latest.time
        BY <1>15, <2>1, ProcessedGood DEF s
      <3> QED
        BY <1>14, <1>15, <3>1
    <2> QED
      BY <2>2, <2>3 DEF s
  <1> QED
    BY <1>16, <1>17

\* The tids have an order, and every set of them a least one.
LEMMA LeastIn ==
  ASSUME Tids \subseteq Nat, NEW S \in SUBSET Tids, S # {}
  PROVE  Sampler!Least(S) \in S
  <1> DEFINE Less == OpToRel(<, Nat)
  <1>1. IsWellFoundedOn(Less, Nat)
    BY NatLessThanWellFounded
  <1>2. PICK x \in S : \A y \in S : ~ (<<y, x>> \in Less)
    <2>1. S \subseteq Nat
      OBVIOUS
    <2> HIDE DEF Less
    <2> QED
      BY <1>1, <2>1, WFMin
  <1>3. \A y \in S : ~(y < x)
    BY <1>2 DEF OpToRel
  <1>4. \A y \in S : x <= y
    BY <1>3
  <1> QED
    BY <1>4, Zenon DEF Sampler!Least

\* A poll: a tid that changed its owner gets a new entry, and an entry that is kept
\* takes only what its own rings hold.
LEMMA PollSamples ==
  ASSUME NoneApart, Tids \subseteq Nat, SamplesInv, Sampler!Poll
  PROVE  SamplesInv' /\ Sampler!Advances
  <1> USE DEF Capturing
  <1>1. CASE Sampler!PollFails
    <2>1. /\ phase' = "ended"
          /\ UNCHANGED <<now, start, born, cpu, sampled, calm, threads, context, todo, stat, alive,
                         guard>>
      BY <1>1 DEF Sampler!PollFails, Sampler!kernelVars
    <2>2. \A u \in Tids : ThreadGood(u)' /\ ShownKept(u)
      BY <2>1 DEF SamplesInv, ThreadGood, SwitchOpen, EpochGood, ShownKept
    <2>3. LoopGood' /\ KernelGood'
      BY <2>1 DEF SamplesInv, LoopGood, KernelGood
    <2> QED
      BY <2>1, <2>2, <2>3, KeptAdvances DEF SamplesInv
  <1>2. ASSUME NEW maps \in Layouts, Sampler!PollBegins(maps)
        PROVE  SamplesInv' /\ Sampler!Advances
    <2>1. /\ context' = Sampler!Remapped(maps) /\ phase' = "threads" /\ todo' = Sampler!Live
          /\ alive' = {} /\ calm' = TRUE
          /\ UNCHANGED <<now, start, born, cpu, sampled, threads, stat, guard>>
      BY <1>2 DEF Sampler!PollBegins
    <2>2. /\ context' \in [epoch : Nat, maps : Layouts \cup {None}]
          /\ context' = context \/ context'.epoch > context.epoch
      BY <2>1 DEF SamplesInv, Sampler!Remapped
    <2>3. ASSUME NEW u \in Tids PROVE ThreadGood(u)' /\ ShownKept(u)
      <3>1. ASSUME threads[u] # None PROVE EpochGood(threads[u])'
        <4>1. EpochGood(threads[u]) /\ threads[u].epoch \in Nat
          BY <3>1 DEF SamplesInv, ThreadGood, EntrySet
        <4> QED
          BY <2>1, <2>2, <4>1 DEF EpochGood, SamplesInv
      <3> QED
        BY <2>1, <3>1 DEF SamplesInv, ThreadGood, SwitchOpen, ShownKept
    <2>4. LoopGood' /\ KernelGood'
      BY <2>1 DEF SamplesInv, LoopGood, KernelGood, Sampler!Live
    <2> QED
      BY <2>1, <2>2, <2>3, <2>4, KeptAdvances DEF SamplesInv
  <1>3. ASSUME NEW t \in Tids, Sampler!ReadStat(t) PROVE SamplesInv' /\ Sampler!Advances
    <2>1. /\ phase = "threads" /\ todo # {} /\ t = Sampler!Least(todo)
          /\ UNCHANGED <<now, start, born, cpu, sampled, calm, threads, context, guard>>
      BY <1>3 DEF Sampler!ReadStat, Sampler!kernelVars
    <2>2. t \in todo /\ t \notin alive
      BY <2>1, LeastIn DEF SamplesInv, LoopGood
    <2>3. \A u \in Tids : ThreadGood(u)' /\ ShownKept(u)
      BY <2>1 DEF SamplesInv, ThreadGood, SwitchOpen, EpochGood, ShownKept
    <2>4. LoopGood'
      <3>1. CASE start[t] = 0
        <4>1. todo' = todo \ {t} /\ UNCHANGED <<phase, stat, alive>>
          BY <1>3, <3>1 DEF Sampler!ReadStat
        <4> QED
          BY <2>1, <2>2, <4>1 DEF SamplesInv, LoopGood
      <3>2. CASE start[t] # 0
        <4>1. /\ phase' = "drain" /\ stat' = start[t] /\ alive' = alive \cup {t}
              /\ UNCHANGED todo
          BY <1>3, <3>2 DEF Sampler!ReadStat
        <4>2. start[t] \in 1..born[t]
          BY <3>2 DEF SamplesInv, KernelGood
        <4> QED
          BY <2>1, <2>2, <4>1, <4>2 DEF SamplesInv, LoopGood
      <3> QED
        BY <3>1, <3>2
    <2> QED
      BY <2>1, <2>3, <2>4, KeptAdvances DEF SamplesInv, KernelGood
  <1>4. ASSUME NEW t \in Tids, Sampler!Drain(t) PROVE SamplesInv' /\ Sampler!Advances
    <2>1. /\ phase = "drain" /\ t = Sampler!Least(todo)
          /\ phase' = "threads" /\ todo' = todo \ {t}
          /\ UNCHANGED <<now, start, born, cpu, sampled, calm, context, alive, guard>>
      BY <1>4 DEF Sampler!Drain, Sampler!kernelVars
    <2>2. PICK e \in IF threads[t] = None \/ Sampler!Reused(t) THEN Sampler!Opening(t) ELSE {threads[t]} :
            threads' = [threads EXCEPT ![t] = Sampler!DrainedEntry(e)]
      BY <1>4 DEF Sampler!Drain
    <2>3. /\ stat \in 1..born[t] /\ (calm => stat = start[t]) /\ born[t] \in Nat
          /\ start[t] \in {0, born[t]} /\ t \in todo
      BY <2>1 DEF SamplesInv, LoopGood, KernelGood
    <2>4. /\ EntryGood(e, born[t]) /\ EpochGood(e) /\ e.start = stat
          /\ e.switch_event # None => SwitchOpen(e.switch_event, t)
      <3>1. CASE threads[t] = None \/ Sampler!Reused(t)
        <4>1. PICK x \in Sampler!Opened(start[t]), y \in Sampler!Opened(start[t]) :
                e = [start |-> stat, event |-> x, switch_event |-> y, lost |-> 0,
                     setup |-> IF x = None \/ y = None THEN {"setup"} ELSE {}, ptrace |-> {},
                     error |-> {}, latest |-> None, epoch |-> 0, maps |-> None]
          BY <2>2, <3>1 DEF Sampler!Opening
        <4> DEFINE r == [of |-> start[t], ring |-> << >>, dropped |-> 0, lost |-> 0, pending |-> None]
        <4>2. x \in {r, None} /\ y \in {r, None}
          BY DEF Sampler!Opened
        <4>3. /\ r \in ReaderSet /\ r.lost = 0 /\ r.pending = None /\ Len(r.ring) = 0
              /\ OpenSample(r) = None
          <5>1. << >> \in Seq(RecordSet)
            OBVIOUS
          <5> QED
            BY <2>3, <5>1 DEF ReaderSet, OpenSample
        <4>4. ReaderGood(r, stat, born[t]) /\ SwitchOpen(r, t)
          BY <2>3, <4>3 DEF ReaderGood, SwitchOpen
        <4> HIDE DEF r
        <4>5. e \in EntrySet /\ LostBy(x) = 0 /\ LostBy(y) = 0
          BY <2>3, <4>1, <4>2, <4>3 DEF EntrySet, LostBy
        <4>6. /\ e.start = stat /\ e.event = x /\ e.switch_event = y /\ e.latest = None
              /\ e.lost = 0
          BY <4>1
        <4> QED
          BY <2>3, <4>2, <4>3, <4>4, <4>5, <4>6 DEF EntryGood, EpochGood
      <3>2. CASE ~(threads[t] = None \/ Sampler!Reused(t))
        <4>1. e = threads[t] /\ threads[t] # None /\ threads[t].start = stat
          BY <2>2, <3>2 DEF Sampler!Reused
        <4> QED
          BY <4>1 DEF SamplesInv, ThreadGood
      <3> QED
        BY <3>1, <3>2
    <2> DEFINE f == Sampler!DrainedEntry(e)
    <2>5. /\ EntryGood(f, born[t]) /\ EpochGood(f)
          /\ f.switch_event # None => SwitchOpen(f.switch_event, t)
          /\ f.start = e.start /\ f.lost >= e.lost
          /\ e.latest # None => f.latest # None /\ f.latest.time >= e.latest.time
      BY <2>3, <2>4, EntryDrained DEF SamplesInv
    <2>6. threads' = [threads EXCEPT ![t] = f] /\ f \in EntrySet /\ threads'[t] = f
      BY <2>2, <2>5 DEF SamplesInv, EntryGood
    <2> HIDE DEF f
    <2>7. \A u \in Tids : u # t => threads'[u] = threads[u]
      BY <2>6 DEF SamplesInv
    <2>8. ASSUME NEW u \in Tids PROVE ThreadGood(u)'
      <3>1. CASE u = t
        BY <2>1, <2>5, <2>6, <3>1 DEF ThreadGood, SwitchOpen, EpochGood
      <3>2. CASE u # t
        BY <2>1, <2>7, <3>2 DEF SamplesInv, ThreadGood, SwitchOpen, EpochGood
      <3> QED
        BY <3>1, <3>2
    <2>9. LoopGood'
      <3>1. alive \cap todo = {t}
        BY <2>1 DEF SamplesInv, LoopGood
      <3>2. calm => \A u \in alive \ todo' : threads'[u] # None => threads'[u].start = start[u]
        BY <2>1, <2>3, <2>4, <2>5, <2>6, <2>7, <3>1 DEF SamplesInv, LoopGood
      <3> QED
        BY <2>1, <3>1, <3>2 DEF SamplesInv, LoopGood
    <2>10. Sampler!Advances
      <3>1. ASSUME threads[t] # None, f.start = threads[t].start PROVE e = threads[t]
        BY <2>2, <2>4, <2>5, <3>1 DEF Sampler!Reused
      <3>2. ASSUME NEW u \in Tids, u # t, threads[u] # None
            PROVE  threads[u].lost \in Nat /\ (threads[u].latest # None => threads[u].latest.time \in Nat)
        BY <3>2 DEF SamplesInv, EntrySet, SampleSet
      <3> QED
        BY <2>5, <2>6, <2>7, <3>1, <3>2 DEF Sampler!Advances
    <2>11. threads' \in [Tids -> EntrySet \cup {None}]
      BY <2>6 DEF SamplesInv
    <2> QED
      BY <2>1, <2>8, <2>9, <2>10, <2>11 DEF SamplesInv, KernelGood
  <1>5. CASE Sampler!PollEnds
    <2>1. /\ phase = "threads" /\ todo = {}
          /\ threads' = [t \in Tids |-> IF t \in alive THEN threads[t] ELSE None]
          /\ UNCHANGED <<now, start, born, cpu, sampled, calm, context, stat, alive, guard>>
          /\ \/ phase' = "capture" /\ todo' = {t \in alive : threads[t] # None}
             \/ phase' \in {"ended", "idle"} /\ UNCHANGED todo
      BY <1>5 DEF Sampler!PollEnds, Sampler!kernelVars
    <2>2. \A u \in Tids : threads'[u] = None \/ (threads'[u] = threads[u] /\ u \in alive)
      BY <2>1
    <2>3. ASSUME NEW u \in Tids PROVE ThreadGood(u)'
      BY <2>1, <2>2 DEF SamplesInv, ThreadGood, SwitchOpen, EpochGood
    <2>4. LoopGood'
      BY <2>1, <2>2 DEF SamplesInv, LoopGood
    <2>5. Sampler!Advances
      <3>1. ASSUME NEW u \in Tids, threads[u] # None
            PROVE  threads[u].lost \in Nat /\ (threads[u].latest # None => threads[u].latest.time \in Nat)
        BY <3>1 DEF SamplesInv, EntrySet, SampleSet
      <3> QED
        BY <2>2, <3>1 DEF Sampler!Advances
    <2>6. threads' \in [Tids -> EntrySet \cup {None}]
      BY <2>1 DEF SamplesInv
    <2> QED
      BY <2>1, <2>3, <2>4, <2>5, <2>6 DEF SamplesInv, KernelGood
  <1> QED
    BY <1>1, <1>2, <1>3, <1>4, <1>5 DEF Sampler!Poll

\* A capture changes one entry, to a good one of the same thread.
LEMMA EntryChanged ==
  ASSUME NoneApart, SamplesInv, NEW t \in Tids, threads[t] # None, NEW f, EntryGood(f, born[t]),
         EpochGood(f), f.switch_event = threads[t].switch_event, f.start = threads[t].start,
         f.lost = threads[t].lost,
         threads[t].latest # None => f.latest # None /\ f.latest.time >= threads[t].latest.time,
         threads' = [threads EXCEPT ![t] = f], UNCHANGED <<start, born, sampled, context>>
  PROVE  /\ threads' \in [Tids -> EntrySet \cup {None}]
         /\ \A u \in Tids : ThreadGood(u)'
         /\ \A u \in Tids : /\ threads[u] = None <=> threads'[u] = None
                            /\ threads[u] # None => threads'[u].start = threads[u].start
         /\ Sampler!Advances
  <1>1. f \in EntrySet /\ f # None /\ threads'[t] = f /\ threads' \in [Tids -> EntrySet \cup {None}]
    BY DEF SamplesInv, EntryGood, NoneApart
  <1>2. \A u \in Tids : u # t => threads'[u] = threads[u]
    BY DEF SamplesInv
  <1>3. ASSUME NEW u \in Tids PROVE ThreadGood(u)'
    <2>1. CASE u = t
      BY <1>1, <2>1 DEF SamplesInv, ThreadGood, SwitchOpen, EpochGood
    <2>2. CASE u # t
      BY <1>2, <2>2 DEF SamplesInv, ThreadGood, SwitchOpen, EpochGood
    <2> QED
      BY <2>1, <2>2
  <1>4. ASSUME NEW u \in Tids, threads[u] # None
        PROVE  threads[u].lost \in Nat /\ (threads[u].latest # None => threads[u].latest.time \in Nat)
    BY <1>4 DEF SamplesInv, EntrySet, SampleSet
  <1>5. Sampler!Advances
    BY <1>1, <1>2, <1>4 DEF Sampler!Advances
  <1> QED
    BY <1>1, <1>2, <1>3, <1>5

LEMMA Relabelled ==
  ASSUME NoneApart, NEW e, NEW to \in Nat, EntryGood(e, to), EpochGood(e),
         NEW f \in {Sampler!Failed(e), Sampler!Cleared(e)}
  PROVE  /\ EntryGood(f, to) /\ EpochGood(f) /\ f.switch_event = e.switch_event
         /\ f.start = e.start /\ f.lost = e.lost
         /\ e.latest # None => f.latest # None /\ f.latest.time >= e.latest.time
  <1>1. /\ f \in EntrySet /\ f.start = e.start /\ f.lost = e.lost /\ f.event = e.event
        /\ f.switch_event = e.switch_event /\ f.latest = e.latest /\ f.epoch = e.epoch
        /\ f.maps = e.maps
    BY ZenonT(60) DEF EntryGood, EntrySet, Sampler!Failed, Sampler!Cleared
  <1>2. EntryGood(f, to) /\ EpochGood(f)
    BY <1>1 DEF EntryGood, EpochGood
  <1>3. e.latest # None => e.latest.time \in Nat
    BY DEF EntryGood, EntrySet, SampleSet
  <1> QED
    BY <1>1, <1>2, <1>3

\* The steps of a capture.
LEMMA CaptureSamples ==
  ASSUME NoneApart, Tids \subseteq Nat, TraceInv, SamplesInv, Sampler!Capture
  PROVE  SamplesInv' /\ Sampler!Advances
  <1> USE DEF Capturing
  <1>0. ASSUME UNCHANGED <<start, born, cpu, sampled, calm, threads, context, todo, stat, alive>>,
               now' \in Nat \ {0}, LoopGood'
        PROVE  SamplesInv' /\ Sampler!Advances
    <2>1. \A u \in Tids : ThreadGood(u)' /\ ShownKept(u)
      BY <1>0 DEF SamplesInv, ThreadGood, SwitchOpen, EpochGood, ShownKept
    <2> QED
      BY <1>0, <2>1, KeptAdvances DEF SamplesInv, KernelGood
  <1>1. ASSUME NEW t \in Tids, Sampler!Seize(t) PROVE SamplesInv' /\ Sampler!Advances
    <2>1. /\ phase = "capture" /\ todo # {} /\ t = Sampler!Least(todo)
          /\ UNCHANGED <<now, start, born, cpu, sampled, calm, context, stat, alive>>
      BY <1>1 DEF Sampler!Seize
    <2>2. t \in todo /\ threads[t] # None
      BY <2>1, LeastIn DEF SamplesInv, LoopGood
    <2>3. EntryGood(threads[t], born[t]) /\ EpochGood(threads[t]) /\ born[t] \in Nat
      BY <2>2 DEF SamplesInv, ThreadGood, KernelGood
    <2>4. PICK f :
            /\ f \in {Sampler!Failed(threads[t]), Sampler!Cleared(threads[t])}
            /\ threads' = [threads EXCEPT ![t] = f]
            /\ \/ guard' = [Sampler!NoGuard EXCEPT !.tid = t] /\ phase' = "interrupt" /\ UNCHANGED todo
               \/ todo' = todo \ {t} /\ UNCHANGED <<guard, phase>>
      <3>1. CASE /\ guard' = [Sampler!NoGuard EXCEPT !.tid = t]
                 /\ threads' = [threads EXCEPT ![t] = Sampler!Cleared(@)]
                 /\ phase' = "interrupt" /\ UNCHANGED todo
        BY <3>1
      <3>2. CASE /\ threads' = [threads EXCEPT ![t] = Sampler!Failed(@)]
                 /\ todo' = todo \ {t} /\ UNCHANGED <<guard, phase>>
        BY <3>2
      <3> QED
        BY <1>1, <3>1, <3>2 DEF Sampler!Seize
    <2>5. /\ threads' \in [Tids -> EntrySet \cup {None}]
          /\ \A u \in Tids : ThreadGood(u)'
          /\ \A u \in Tids : /\ threads[u] = None <=> threads'[u] = None
                             /\ threads[u] # None => threads'[u].start = threads[u].start
          /\ Sampler!Advances
      <3>1. /\ EntryGood(f, born[t]) /\ EpochGood(f) /\ f.switch_event = threads[t].switch_event
            /\ f.start = threads[t].start /\ f.lost = threads[t].lost
            /\ threads[t].latest # None => f.latest # None /\ f.latest.time >= threads[t].latest.time
        BY <2>3, <2>4, Relabelled
      <3> QED
        BY <2>1, <2>2, <2>4, <3>1, EntryChanged
    <2>8. \A u \in Tids : /\ threads[u] = None <=> threads'[u] = None
                          /\ threads[u] # None => threads'[u].start = threads[u].start
      BY <2>5, Zenon
    <2>6. LoopGood'
      <3>1. CASE guard' = [Sampler!NoGuard EXCEPT !.tid = t] /\ phase' = "interrupt" /\ UNCHANGED todo
        <4>1. guard'.tid = t /\ guard'.result = None
          BY <3>1 DEF Sampler!NoGuard
        <4>2. LoopGood
          BY DEF SamplesInv
        <4>3. \A u \in todo : threads'[u] # None
          BY <2>1, <2>8, <4>2 DEF LoopGood
        <4>4. calm => \A u \in Tids : threads'[u] # None => threads'[u].start = start[u]
          BY <2>1, <2>8, <4>2 DEF LoopGood
        <4>5. threads'[t] # None
          BY <2>2, <2>8, Zenon
        <4> QED
          BY <2>1, <3>1, <4>1, <4>2, <4>3, <4>4, <4>5 DEF LoopGood
      <3>2. CASE todo' = todo \ {t} /\ UNCHANGED <<guard, phase>>
        <4>1. LoopGood
          BY DEF SamplesInv
        <4>2. \A u \in todo' : threads'[u] # None
          BY <2>1, <2>8, <3>2, <4>1 DEF LoopGood
        <4>3. calm => \A u \in Tids : threads'[u] # None => threads'[u].start = start[u]
          BY <2>1, <2>8, <4>1 DEF LoopGood
        <4> QED
          BY <2>1, <3>2, <4>1, <4>2, <4>3 DEF LoopGood
      <3> QED
        BY <2>4, <3>1, <3>2
    <2>7. KernelGood' /\ context' \in [epoch : Nat, maps : Layouts \cup {None}]
      BY <2>1 DEF SamplesInv, KernelGood
    <2> QED
      BY <2>5, <2>6, <2>7 DEF SamplesInv
  <1>2. CASE Sampler!Interrupt
    <2>1. /\ phase = "interrupt" /\ phase' \in {"wait", "drop"}
          /\ UNCHANGED <<now, start, born, cpu, sampled, calm, threads, context, todo, stat, alive,
                         guard>>
      BY <1>2 DEF Sampler!Interrupt, Sampler!kernelVars
    <2>2. LoopGood'
      BY <2>1 DEF SamplesInv, LoopGood
    <2> QED
      BY <1>0, <2>1, <2>2 DEF SamplesInv, KernelGood
  <1>3. ASSUME phase \in {"wait", "drop"}, phase' \in {"read", "drop"},
               UNCHANGED <<now, start, born, cpu, sampled, calm, threads, context, todo, stat, alive>>,
               Sampler!Stopped(guard.tid) \/ UNCHANGED guard
        PROVE  SamplesInv' /\ Sampler!Advances
    <2>1. guard'.tid = guard.tid /\ guard'.result = guard.result
      BY <1>3 DEF Sampler!Stopped, TraceInv, Attached
    <2>2. LoopGood'
      BY <1>3, <2>1 DEF SamplesInv, LoopGood
    <2> QED
      BY <1>0, <1>3, <2>2 DEF SamplesInv, KernelGood
  <1>4. CASE Sampler!Wait
    BY <1>3, <1>4 DEF Sampler!Wait
  <1>5. CASE Sampler!DropRunning
    BY <1>3, <1>5 DEF Sampler!DropRunning
  <1>6. CASE Sampler!ReadRegisters
    <2> DEFINE t == guard.tid
    <2>1. /\ phase = "read" /\ phase' = "drop"
          /\ UNCHANGED <<start, born, cpu, sampled, calm, threads, context, todo, stat, alive>>
      BY <1>6 DEF Sampler!ReadRegisters
    <2>2. t \in Tids /\ threads[t] # None
      BY <2>1 DEF SamplesInv, LoopGood
    <2>3. now' \in Nat \ {0}
      BY <1>6 DEF Sampler!ReadRegisters, SamplesInv, KernelGood
    <2>4. /\ guard'.tid = t
          /\ guard'.result # None => SampleGood(guard'.result, threads[t].start, born[t])
      <3> DEFINE s == [time |-> now, cpu |-> None, of |-> start[t], source |-> "ptrace", by |-> 0]
      <3>1. CASE UNCHANGED guard
        BY <2>1, <3>1 DEF SamplesInv, LoopGood
      <3>2. CASE start[t] # 0 /\ guard' = [guard EXCEPT !.result = s]
        <4>1. threads[t].start \in 1..born[t] /\ born[t] \in Nat /\ start[t] = born[t] /\ now \in Nat
          BY <2>2, <3>2 DEF SamplesInv, ThreadGood, EntryGood, KernelGood
        <4>2. s \in SampleSet /\ s.of = start[t] /\ s.source = "ptrace"
          BY <4>1 DEF SampleSet
        <4>3. SampleGood(s, threads[t].start, born[t])
          <5> HIDE DEF s
          <5> QED
            BY <4>1, <4>2 DEF SampleGood
        <4>4. guard'.tid = t /\ guard'.result = s
          BY <2>1, <3>2 DEF TraceInv, Attached
        <4> QED
          BY <4>3, <4>4
      <3> QED
        BY <1>6, <3>1, <3>2 DEF Sampler!ReadRegisters
    <2>5. LoopGood'
      BY <2>1, <2>2, <2>4 DEF SamplesInv, LoopGood
    <2> QED
      BY <1>0, <2>1, <2>3, <2>5
  <1>7. CASE Sampler!Detach
    <2> DEFINE t == guard.tid
               e == threads[t]
               f == IF guard.result = None THEN Sampler!Failed(e) ELSE Sampler!Processed(e, guard.result)
    <2>1. /\ phase = "drop" /\ phase' = "capture" /\ todo' = todo \ {t}
          /\ threads' = [threads EXCEPT ![t] = f]
          /\ UNCHANGED <<now, start, born, cpu, sampled, calm, context, stat, alive>>
      BY <1>7 DEF Sampler!Detach
    <2>2. /\ t \in Tids /\ e # None
          /\ guard.result # None => SampleGood(guard.result, e.start, born[t])
      BY <2>1 DEF SamplesInv, LoopGood
    <2>3. EntryGood(e, born[t]) /\ EpochGood(e) /\ born[t] \in Nat
      BY <2>2 DEF SamplesInv, ThreadGood, KernelGood
    <2>4. /\ EntryGood(f, born[t]) /\ EpochGood(f) /\ f.switch_event = e.switch_event
          /\ f.start = e.start /\ f.lost = e.lost
          /\ e.latest # None => f.latest # None /\ f.latest.time >= e.latest.time
      <3>1. CASE guard.result = None
        BY <2>3, <3>1, Relabelled
      <3>2. CASE guard.result # None
        BY <2>2, <2>3, <3>2, ProcessedGood DEF SamplesInv
      <3> QED
        BY <3>1, <3>2
    <2>5. /\ threads' \in [Tids -> EntrySet \cup {None}]
          /\ \A u \in Tids : ThreadGood(u)'
          /\ \A u \in Tids : /\ threads[u] = None <=> threads'[u] = None
                             /\ threads[u] # None => threads'[u].start = threads[u].start
          /\ Sampler!Advances
      <3> HIDE DEF f
      <3> QED
        BY <2>1, <2>2, <2>4, EntryChanged
    <2>6. LoopGood'
      <3> HIDE DEF f
      <3>1. LoopGood
        BY DEF SamplesInv
      <3>2. \A u \in todo' : threads'[u] # None
        BY <2>1, <2>5, <3>1 DEF LoopGood
      <3>3. calm => \A u \in Tids : threads'[u] # None => threads'[u].start = start[u]
        BY <2>1, <2>5, <3>1 DEF LoopGood
      <3> QED
        BY <2>1, <3>1, <3>2, <3>3 DEF LoopGood
    <2>7. KernelGood' /\ context' \in [epoch : Nat, maps : Layouts \cup {None}]
      BY <2>1 DEF SamplesInv, KernelGood
    <2> QED
      BY <2>5, <2>6, <2>7 DEF SamplesInv
  <1>8. CASE Sampler!CaptureEnds
    <2>1. /\ phase = "capture" /\ phase' \in {"ended", "idle"}
          /\ UNCHANGED <<now, start, born, cpu, sampled, calm, threads, context, todo, stat, alive,
                         guard>>
      BY <1>8 DEF Sampler!CaptureEnds, Sampler!kernelVars
    <2>2. LoopGood'
      BY <2>1 DEF SamplesInv, LoopGood
    <2> QED
      BY <1>0, <2>1, <2>2 DEF SamplesInv, KernelGood
  <1> QED
    BY <1>1, <1>2, <1>4, <1>5, <1>6, <1>7, <1>8 DEF Sampler!Capture

\* Both invariants together are kept by every step, and no step goes back.
LEMMA SamplerStep ==
  ASSUME NoneApart, Tids \subseteq Nat, TraceInv, SamplesInv, [Sampler!Next]_Sampler!vars
  PROVE  TraceInv' /\ SamplesInv' /\ Sampler!Advances
  <1>0. None \notin {"pending", "held", "handled"}
    BY DEF NoneApart
  <1>1. CASE UNCHANGED Sampler!vars
    <2>1. TraceInv'
      BY <1>1 DEF Sampler!vars, Sampler!kernelVars, Sampler!samplerVars, Sampler!loopVars, TraceInv,
                  Attached, Free
    <2>2. SamplesInv' /\ Sampler!Advances
      BY <1>1, SamplesStay DEF Sampler!vars, Sampler!kernelVars, Sampler!samplerVars,
                               Sampler!loopVars
    <2> QED
      BY <2>1, <2>2
  <1> QED
    BY <1>0, <1>1, KernelKeeps, PollKeeps, CaptureKeeps, KernelSamples, PollSamples, CaptureSamples
       DEF Sampler!Next

\* The properties follow.
LEMMA SamplesShown ==
  ASSUME SamplesInv
  PROVE  Sampler!SwitchIsOwn /\ Sampler!SamplesOfOwner /\ Sampler!EpochNamesMaps
  <1>1. Sampler!SwitchIsOwn
    BY DEF SamplesInv, ThreadGood, EntryGood, SampleGood, Sampler!SwitchIsOwn, Sampler!Tracked
  <1>2. Sampler!SamplesOfOwner
    <2> SUFFICES ASSUME phase = "idle", calm, NEW t \in Tids, threads[t] # None
                 PROVE  /\ threads[t].start = start[t]
                        /\ threads[t].latest # None => threads[t].latest.of = start[t]
      BY DEF Sampler!SamplesOfOwner, Sampler!Tracked
    <2>1. threads[t].start = start[t]
      BY DEF SamplesInv, LoopGood
    <2>2. threads[t].start \in 1..born[t] /\ start[t] \in {0, born[t]} /\ born[t] \in Nat
      BY DEF SamplesInv, ThreadGood, EntryGood, KernelGood
    <2>3. threads[t].latest # None => threads[t].latest.of \in threads[t].start..born[t]
      BY DEF SamplesInv, ThreadGood, EntryGood, SampleGood
    <2> QED
      BY <2>1, <2>2, <2>3
  <1>3. Sampler!EpochNamesMaps
    BY DEF SamplesInv, ThreadGood, EpochGood, Sampler!EpochNamesMaps, Sampler!MappingSnapshots,
           Sampler!Tracked
  <1> QED
    BY <1>1, <1>2, <1>3

\* A stack shown for a thread is that thread's although its tid is reused, one called
\* a context switch was taken at that switch although the ring lost records, and its
\* epoch names the maps it was taken under; and while the thread lives its stack never
\* goes back in time and no loss is forgotten (Sampler::poll, capture_ptrace, drain).
THEOREM StacksOfOwners ==
  ASSUME NoneApart, Tids \subseteq Nat
  PROVE  /\ MCSpec => []SamplesOfOwner
         /\ MCSpec => SamplesAdvance
  <1>1. MCInit /\ which = "stacks" => TraceInv /\ SamplesInv
    <2> SUFFICES ASSUME Sampler!Init PROVE TraceInv /\ SamplesInv
      BY AboutStacks
    <2> USE DEF Sampler!Init
    <2>1. TraceInv
      BY DEF TraceInv, Free, NoneApart
    <2>2. KernelGood
      BY DEF KernelGood
    <2>3. LoopGood
      BY DEF LoopGood, Capturing
    <2> QED
      BY <2>1, <2>2, <2>3 DEF SamplesInv, ThreadGood
  <1> DEFINE Checked == which = "stacks" => TraceInv /\ SamplesInv
  <1>2. MCInit => Checked
    BY <1>1
  <1>3. Checked /\ [MCNext]_allVars => Checked'
    BY SamplerStep, AboutStacks
  <1>4. Checked => SamplesOfOwner
    BY SamplesShown DEF SamplesOfOwner
  <1>5. Checked /\ [MCNext]_allVars => [which = "stacks" => Sampler!Advances]_allVars
    BY SamplerStep, AboutStacks
  <1> HIDE DEF Checked
  <1> QED
    BY <1>2, <1>3, <1>4, <1>5, PTL DEF MCSpec, SamplesAdvance

\* The second half by itself: while a thread lives, the stack shown for it never goes
\* back in time and the losses counted for it only grow (Sampler::poll).
THEOREM StacksAdvance ==
  ASSUME NoneApart, Tids \subseteq Nat
  PROVE  MCSpec => SamplesAdvance
  BY StacksOfOwners

-----------------------------------------------------------------------------
(* ActivityEvents: every event is accounted for, to its cause.             *)

\* The steps of the three folds: records into the queue, events into the batch, and
\* the counts of the batch.
ReceiveStep(q, event, p) == Events!Received(q, event)
AddStep(done_, event, p) == Events!Add(done_, event)
CountStep(sum, a, p) == sum + a.count
Receives == INSTANCE FoldProofs WITH Op <- ReceiveStep
Adds == INSTANCE FoldProofs WITH Op <- AddStep
Counts == INSTANCE FoldProofs WITH Op <- CountStep

LEMMA FoldSteps ==
  /\ \A q, s : Events!FoldLeft(Events!Received, q, s) = Receives!FoldAlong(q, s, 0)
  /\ \A q, s : Events!FoldLeft(Events!Add, q, s) = Adds!FoldAlong(q, s, 0)
  /\ \A of : Events!Count(of) = Counts!FoldAlong(0, of, 0)
  <1>1. \A q, s : Events!FoldLeft(Events!Received, q, s) = Receives!FoldAlong(q, s, 0)
    BY Zenon DEF Events!FoldLeft, Events!MapThenFoldSet, Events!Max, Receives!FoldAlong,
                 Receives!FoldLeft, Receives!MapThenFoldSet, Receives!Max, ReceiveStep
  <1>2. \A q, s : Events!FoldLeft(Events!Add, q, s) = Adds!FoldAlong(q, s, 0)
    BY Zenon DEF Events!FoldLeft, Events!MapThenFoldSet, Events!Max, Adds!FoldAlong,
                 Adds!FoldLeft, Adds!MapThenFoldSet, Adds!Max, AddStep
  <1>3. \A of : Events!Count(of) = Counts!FoldAlong(0, of, 0)
    BY Zenon DEF Events!Count, Events!FoldLeft, Events!MapThenFoldSet, Events!Max,
                 Counts!FoldAlong, Counts!FoldLeft, Counts!MapThenFoldSet, Counts!Max, CountStep
  <1> QED
    BY <1>1, <1>2, <1>3

\* An aggregate of a batch: its key starts with a process.
AggregateSet == [key : (Events!ProcessKey \X (Resources \cup Events!ProcessKey)) , count : Nat,
                 path : BOOLEAN, from : SUBSET Events!ProcessKey]

\* The sum of the counts, element by element.
LEMMA CountLoop ==
  ASSUME NEW A, NEW of \in Seq(A), \A a \in A : a.count \in Nat
  PROVE  \E g : /\ g[0] = 0
                /\ \A n \in 1..Len(of) : g[n] = g[n - 1] + of[n].count
                /\ \A n \in 0..Len(of) : g[n] \in Nat
                /\ Events!Count(of) = g[Len(of)]
  <1>1. PICK g : /\ g[0] = 0
                 /\ \A n \in 1..Len(of) : g[n] = CountStep(g[n - 1], of[n], 0)
                 /\ Counts!FoldAlong(0, of, 0) = g[Len(of)]
    BY Counts!SeqLoop
  <1>2. \A n \in 1..Len(of) : g[n] = g[n - 1] + of[n].count /\ of[n].count \in Nat
    BY <1>1 DEF CountStep
  <1> DEFINE T == {n \in Nat : g[n] \in Nat}
  <1>3. 0 \in T
    BY <1>1
  <1>4. \A n \in 1..Len(of) : n - 1 \in T => n \in T
    BY <1>2
  <1>5. Len(of) \in Nat
    OBVIOUS
  <1>6. \A n \in 0..Len(of) : n \in T
    <2> HIDE DEF T
    <2> QED
      BY <1>3, <1>4, <1>5, Counts!Reaches
  <1>7. Events!Count(of) = g[Len(of)]
    BY <1>1, FoldSteps
  <1> QED
    BY <1>1, <1>2, <1>6, <1>7

\* Sums of two batches that agree but for one element.
LEMMA CountOf ==
  ASSUME NEW A, \A a \in A : a.count \in Nat, NEW of \in Seq(A)
  PROVE  /\ Events!Count(of) \in Nat
         /\ of = <<>> => Events!Count(of) = 0
         /\ \A a \in A : Events!Count(Append(of, a)) = Events!Count(of) + a.count
         /\ \A to \in Seq(A), i \in 1..Len(of) :
              /\ Len(to) = Len(of) /\ to[i].count = of[i].count + 1
              /\ \A j \in 1..Len(of) : j # i => to[j].count = of[j].count
              => Events!Count(to) = Events!Count(of) + 1
  <1>1. PICK g : /\ g[0] = 0
                 /\ \A n \in 1..Len(of) : g[n] = g[n - 1] + of[n].count
                 /\ \A n \in 0..Len(of) : g[n] \in Nat
                 /\ Events!Count(of) = g[Len(of)]
    BY CountLoop
  <1>2. Events!Count(of) \in Nat /\ (of = <<>> => Events!Count(of) = 0)
    BY <1>1
  <1>3. ASSUME NEW a \in A PROVE Events!Count(Append(of, a)) = Events!Count(of) + a.count
    <2> DEFINE s == Append(of, a)
    <2>1. s \in Seq(A) /\ Len(s) = Len(of) + 1 /\ s[Len(of) + 1] = a
          /\ \A n \in 1..Len(of) : s[n] = of[n]
      OBVIOUS
    <2> HIDE DEF s
    <2>2. PICK h : /\ h[0] = 0
                   /\ \A n \in 1..Len(s) : h[n] = h[n - 1] + s[n].count
                   /\ Events!Count(s) = h[Len(s)]
      BY <2>1, CountLoop
    <2> DEFINE T == {n \in Nat : h[n] = g[n]}
    <2>3. 0 \in T
      BY <1>1, <2>2
    <2>4. \A n \in 1..Len(of) : n - 1 \in T => n \in T
      BY <1>1, <2>1, <2>2
    <2>5. Len(of) \in T
      <3>1. Len(of) \in Nat /\ Len(of) \in 0..Len(of)
        OBVIOUS
      <3> HIDE DEF T
      <3>2. \A n \in 0..Len(of) : n \in T
        BY <2>3, <2>4, <3>1, Counts!Reaches
      <3> QED
        BY <3>1, <3>2
    <2>6. h[Len(of) + 1] = h[Len(of)] + a.count
      BY <2>1, <2>2
    <2> QED
      BY <1>1, <2>1, <2>2, <2>5, <2>6 DEF s
  <1>4. ASSUME NEW to \in Seq(A), NEW i \in 1..Len(of),
               Len(to) = Len(of), to[i].count = of[i].count + 1,
               \A j \in 1..Len(of) : j # i => to[j].count = of[j].count
        PROVE  Events!Count(to) = Events!Count(of) + 1
    <2>1. PICK h : /\ h[0] = 0
                   /\ \A n \in 1..Len(to) : h[n] = h[n - 1] + to[n].count
                   /\ \A n \in 0..Len(to) : h[n] \in Nat
                   /\ Events!Count(to) = h[Len(to)]
      BY CountLoop
    <2> DEFINE T == {n \in Nat : h[n] = g[n] + (IF n >= i THEN 1 ELSE 0)}
    <2>2. 0 \in T
      BY <1>1, <2>1
    <2>3. ASSUME NEW n \in 1..Len(of), n - 1 \in T PROVE n \in T
      <3>1. /\ h[n] = h[n - 1] + to[n].count /\ g[n] = g[n - 1] + of[n].count
            /\ h[n - 1] = g[n - 1] + (IF n - 1 >= i THEN 1 ELSE 0)
            /\ of[n].count \in Nat /\ g[n - 1] \in Nat
        BY <1>1, <1>4, <2>1, <2>3
      <3>2. to[n].count = of[n].count + (IF n = i THEN 1 ELSE 0)
        BY <1>4, <3>1, SMTT(30)
      <3>3. /\ n = i => h[n] = g[n] + 1
            /\ n < i => h[n] = g[n]
            /\ n > i => h[n] = g[n] + 1
        BY <3>1, <3>2
      <3>4. g[n] \in Nat /\ n \in Nat /\ i \in Nat
        BY <3>1
      <3> QED
        BY <3>3, <3>4
    <2>4. Len(of) \in T
      <3>1. \A n \in 1..Len(of) : n - 1 \in T => n \in T
        BY <2>3
      <3>2. Len(of) \in Nat /\ Len(of) \in 0..Len(of)
        OBVIOUS
      <3> HIDE DEF T
      <3>3. \A n \in 0..Len(of) : n \in T
        BY <2>2, <3>1, <3>2, Counts!Reaches
      <3> QED
        BY <3>2, <3>3
    <2> QED
      BY <1>1, <1>4, <2>1, <2>4
  <1> QED
    BY <1>2, <1>3, <1>4

\* A batch of n events: each aggregate is of the process its key names; file and IPC
\* events are counted once, under distinct keys; and no file event is turned away.
BatchSet == [of : Seq(AggregateSet), dropped : Nat]
BatchGood(b, n) ==
  /\ b \in BatchSet /\ Len(b.of) <= n
  /\ \A i \in 1..Len(b.of) : b.of[i].from = {b.of[i].key[1]}
  /\ sensor # "signals" =>
       /\ \A i, j \in 1..Len(b.of) : b.of[i].key = b.of[j].key => i = j
       /\ Events!Count(b.of) + b.dropped = n
  /\ sensor = "files" => b.dropped = 0

LEMMA DropKeeps ==
  ASSUME NEW n \in Nat, NEW b, BatchGood(b, n), sensor # "files"
  PROVE  BatchGood([b EXCEPT !.dropped = @ + 1], n + 1)
  <1> DEFINE c == [b EXCEPT !.dropped = @ + 1]
  <1>1. b \in BatchSet /\ c \in BatchSet /\ c.of = b.of /\ c.dropped = b.dropped + 1
    BY DEF BatchGood, BatchSet
  <1>2. Events!Count(b.of) \in Nat /\ b.dropped \in Nat /\ Len(b.of) \in Nat
    <2>1. b.of \in Seq(AggregateSet) /\ b.dropped \in Nat /\ \A a \in AggregateSet : a.count \in Nat
      BY <1>1 DEF BatchSet, AggregateSet
    <2> QED
      BY <2>1, CountOf
  <1> HIDE DEF c
  <1>3. Len(c.of) <= n + 1
    BY <1>1, <1>2 DEF BatchGood
  <1>4. Events!Count(b.of) + b.dropped = n => Events!Count(c.of) + c.dropped = n + 1
    BY <1>1, <1>2
  <1>5. BatchGood(c, n + 1)
    BY <1>1, <1>3, <1>4 DEF BatchGood
  <1> QED
    BY <1>5 DEF c

LEMMA AppendKeeps ==
  ASSUME NEW n \in Nat, NEW b, BatchGood(b, n), NEW a \in AggregateSet, a.count = 1,
         a.from = {a.key[1]},
         sensor # "signals" => \A i \in 1..Len(b.of) : b.of[i].key # a.key,
         NEW c, c = [of |-> Append(b.of, a), dropped |-> b.dropped]
  PROVE  BatchGood(c, n + 1)
  <1> DEFINE to == Append(b.of, a)
  <1>1. b.of \in Seq(AggregateSet) /\ b.dropped \in Nat
        /\ c \in BatchSet /\ c.of = to /\ c.dropped = b.dropped
    BY DEF BatchGood, BatchSet
  <1>2. /\ Events!Count(b.of) \in Nat /\ Len(b.of) \in Nat
        /\ Events!Count(to) = Events!Count(b.of) + a.count
    <2>1. \A x \in AggregateSet : x.count \in Nat
      BY DEF AggregateSet
    <2> QED
      BY <1>1, <2>1, CountOf, SMTT(30)
  <1>3. /\ Len(to) = Len(b.of) + 1 /\ to[Len(b.of) + 1] = a
        /\ \A i \in 1..Len(b.of) : to[i] = b.of[i]
    BY <1>1
  <1> HIDE DEF to
  <1>4. Len(c.of) <= n + 1
    BY <1>1, <1>2, <1>3 DEF BatchGood
  <1>5. \A i \in 1..Len(c.of) : c.of[i].from = {c.of[i].key[1]}
    BY <1>1, <1>2, <1>3 DEF BatchGood
  <1>6. sensor # "signals" => \A i, j \in 1..Len(c.of) : c.of[i].key = c.of[j].key => i = j
    <2> SUFFICES ASSUME sensor # "signals", NEW i \in 1..Len(c.of), NEW j \in 1..Len(c.of),
                        c.of[i].key = c.of[j].key
                 PROVE  i = j
      OBVIOUS
    <2>1. \A k \in 1..Len(c.of) : k \in 1..Len(b.of) \/ k = Len(b.of) + 1
      BY <1>1, <1>2, <1>3
    <2>2. \A k \in 1..Len(b.of) : c.of[k].key # a.key
      BY <1>1, <1>3
    <2>3. CASE i \in 1..Len(b.of) /\ j \in 1..Len(b.of)
      BY <1>1, <1>3, <2>3 DEF BatchGood
    <2>4. CASE i = Len(b.of) + 1 \/ j = Len(b.of) + 1
      BY <1>1, <1>3, <2>1, <2>2, <2>4
    <2> QED
      BY <2>1, <2>3, <2>4
  <1>7. sensor # "signals" => Events!Count(c.of) + c.dropped = n + 1
    <2>1. sensor # "signals" => Events!Count(b.of) + b.dropped = n
      BY DEF BatchGood
    <2>2. Events!Count(c.of) = Events!Count(b.of) + 1 /\ c.dropped = b.dropped
      BY <1>1, <1>2
    <2> QED
      BY <1>1, <1>2, <2>1, <2>2
  <1> QED
    BY <1>1, <1>4, <1>5, <1>6, <1>7 DEF BatchGood

LEMMA MergeKeeps ==
  ASSUME NEW n \in Nat, NEW b, BatchGood(b, n), sensor # "signals", NEW key, Events!Holds(b, key),
         NEW event, event.path \in BOOLEAN, event.from \in Events!ProcessKey, key[1] = event.from
  PROVE  BatchGood(Events!Merge(b, key, event), n + 1)
  <1> DEFINE more(a) == [a EXCEPT !.count = @ + 1, !.path = @ \/ event.path,
                                  !.from = @ \cup {event.from}]
             to == [i \in DOMAIN b.of |-> IF b.of[i].key = key THEN more(b.of[i]) ELSE b.of[i]]
             c == Events!Merge(b, key, event)
  <1>1. /\ b.of \in Seq(AggregateSet) /\ b.dropped \in Nat /\ DOMAIN b.of = 1..Len(b.of)
        /\ Len(b.of) \in Nat
    BY DEF BatchGood, BatchSet
  <1>2. \A a \in AggregateSet : /\ more(a) \in AggregateSet /\ more(a).key = a.key
                                /\ more(a).count = a.count + 1
                                /\ more(a).from = a.from \cup {event.from}
    <2> SUFFICES ASSUME NEW a \in AggregateSet
                 PROVE  /\ more(a) \in AggregateSet /\ more(a).key = a.key
                        /\ more(a).count = a.count + 1
                        /\ more(a).from = a.from \cup {event.from}
      OBVIOUS
    <2>1. (a.path \/ event.path) \in BOOLEAN
      OBVIOUS
    <2>2. a.count \in Nat /\ a.from \cup {event.from} \in SUBSET Events!ProcessKey
      BY DEF AggregateSet
    <2>4. more(a) = [a EXCEPT !.count = a.count + 1, !.path = (a.path \/ event.path),
                              !.from = a.from \cup {event.from}]
      OBVIOUS
    <2>5. a.count + 1 \in Nat
      BY <2>2
    <2>6. more(a) \in AggregateSet
      BY <2>1, <2>2, <2>4, <2>5, Zenon DEF AggregateSet
    <2>7. more(a).key = a.key /\ more(a).count = a.count + 1
          /\ more(a).from = a.from \cup {event.from}
      BY <2>4 DEF AggregateSet
    <2> QED
      BY <2>6, <2>7
  <1>3. PICK i \in 1..Len(b.of) : b.of[i].key = key
    BY <1>1 DEF Events!Holds
  <1>4. \A j \in 1..Len(b.of) : j # i => b.of[j].key # key
    BY <1>3 DEF BatchGood
  <1> HIDE DEF more
  <1>5. /\ to \in Seq(AggregateSet) /\ Len(to) = Len(b.of)
        /\ to[i] = more(b.of[i])
        /\ \A j \in 1..Len(b.of) : j # i => to[j] = b.of[j]
    <2>1. \A j \in 1..Len(b.of) : b.of[j] \in AggregateSet
      BY <1>1
    <2>2. \A j \in 1..Len(b.of) : to[j] \in AggregateSet
      BY <1>1, <1>2, <2>1
    <2>3. to \in [1..Len(b.of) -> AggregateSet]
      BY <1>1, <2>2
    <2>4. to \in Seq(AggregateSet) /\ Len(to) = Len(b.of)
      <3> HIDE DEF to
      <3> QED
        BY <1>1, <2>3, SeqDef, LenProperties
    <2> QED
      BY <1>1, <1>3, <1>4, <2>4
  <1>6. c.of = to /\ c.dropped = b.dropped /\ c \in BatchSet
    <2>1. c = [b EXCEPT !.of = to]
      BY Zenon DEF Events!Merge, more
    <2> HIDE DEF to, c
    <2> QED
      BY <1>5, <2>1 DEF BatchGood, BatchSet
  <1> HIDE DEF to, c
  <1>7. /\ Events!Count(b.of) \in Nat
        /\ Events!Count(to) = Events!Count(b.of) + 1
    <2>1. \A x \in AggregateSet : x.count \in Nat
      BY DEF AggregateSet
    <2>2. to[i].count = b.of[i].count + 1 /\ \A j \in 1..Len(b.of) : j # i => to[j].count = b.of[j].count
      BY <1>1, <1>2, <1>5
    <2> QED
      BY <1>1, <1>5, <2>1, <2>2, CountOf
  <1>8. \A j \in 1..Len(to) : to[j].key = b.of[j].key /\ to[j].from = {to[j].key[1]}
    <2>1. b.of[i].from = {key[1]} /\ b.of[i].key = key
      BY <1>3 DEF BatchGood
    <2>2. to[i].key = key /\ to[i].from = {key[1]}
      BY <1>1, <1>2, <1>5, <2>1
    <2>3. \A j \in 1..Len(b.of) : b.of[j].from = {b.of[j].key[1]}
      BY DEF BatchGood
    <2> QED
      BY <1>3, <1>5, <2>1, <2>2, <2>3
  <1>9. Len(c.of) <= n + 1 /\ Events!Count(c.of) + c.dropped = n + 1
    BY <1>1, <1>5, <1>6, <1>7, SMTT(30) DEF BatchGood
  <1>10. \A k, j \in 1..Len(to) : to[k].key = to[j].key => k = j
    BY <1>5, <1>8 DEF BatchGood
  <1>11. BatchGood(c, n + 1)
    BY <1>6, <1>8, <1>9, <1>10 DEF BatchGood
  <1> QED
    BY <1>11 DEF c

\* Absent is no process and no batch in the channel; and the helper queues no more
\* file events than the server aggregates (8192 each).
AllEvents == Events!FileActivity \cup Events!IpcEvent \cup Events!SignalSample
EventLimits ==
  /\ PollLimit \in Nat /\ FilesLimit \in Nat /\ AggregateLimit \in Nat
  /\ FilesLimit <= AggregateLimit
EventsApart == None \notin Events!ProcessKey \cup [events : Seq(AllEvents), lost : Nat]

LEMMA ResolvedIs ==
  ASSUME None \notin Events!ProcessKey, NEW p \in Events!ProcessKey, Events!Resolves(p)
  PROVE  Events!Identity(p) = p
  BY DEF Events!Resolves, Events!Owners, Events!Identity, Events!ProcessKey

LEMMA AddKeeps ==
  ASSUME EventLimits, None \notin Events!ProcessKey, sensor \in Events!Sensors, NEW n \in Nat,
         NEW b, BatchGood(b, n), NEW event \in Events!Events,
         sensor = "files" => n < AggregateLimit
  PROVE  BatchGood(Events!Add(b, event), n + 1)
  <1>0. /\ b \in BatchSet /\ b.of \in Seq(AggregateSet) /\ Len(b.of) \in Nat /\ Len(b.of) <= n
        /\ DOMAIN b.of = 1..Len(b.of)
    BY DEF BatchGood, BatchSet
  <1>1. ASSUME NEW key, key \in Events!ProcessKey \X (Resources \cup Events!ProcessKey),
               event.path \in BOOLEAN, event.from \in Events!ProcessKey, key[1] = event.from,
               sensor # "signals", ~Events!Holds(b, key)
        PROVE  BatchGood(Events!Insert(b, key, event), n + 1)
    <2> DEFINE a == [key |-> key, count |-> 1, path |-> event.path, from |-> {event.from}]
    <2>1. a \in AggregateSet
      BY <1>1, Zenon DEF AggregateSet
    <2>2. a.count = 1 /\ a.from = {a.key[1]} /\ a.key = key
      BY <1>1
    <2>3. \A i \in 1..Len(b.of) : b.of[i].key # a.key
      BY <1>0, <1>1, <2>2 DEF Events!Holds
    <2>4. Events!Insert(b, key, event) = [of |-> Append(b.of, a), dropped |-> b.dropped]
      <3>1. \A x : [b EXCEPT !.of = x] = [of |-> x, dropped |-> b.dropped]
        BY <1>0 DEF BatchSet
      <3>2. Events!Insert(b, key, event) = [b EXCEPT !.of = Append(b.of, a)]
        BY Zenon DEF Events!Insert
      <3> HIDE DEF a
      <3> QED
        BY <3>1, <3>2
    <2> HIDE DEF a
    <2> QED
      BY <2>1, <2>2, <2>3, <2>4, AppendKeeps
  <1>2. CASE sensor = "files"
    <2> DEFINE key == <<event.from, event.resource>>
    <2>1. event \in Events!FileActivity
      BY <1>2 DEF Events!Events
    <2>2. /\ key \in Events!ProcessKey \X (Resources \cup Events!ProcessKey)
          /\ event.path \in BOOLEAN /\ event.from \in Events!ProcessKey /\ key[1] = event.from
      BY <2>1 DEF Events!FileActivity
    <2>3. Events!Add(b, event) = Events!AddFile(b, event)
      BY <1>2 DEF Events!Add
    <2>4. Len(b.of) < AggregateLimit
      BY <1>0, <1>2 DEF EventLimits
    <2>5. Events!AddFile(b, event) = IF Events!Holds(b, key) THEN Events!Merge(b, key, event)
                                                       ELSE Events!Insert(b, key, event)
      BY <2>4 DEF Events!AddFile
    <2> HIDE DEF key
    <2> QED
      BY <1>1, <1>2, <2>2, <2>3, <2>5, MergeKeeps
  <1>3. CASE sensor = "ipc"
    <2> DEFINE key == <<Events!Identity(event.from), event.resource>>
    <2>1. event \in Events!IpcEvent
      BY <1>3 DEF Events!Events
    <2>2. Events!Add(b, event) = Events!AddIpc(b, event)
      BY <1>3 DEF Events!Add
    <2>3. CASE event.worker \/ ~Events!Resolves(event.from) \/ Len(b.of) >= AggregateLimit
      <3>1. Events!AddIpc(b, event) = [b EXCEPT !.dropped = @ + 1]
        BY <2>3 DEF Events!AddIpc
      <3> QED
        BY <1>3, <2>2, <3>1, DropKeeps
    <2>4. CASE ~(event.worker \/ ~Events!Resolves(event.from) \/ Len(b.of) >= AggregateLimit)
      <3>1. /\ event.from \in Events!ProcessKey /\ event.path \in BOOLEAN
            /\ event.resource \in Resources
        BY <2>1 DEF Events!IpcEvent
      <3>2. Events!Identity(event.from) = event.from
        BY <2>4, <3>1, ResolvedIs
      <3>3. /\ key \in Events!ProcessKey \X (Resources \cup Events!ProcessKey)
            /\ key[1] = event.from
        BY <3>1, <3>2
      <3>4. Events!AddIpc(b, event) = IF Events!Holds(b, key) THEN Events!Merge(b, key, event)
                                                        ELSE Events!Insert(b, key, event)
        BY <2>4 DEF Events!AddIpc
      <3> HIDE DEF key
      <3> QED
        BY <1>1, <1>3, <2>2, <3>1, <3>3, <3>4, MergeKeeps
    <2> QED
      BY <2>3, <2>4
  <1>4. CASE sensor = "signals"
    <2>1. event \in Events!SignalSample
      BY <1>4 DEF Events!Events
    <2>2. event.from \in Events!ProcessKey /\ event.to \in Events!ProcessKey
      BY <2>1 DEF Events!SignalSample
    <2>3. Events!Add(b, event) = Events!AddSignal(b, event)
      BY <1>4 DEF Events!Add
    <2>4. CASE Events!Resolves(event.from) /\ Events!Resolves(event.to)
      <3> DEFINE a == [key |-> <<Events!Identity(event.from), Events!Identity(event.to)>>,
                       count |-> 1, path |-> FALSE, from |-> {event.from}]
      <3>1. Events!Identity(event.from) = event.from /\ Events!Identity(event.to) = event.to
        BY <2>2, <2>4, ResolvedIs
      <3>2. a \in AggregateSet
        <4>1. a.key \in Events!ProcessKey \X (Resources \cup Events!ProcessKey)
          BY <2>2, <3>1
        <4>2. {event.from} \in SUBSET Events!ProcessKey /\ 1 \in Nat
          BY <2>2
        <4> QED
          BY <4>1, <4>2 DEF AggregateSet
      <3>3. a.count = 1 /\ a.from = {a.key[1]}
        BY <3>1
      <3>4. Events!AddSignal(b, event) = [of |-> Append(b.of, a), dropped |-> b.dropped]
        BY <1>0, <2>4 DEF Events!AddSignal, BatchSet
      <3> HIDE DEF a
      <3> QED
        BY <1>4, <2>3, <3>2, <3>3, <3>4, AppendKeeps
    <2>5. CASE ~(Events!Resolves(event.from) /\ Events!Resolves(event.to))
      <3>1. Events!AddSignal(b, event) = b
        BY <2>5 DEF Events!AddSignal
      <3>2. Len(b.of) <= n + 1
        BY <1>0
      <3> QED
        BY <1>4, <2>3, <3>1, <3>2 DEF BatchGood
    <2> QED
      BY <2>4, <2>5
  <1> QED
    BY <1>2, <1>3, <1>4 DEF Events!Sensors

\* What Process makes of the events of a batch.
LEMMA BatchMade ==
  ASSUME EventLimits, None \notin Events!ProcessKey, sensor \in Events!Sensors,
         NEW s \in Seq(Events!Events), sensor = "files" => Len(s) <= FilesLimit
  PROVE  BatchGood(Events!FoldLeft(Events!Add, Events!NoBatch, s), Len(s))
  <1>1. PICK g : /\ g[0] = Events!NoBatch
                 /\ \A n \in 1..Len(s) : g[n] = AddStep(g[n - 1], s[n], 0)
                 /\ Adds!FoldAlong(Events!NoBatch, s, 0) = g[Len(s)]
    BY Adds!SeqLoop
  <1> DEFINE T == {n \in Nat : BatchGood(g[n], n)}
  <1>2. BatchGood(Events!NoBatch, 0)
    <2>1. /\ Events!NoBatch.of = <<>> /\ Events!NoBatch.dropped = 0
          /\ Events!NoBatch.of \in Seq(AggregateSet) /\ Events!NoBatch \in BatchSet
          /\ Len(Events!NoBatch.of) = 0
      BY DEF Events!NoBatch, BatchSet
    <2>2. Events!Count(Events!NoBatch.of) = 0
      <3>1. \A x \in AggregateSet : x.count \in Nat
        BY DEF AggregateSet
      <3> QED
        BY <2>1, <3>1, CountOf
    <2> QED
      BY <2>1, <2>2 DEF BatchGood
  <1>3. 0 \in T
    BY <1>1, <1>2
  <1>4. ASSUME NEW n \in 1..Len(s), n - 1 \in T PROVE n \in T
    <2>1. s[n] \in Events!Events /\ n - 1 \in Nat /\ (n - 1) + 1 = n /\ BatchGood(g[n - 1], n - 1)
      BY <1>4
    <2>2. sensor = "files" => n - 1 < AggregateLimit
      BY DEF EventLimits
    <2>3. g[n] = Events!Add(g[n - 1], s[n])
      BY <1>1 DEF AddStep
    <2>4. BatchGood(Events!Add(g[n - 1], s[n]), (n - 1) + 1)
      BY <2>1, <2>2, AddKeeps
    <2> QED
      BY <2>1, <2>3, <2>4
  <1>5. Len(s) \in T
    <2>1. Len(s) \in Nat /\ Len(s) \in 0..Len(s)
      OBVIOUS
    <2> HIDE DEF T
    <2>2. \A n \in 0..Len(s) : n \in T
      BY <1>3, <1>4, <2>1, Adds!Reaches
    <2> QED
      BY <2>1, <2>2
  <1> QED
    BY <1>1, <1>5, FoldSteps

\* The balance of events, and what keeps it: an event more in the ring or lost, n events
\* from the ring to the queue or dropped, the queue to the channel, and the channel to
\* the page.
Balance(e, r, q, i, s, d, u, l, p) == e = r + q + i + s + d + u + l + p
LEMMA Balanced ==
  ASSUME NEW e \in Nat, NEW r \in Nat, NEW q \in Nat, NEW i \in Nat, NEW s \in Nat,
         NEW d \in Nat, NEW u \in Nat, NEW l \in Nat, NEW p \in Nat,
         Balance(e, r, q, i, s, d, u, l, p)
  PROVE  /\ \A r2, l2 \in Nat : r2 + l2 = r + l + 1 => Balance(e + 1, r2, q, i, s, d, u, l2, p)
         /\ \A r2, q2, p2 \in Nat : r2 + q2 + p2 = r + q + p =>
              Balance(e, r2, q2, i, s, d, u, l, p2)
         /\ Balance(e, r, 0, q, s + i, d, u, l, p)
         /\ \A d2, u2 \in Nat : d2 + u2 = d + u + i => Balance(e, r, q, 0, s, d2, u2, l, p)
  BY DEF Balance

LEMMA Moved ==
  ASSUME NEW r \in Nat, NEW q \in Nat, NEW p \in Nat, NEW n \in 0..r, NEW q2 \in Nat,
         NEW p2 \in Nat, q2 + p2 = q + p + n
  PROVE  r - n \in Nat /\ (r - n) + q2 + p2 = r + q + p
  OBVIOUS

LEMMA OneMore ==
  ASSUME NEW a \in Nat, NEW b \in Nat, NEW c \in Nat, NEW d \in Nat, NEW n \in Nat,
         a + b = c + d + n
  PROVE  (a + 1) + b = c + d + (n + 1) /\ a + (b + 1) = c + d + (n + 1)
  OBVIOUS

\* The helper's queue and its counter after n records of a poll.
QueueGood(q, n) ==
  /\ q \in [queue : Seq(Events!Events), drops : Nat]
  /\ Len(q.queue) + q.drops = Len(queue) + drops + n
  /\ sensor = "files" => Len(q.queue) <= FilesLimit

LEMMA ReceiveKeeps ==
  ASSUME EventLimits, sensor \in Events!Sensors, queue \in Seq(Events!Events), drops \in Nat,
         NEW n \in Nat, NEW q, QueueGood(q, n), NEW event \in Events!Events
  PROVE  QueueGood(Events!Received(q, event), n + 1)
  <1>1. /\ q.queue \in Seq(Events!Events) /\ q.drops \in Nat /\ Len(q.queue) \in Nat
        /\ Len(q.queue) + q.drops = Len(queue) + drops + n
        /\ sensor = "files" => Len(q.queue) <= FilesLimit
        /\ Len(queue) \in Nat
    BY DEF QueueGood
  <1>4. \A x : /\ [q EXCEPT !.queue = x] = [queue |-> x, drops |-> q.drops]
               /\ [q EXCEPT !.drops = x] = [queue |-> q.queue, drops |-> x]
    BY DEF QueueGood
  <1>2. ASSUME NEW limit, sensor = "files" => limit = FilesLimit
        PROVE  QueueGood(Events!Push(q, event, limit), n + 1)
    <2>1. CASE Len(q.queue) < limit
      <3> DEFINE to == Append(q.queue, event)
      <3>1. to \in Seq(Events!Events) /\ Len(to) = Len(q.queue) + 1
        BY <1>1
      <3>2. Events!Push(q, event, limit) = [queue |-> to, drops |-> q.drops]
        BY <1>4, <2>1 DEF Events!Push
      <3> HIDE DEF to
      <3>3. sensor = "files" => Len(to) <= FilesLimit
        BY <1>1, <1>2, <2>1, <3>1 DEF EventLimits
      <3>4. Len(to) + q.drops = Len(queue) + drops + (n + 1)
        <4> DEFINE a == Len(q.queue)
                   b == q.drops
                   c == Len(queue)
        <4>1. a \in Nat /\ b \in Nat /\ c \in Nat /\ a + b = c + drops + n
          BY <1>1
        <4> HIDE DEF a, b, c
        <4>2. (a + 1) + b = c + drops + (n + 1)
          BY <4>1, OneMore
        <4> QED
          BY <3>1, <4>2 DEF a, b, c
      <3> QED
        BY <1>1, <3>1, <3>2, <3>3, <3>4 DEF QueueGood
    <2>2. CASE ~(Len(q.queue) < limit)
      <3>1. Events!Push(q, event, limit) = [queue |-> q.queue, drops |-> q.drops + 1]
        BY <1>4, <2>2 DEF Events!Push
      <3>2. Len(q.queue) + (q.drops + 1) = Len(queue) + drops + (n + 1)
        <4> DEFINE a == Len(q.queue)
                   b == q.drops
                   c == Len(queue)
        <4>1. a \in Nat /\ b \in Nat /\ c \in Nat /\ a + b = c + drops + n
          BY <1>1
        <4> HIDE DEF a, b, c
        <4>2. a + (b + 1) = c + drops + (n + 1)
          BY <4>1, OneMore
        <4> QED
          BY <4>2 DEF a, b, c
      <3>3. q.drops + 1 \in Nat
        BY <1>1
      <3> QED
        BY <1>1, <3>1, <3>2, <3>3 DEF QueueGood
    <2> QED
      BY <2>1, <2>2
  <1>3. Events!Received(q, event) \in
          {Events!Push(q, event, FilesLimit)} \cup
          (IF sensor = "files" THEN {}
           ELSE {Events!Push(q, event, IpcLimit), Events!Push(q, event, SignalsLimit)})
    BY DEF Events!Received, Events!FileRecord, Events!IpcRecord, Events!SignalRecord,
           Events!Sensors
  <1> QED
    BY <1>2, <1>3

LEMMA PollReceives ==
  ASSUME EventLimits, sensor \in Events!Sensors, queue \in Seq(Events!Events), drops \in Nat,
         sensor = "files" => Len(queue) <= FilesLimit, NEW s \in Seq(Events!Events)
  PROVE  QueueGood(Events!FoldLeft(Events!Received, [queue |-> queue, drops |-> drops], s), Len(s))
  <1> DEFINE base == [queue |-> queue, drops |-> drops]
  <1>1. PICK g : /\ g[0] = base
                 /\ \A n \in 1..Len(s) : g[n] = ReceiveStep(g[n - 1], s[n], 0)
                 /\ Receives!FoldAlong(base, s, 0) = g[Len(s)]
    <2> HIDE DEF base
    <2> QED
      BY Receives!SeqLoop
  <1> DEFINE T == {n \in Nat : QueueGood(g[n], n)}
  <1>2. 0 \in T
    <2>1. QueueGood(base, 0)
      BY DEF QueueGood
    <2> QED
      BY <1>1, <2>1
  <1>3. ASSUME NEW n \in 1..Len(s), n - 1 \in T PROVE n \in T
    <2>1. s[n] \in Events!Events /\ n - 1 \in Nat /\ (n - 1) + 1 = n /\ QueueGood(g[n - 1], n - 1)
      BY <1>3
    <2>2. g[n] = Events!Received(g[n - 1], s[n])
      BY <1>1 DEF ReceiveStep
    <2>3. QueueGood(Events!Received(g[n - 1], s[n]), (n - 1) + 1)
      BY <2>1, ReceiveKeeps
    <2> QED
      BY <2>1, <2>2, <2>3
  <1>4. Len(s) \in T
    <2>1. Len(s) \in Nat /\ Len(s) \in 0..Len(s)
      OBVIOUS
    <2> HIDE DEF T
    <2>2. \A n \in 0..Len(s) : n \in T
      BY <1>2, <1>3, <2>1, Receives!Reaches
    <2> QED
      BY <2>1, <2>2
  <1> QED
    BY <1>1, <1>4, FoldSteps

\* Where the events are; a file batch never outgrows the server's aggregates.
EventsInv ==
  /\ sensor \in Events!Sensors
  /\ ring \in Seq(Events!Events) /\ queue \in Seq(Events!Events)
  /\ sent \in [events : Seq(Events!Events), lost : Nat] \cup {None}
  /\ lost \in Nat /\ drops \in Nat /\ skipped \in Nat /\ emitted \in Nat
  /\ unresolved \in Nat /\ delivered \in Nat
  /\ sensor = "files" =>
       Len(queue) <= FilesLimit /\ (sent # None => Len(sent.events) <= FilesLimit)
  /\ Events!EventsAccounted
  /\ batch.of \in Seq(AggregateSet) /\ Events!ShownOfCause

LEMMA EventsStep ==
  ASSUME EventLimits, EventsApart, EventsInv, [Events!Next]_(Events!vars)
  PROVE  EventsInv'
  <1> DEFINE inSent == IF sent = None THEN 0 ELSE Len(sent.events)
             E == Events!Events
  <1>0. /\ sensor \in Events!Sensors /\ ring \in Seq(E) /\ queue \in Seq(E)
        /\ lost \in Nat /\ drops \in Nat /\ skipped \in Nat /\ emitted \in Nat
        /\ unresolved \in Nat /\ delivered \in Nat
        /\ Len(ring) \in Nat /\ Len(queue) \in Nat /\ inSent \in Nat
        /\ sent # None => sent.events \in Seq(E) /\ sent.lost \in Nat
    BY DEF EventsInv
  <1>00. /\ sensor # "signals" => Balance(emitted, Len(ring), Len(queue), inSent, skipped,
                                         delivered, unresolved, lost, drops)
         /\ (sensor # "signals" =>
              Balance(emitted, Len(ring), Len(queue), inSent, skipped, delivered, unresolved,
                      lost, drops))' => Events!EventsAccounted'
    BY Zenon DEF Balance, EventsInv, Events!EventsAccounted
  <1>1. CASE UNCHANGED Events!vars
    BY <1>1 DEF Events!vars, Events!kernelVars, Events!helperVars, Events!serverVars, EventsInv,
                Events!EventsAccounted, Events!ShownOfCause, Events!Events
  <1>2. ASSUME NEW event \in E, Events!Emit(event) PROVE EventsInv'
    <2>1. UNCHANGED <<sensor, state, queue, drops, sent, known, unresolved, batch, delivered, skipped>>
          /\ emitted' = emitted + 1
      BY <1>2 DEF Events!Emit, Events!helperVars, Events!serverVars
    <2>2. \/ lost' = lost /\ ring' = Append(ring, event)
          \/ lost' = lost + 1 /\ ring' = ring
      BY <1>2 DEF Events!Emit
    <2>3. E' = E
      BY <2>1 DEF Events!Events
    <2>4. ring' \in Seq(E) /\ lost' \in Nat /\ Len(ring') + lost' = Len(ring) + lost + 1
          /\ Len(ring') \in Nat /\ emitted' \in Nat
      <3>1. CASE lost' = lost /\ ring' = Append(ring, event)
        <4>1. ring' \in Seq(E) /\ Len(ring') = Len(ring) + 1
          BY <1>0, <3>1
        <4> HIDE DEF E
        <4> QED
          BY <1>0, <2>1, <3>1, <4>1
      <3>2. CASE lost' = lost + 1 /\ ring' = ring
        <4> HIDE DEF E
        <4> QED
          BY <1>0, <2>1, <3>2
      <3> QED
        BY <2>2, <3>1, <3>2
    <2> HIDE DEF E
    <2>5. Events!EventsAccounted'
      <3>1. sensor # "signals" => Balance(emitted + 1, Len(ring'), Len(queue), inSent, skipped,
                                          delivered, unresolved, lost', drops)
        BY <1>0, <1>00, <2>4, Balanced
      <3> QED
        BY <1>00, <2>1, <3>1
    <2> QED
      BY <2>1, <2>3, <2>4, <2>5 DEF EventsInv, Events!ShownOfCause, E
  <1>3. ASSUME NEW pid \in Pids, Events!ReusePid(pid) PROVE EventsInv'
    BY <1>3 DEF Events!ReusePid, Events!helperVars, Events!serverVars, EventsInv,
                Events!EventsAccounted, Events!ShownOfCause, Events!Events
  <1>4. CASE Events!Poll
    <2> DEFINE n == Events!Least(PollLimit, Len(ring))
               s == SubSeq(ring, 1, n)
               q == Events!FoldLeft(Events!Received, [queue |-> queue, drops |-> drops], s)
    <2>1. /\ queue' = q.queue /\ drops' = q.drops /\ ring' = SubSeq(ring, n + 1, Len(ring))
          /\ UNCHANGED <<sensor, lost, emitted, sent, known, unresolved, batch, delivered, skipped>>
      BY <1>4, Zenon DEF Events!Poll, Events!serverVars
    <2>2. n \in 0..Len(ring) /\ n \in Nat
      BY <1>0 DEF Events!Least, EventLimits
    <2> HIDE DEF n
    <2>3. s \in Seq(E) /\ Len(s) = n
      BY <1>0, <2>2
    <2>4. ring' \in Seq(E) /\ Len(ring') = Len(ring) - n
      BY <1>0, <2>1, <2>2
    <2> HIDE DEF s
    <2>5. QueueGood(q, n)
      BY <1>0, <2>3, PollReceives DEF EventsInv
    <2> HIDE DEF q
    <2>6. /\ queue' \in Seq(E) /\ drops' \in Nat /\ Len(queue') \in Nat
          /\ Len(queue') + drops' = Len(queue) + drops + n
          /\ sensor = "files" => Len(queue') <= FilesLimit
      BY <2>1, <2>5 DEF QueueGood
    <2>7. E' = E
      BY <2>1 DEF Events!Events
    <2> HIDE DEF E
    <2>8. Events!EventsAccounted'
      <3>1. /\ Len(ring') \in Nat
            /\ Len(ring') + Len(queue') + drops' = Len(ring) + Len(queue) + drops
        <4>1. /\ Len(ring) - n \in Nat
              /\ (Len(ring) - n) + Len(queue') + drops' = Len(ring) + Len(queue) + drops
          BY <1>0, <2>2, <2>6, Moved
        <4> QED
          BY <2>4, <4>1, Zenon
      <3>2. sensor # "signals" => Balance(emitted, Len(ring'), Len(queue'), inSent, skipped,
                                          delivered, unresolved, lost, drops')
        BY <1>0, <1>00, <2>6, <3>1, Balanced
      <3> QED
        BY <1>00, <2>1, <3>2
    <2> QED
      BY <2>1, <2>4, <2>6, <2>7, <2>8 DEF EventsInv, Events!ShownOfCause, E
  <1>5. CASE Events!PollFails
    BY <1>5 DEF Events!PollFails, Events!kernelVars, Events!serverVars, EventsInv,
                Events!EventsAccounted, Events!ShownOfCause, Events!Events
  <1>6. CASE Events!Drain
    <2>1. /\ sent' = [events |-> queue, lost |-> lost + drops]
          /\ skipped' = skipped + inSent /\ queue' = <<>>
          /\ UNCHANGED <<sensor, drops, ring, lost, emitted, unresolved, batch, delivered>>
      BY <1>0, <1>6 DEF Events!Drain, Events!kernelVars, Events!serverVars
    <2>2. E' = E
      BY <2>1 DEF Events!Events
    <2>3. /\ sent' \in [events : Seq(E), lost : Nat] /\ sent' # None /\ sent'.events = queue
          /\ queue' \in Seq(E) /\ Len(queue') = 0 /\ skipped' \in Nat
      <3>1. [events |-> queue, lost |-> lost + drops] \in [events : Seq(E), lost : Nat]
        BY <1>0
      <3>2. E \subseteq AllEvents
        BY <1>0 DEF Events!Events, AllEvents, Events!Sensors
      <3>3. queue \in Seq(AllEvents)
        <4> HIDE DEF E
        <4>1. \A j \in 1..Len(queue) : queue[j] \in AllEvents
          BY <1>0, <3>2
        <4>2. queue \in [1..Len(queue) -> AllEvents]
          BY <1>0, <4>1
        <4> QED
          BY <1>0, <4>2, SeqDef
      <3>4. [events |-> queue, lost |-> lost + drops] \in [events : Seq(AllEvents), lost : Nat]
        BY <1>0, <3>3
      <3>5. [events |-> queue, lost |-> lost + drops] # None
        BY <3>4 DEF EventsApart
      <3> HIDE DEF E
      <3> QED
        BY <1>0, <2>1, <3>1, <3>5
    <2>4. sensor = "files" => Len(queue') <= FilesLimit /\ Len(sent'.events) <= FilesLimit
      BY <2>3 DEF EventsInv, EventLimits
    <2> HIDE DEF E
    <2>5. Events!EventsAccounted'
      <3>1. sensor # "signals" => Balance(emitted, Len(ring), 0, Len(queue), skipped + inSent,
                                          delivered, unresolved, lost, drops)
        BY <1>0, <1>00, Balanced
      <3>2. inSent' = Len(queue)
        BY <2>3
      <3> QED
        BY <1>00, <2>1, <2>3, <3>1, <3>2
    <2> QED
      BY <2>1, <2>2, <2>3, <2>4, <2>5 DEF EventsInv, Events!ShownOfCause, E
  <1>7. CASE Events!Snapshot
    BY <1>7 DEF Events!Snapshot, Events!kernelVars, Events!helperVars, EventsInv,
                Events!EventsAccounted, Events!ShownOfCause, Events!Events
  <1>8. CASE Events!Process
    <2> DEFINE b == Events!FoldLeft(Events!Add, Events!NoBatch, sent.events)
    <2>1. /\ sent # None /\ sent' = None
          /\ batch' = b /\ delivered' = delivered + Events!Count(b.of)
          /\ unresolved' = unresolved + (IF sensor = "ipc" THEN b.dropped ELSE 0)
          /\ UNCHANGED <<sensor, ring, lost, emitted, queue, drops, skipped>>
      BY <1>8, Zenon DEF Events!Process, Events!kernelVars
    <2>2. BatchGood(b, Len(sent.events))
      BY <1>0, <2>1, BatchMade DEF EventsApart, EventsInv
    <2> HIDE DEF b
    <2>3. /\ b.of \in Seq(AggregateSet) /\ b.dropped \in Nat
          /\ \A i \in 1..Len(b.of) : b.of[i].from = {b.of[i].key[1]}
          /\ sensor # "signals" => Events!Count(b.of) + b.dropped = Len(sent.events)
          /\ sensor = "files" => b.dropped = 0
      BY <2>2 DEF BatchGood, BatchSet
    <2>4. Events!Count(b.of) \in Nat
      <3>1. \A x \in AggregateSet : x.count \in Nat
        BY DEF AggregateSet
      <3> QED
        BY <2>3, <3>1, CountOf
    <2>5. E' = E
      BY <2>1 DEF Events!Events
    <2>6. delivered' \in Nat /\ unresolved' \in Nat
      BY <1>0, <2>1, <2>3, <2>4, SMTT(30)
    <2>7. Events!EventsAccounted'
      <3>1. sensor # "signals" => delivered' + unresolved' = delivered + unresolved + inSent
        <4>1. sensor # "signals" =>
                /\ Events!Count(b.of) + b.dropped = inSent
                /\ unresolved' = unresolved + b.dropped
          BY <1>0, <2>1, <2>3 DEF Events!Sensors
        <4>2. \A d, u, k, x \in Nat : (d + k) + (u + x) = d + u + (k + x)
          OBVIOUS
        <4>3. (delivered + Events!Count(b.of)) + (unresolved + b.dropped)
                = delivered + unresolved + (Events!Count(b.of) + b.dropped)
          BY <1>0, <2>3, <2>4, <4>2
        <4> QED
          BY <2>1, <4>1, <4>3, Zenon
      <3> HIDE DEF E
      <3>2. sensor # "signals" => Balance(emitted, Len(ring), Len(queue), 0, skipped,
                                          delivered', unresolved', lost, drops)
        BY <1>0, <1>00, <2>6, <3>1, Balanced
      <3> QED
        BY <1>00, <2>1, <3>2
    <2>8. Events!ShownOfCause'
      BY <2>1, <2>3 DEF Events!ShownOfCause
    <2> HIDE DEF E
    <2> QED
      BY <2>1, <2>3, <2>5, <2>6, <2>7, <2>8 DEF EventsInv, E
  <1> QED
    BY <1>1, <1>2, <1>3, <1>4, <1>5, <1>6, <1>7, <1>8 DEF Events!Next

\* The properties of ActivityEvents do not see the rest of MCObservation.
LEMMA AboutEvents ==
  /\ MCInit /\ which = "events" => Events!Init
  /\ [MCNext]_allVars /\ which = "events" => which' = "events" /\ [Events!Next]_(Events!vars)
  /\ [MCNext]_allVars /\ which # "events" => which' # "events"
  BY DEF MCInit, MCNext, allVars, eventOnly, eventCpu, Events!vars, Events!kernelVars,
         Events!helperVars, Events!serverVars

\* Every file and IPC event is on its way, shown or in a counter, once, whatever ring,
\* queue, channel and batch discard; and what is shown is of the process that caused it
\* although pids are reused: for any limits that let the server aggregate all file
\* events the helper queues (files.rs, ipc.rs, signals.rs, analysis/activity.rs).
THEOREM EventsCounted ==
  ASSUME EventLimits, EventsApart
  PROVE  MCSpec => []EventsAccounted
  <1> DEFINE Checked == which = "events" => EventsInv
  <1>1. ASSUME Events!Init PROVE EventsInv
    <2> USE <1>1 DEF Events!Init
    <2>1. /\ Len(ring) = 0 /\ Len(queue) = 0 /\ batch.of = <<>>
          /\ ring \in Seq(Events!Events) /\ queue \in Seq(Events!Events)
          /\ batch.of \in Seq(AggregateSet)
      BY DEF Events!NoBatch
    <2>2. Events!EventsAccounted
      BY <2>1 DEF Events!EventsAccounted
    <2>3. Events!ShownOfCause
      BY <2>1 DEF Events!ShownOfCause
    <2> QED
      BY <2>1, <2>2, <2>3 DEF EventsInv, EventLimits
  <1>2. MCInit => Checked
    BY <1>1, AboutEvents
  <1>3. Checked /\ [MCNext]_allVars => Checked'
    BY AboutEvents, EventsStep
  <1>4. Checked => EventsAccounted
    BY DEF EventsInv, EventsAccounted
  <1> HIDE DEF Checked
  <1> QED
    BY <1>2, <1>3, <1>4, PTL DEF MCSpec
=============================================================================
