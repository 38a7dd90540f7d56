------------------------- MODULE HostRegistryProofs -------------------------
(***************************************************************************)
(* Proofs about HostRegistry for any hosts, machines and connections.      *)
(***************************************************************************)
EXTENDS HostRegistry, FiniteSetTheorems, TLAPS

\* Every variable keeps its type, and only offline hosts are due for removal.
THEOREM TypeCorrect == Spec => []TypeOK
  <1> USE DEF Stages, Links
  <1>1. Init => TypeOK
    <2> SUFFICES ASSUME Init PROVE TypeOK
      OBVIOUS
    <2>1. machine \in [Names -> Machines] /\ mach \in [Conns -> Machines]
      BY DEF Init
    <2> QED
      BY <2>1, RegistryAssumption DEF Init, TypeOK
  <1>2. TypeOK /\ [Next]_vars => TypeOK'
    <2> SUFFICES ASSUME TypeOK, [Next]_vars PROVE TypeOK'
      OBVIOUS
    <2> USE DEF TypeOK
    <2>1. ASSUME NEW c \in Conns, NEW n \in Names, NEW m \in Machines, Connect(c, n, m)
          PROVE TypeOK'
      BY <2>1 DEF Connect, SetStage, registryVars, viewVars
    <2>2. ASSUME NEW c \in Conns, PeerDrops(c) \/ Reject(c) \/ WelcomeFails(c)
                   \/ Welcome(c) \/ RelayEnds(c)
          PROVE TypeOK'
      BY <2>2 DEF PeerDrops, Reject, WelcomeFails, Welcome, RelayEnds, SetStage,
         registryVars, viewVars
    <2>3. ASSUME NEW c \in Conns, AdmitPrune(c) PROVE TypeOK'
      BY <2>3 DEF AdmitPrune, Prune, SetStage, viewVars
    <2>4. ASSUME NEW c \in Conns, Admit(c) PROVE TypeOK'
      <3>1. CASE Refused(c)
        BY <2>4, <3>1 DEF Admit, SetStage, registryVars, viewVars
      <3>2. CASE ~Refused(c)
        BY <2>4, <3>2 DEF Admit, SetStage, viewVars
      <3> QED
        BY <3>1, <3>2
    <2>5. ASSUME NEW c \in Conns, Disconnected(c) PROVE TypeOK'
      BY <2>5 DEF Disconnected, SetStage, viewVars
    <2>6. ASSUME NEW n \in Names, RetentionElapses(n) PROVE TypeOK'
      BY <2>6 DEF RetentionElapses, connVars, viewVars
    <2>7. CASE Notify
      BY <2>7 DEF Notify, registryVars, connVars, viewVars
    <2>8. CASE Wake \/ ForwardOnline
      BY <2>8 DEF Wake, ForwardOnline, registryVars, connVars
    <2>9. CASE SendHosts
      <3>1. \A n \in Names : <<n, link[n] # NoConn>> \in Names \X BOOLEAN
        OBVIOUS
      <3>2. shown' \subseteq Names \X BOOLEAN
        BY <2>9, <3>1 DEF SendHosts, Prune, Summary
      <3> QED
        BY <2>9, <3>2 DEF SendHosts, Prune, connVars
    <2>10. CASE UNCHANGED vars
      BY <2>10 DEF vars, registryVars, connVars, viewVars
    <2> QED
      BY <2>1, <2>2, <2>3, <2>4, <2>5, <2>6, <2>7, <2>8, <2>9, <2>10 DEF Next, Serve
  <1> QED
    BY <1>1, <1>2, PTL DEF Spec

-----------------------------------------------------------------------------
(* Links                                                                   *)

\* A host's link belongs to a task that has passed admit, and a task's pending
\* table is open until it is replaced or has left.
LEMMA LinksSoundInvariant == Spec => []LinksSound
  <1>1. Init => LinksSound
    BY DEF Init, LinksSound
  <1>2. TypeOK /\ LinksSound /\ [Next]_vars => LinksSound'
    <2> SUFFICES ASSUME TypeOK, LinksSound, [Next]_vars PROVE LinksSound'
      OBVIOUS
    <2> USE DEF TypeOK, LinksSound
    <2>1. ASSUME NEW c \in Conns, NEW n \in Names, NEW m \in Machines, Connect(c, n, m)
          PROVE LinksSound'
      BY <2>1 DEF Connect, SetStage, registryVars, Links, Stages
    <2>2. ASSUME NEW c \in Conns, PeerDrops(c) \/ Reject(c) \/ WelcomeFails(c)
                   \/ Welcome(c) \/ RelayEnds(c)
          PROVE LinksSound'
      BY <2>2 DEF PeerDrops, Reject, WelcomeFails, Welcome, RelayEnds, SetStage,
         registryVars, Links, Stages
    <2>3. ASSUME NEW c \in Conns, AdmitPrune(c) PROVE LinksSound'
      BY <2>3 DEF AdmitPrune, Prune, SetStage, Links, Stages
    <2>4. ASSUME NEW c \in Conns, Admit(c) PROVE LinksSound'
      <3>1. CASE Refused(c)
        BY <2>4, <3>1 DEF Admit, SetStage, registryVars, Links, Stages
      <3>2. CASE ~Refused(c)
        BY <2>4, <3>2, RegistryAssumption DEF Admit, SetStage, Links, Stages
      <3> QED
        BY <3>1, <3>2
    <2>5. ASSUME NEW c \in Conns, Disconnected(c) PROVE LinksSound'
      BY <2>5 DEF Disconnected, SetStage, Links, Stages
    <2>6. ASSUME NEW n \in Names, RetentionElapses(n) PROVE LinksSound'
      BY <2>6 DEF RetentionElapses, connVars
    <2>7. CASE Notify \/ Wake \/ ForwardOnline
      BY <2>7 DEF Notify, Wake, ForwardOnline, registryVars, connVars
    <2>8. CASE SendHosts
      BY <2>8 DEF SendHosts, Prune, connVars
    <2>9. CASE UNCHANGED vars
      BY <2>9 DEF vars, registryVars, connVars
    <2> QED
      BY <2>1, <2>2, <2>3, <2>4, <2>5, <2>6, <2>7, <2>8, <2>9 DEF Next, Serve
  <1> QED
    BY <1>1, <1>2, TypeCorrect, PTL DEF Spec

\* A host is listed online only with an open link that its own machine
\* announced under its own name.
THEOREM OnlineHostsTakeRequests == Spec => []OnlineTakesRequests
  <1>1. LinksSound => OnlineTakesRequests
    BY DEF LinksSound, OnlineTakesRequests
  <1> QED
    BY <1>1, LinksSoundInvariant, PTL

-----------------------------------------------------------------------------
(* The merged view                                                         *)

\* What a merged view knows after each of its steps, as long as no announcement
\* is owed or unseen.
LEMMA ViewSoundInvariant == Spec => []ViewSound
  <1>1. Init => ViewSound
    BY DEF Init, ViewSound
  <1>2. TypeOK /\ ViewSound /\ [Next]_vars => ViewSound'
    <2> SUFFICES ASSUME TypeOK, ViewSound, [Next]_vars PROVE ViewSound'
      OBVIOUS
    <2> USE DEF TypeOK, ViewSound, Summary
    <2>1. ASSUME NEW c \in Conns,
                 (\E n \in Names, m \in Machines : Connect(c, n, m)) \/ PeerDrops(c)
                   \/ Reject(c) \/ WelcomeFails(c) \/ Welcome(c) \/ RelayEnds(c)
          PROVE ViewSound'
      BY <2>1 DEF Connect, PeerDrops, Reject, WelcomeFails, Welcome, RelayEnds,
         registryVars, viewVars
    <2>2. ASSUME NEW c \in Conns, AdmitPrune(c) PROVE ViewSound'
      BY <2>2 DEF AdmitPrune, Prune, viewVars
    <2>3. ASSUME NEW c \in Conns, Admit(c) PROVE ViewSound'
      BY <2>3 DEF Admit, registryVars, viewVars
    <2>4. ASSUME NEW c \in Conns, Disconnected(c) PROVE ViewSound'
      BY <2>4 DEF Disconnected, viewVars
    <2>5. ASSUME NEW n \in Names, RetentionElapses(n) PROVE ViewSound'
      BY <2>5 DEF RetentionElapses, viewVars
    <2>6. CASE Notify
      BY <2>6 DEF Notify
    <2>7. CASE Wake \/ ForwardOnline
      BY <2>7 DEF Wake, ForwardOnline, registryVars
    <2>8. CASE SendHosts
      BY <2>8 DEF SendHosts, Prune
    <2>9. CASE UNCHANGED vars
      BY <2>9 DEF vars, registryVars, viewVars
    <2> QED
      BY <2>1, <2>2, <2>3, <2>4, <2>5, <2>6, <2>7, <2>8, <2>9 DEF Next, Serve
  <1> QED
    BY <1>1, <1>2, TypeCorrect, PTL DEF Spec

\* A merged view that has seen every announcement shows the current hosts and
\* forwards the current links, however changes and its steps interleave.
THEOREM ViewsMissNothing == Spec => []NoMissedChange
  <1>1. ViewSound => NoMissedChange
    BY DEF ViewSound, NoMissedChange
  <1> QED
    BY <1>1, ViewSoundInvariant, PTL

-----------------------------------------------------------------------------
(* What a step may not do                                                  *)

\* Only the task of the current link takes a host offline.
THEOREM ReplacedLinksAreHarmless == Spec => ReplacedLinkHarmless
  <1>1. ASSUME TypeOK, [Next]_vars, NEW n \in Names, link[n] # NoConn, link'[n] = NoConn
        PROVE  stage[link[n]] = "leaving"
    <2> USE DEF TypeOK
    <2>1. ASSUME link' = link PROVE FALSE
      BY <1>1, <2>1
    <2>2. ASSUME NEW c \in Conns, Admit(c) PROVE FALSE
      BY <1>1, <2>1, <2>2, RegistryAssumption DEF Admit, registryVars
    <2>3. ASSUME NEW c \in Conns, Disconnected(c) PROVE stage[link[n]] = "leaving"
      BY <1>1, <2>3 DEF Disconnected
    <2> QED
      BY <1>1, <2>1, <2>2, <2>3
      DEF Next, Serve, Connect, PeerDrops, Reject, WelcomeFails, Welcome, RelayEnds,
          AdmitPrune, Prune, RetentionElapses, Notify, Wake, ForwardOnline, SendHosts,
          registryVars, vars
  <1>2. TypeOK /\ [Next]_vars =>
          [\A n \in Names : link[n] # NoConn /\ link'[n] = NoConn
             => stage[link[n]] = "leaving"]_vars
    BY <1>1
  <1> QED
    BY <1>2, TypeCorrect, PTL DEF Spec, ReplacedLinkHarmless

\* A name passes from one online link to another only on the same machine.
THEOREM NamesAreKept == Spec => NameKept
  <1>1. ASSUME TypeOK, LinksSound, [Next]_vars, NEW n \in Names, link[n] # NoConn,
               link'[n] # NoConn
        PROVE  mach[link[n]] = mach[link'[n]]
    <2> USE DEF TypeOK
    <2>1. ASSUME link' = link PROVE mach[link[n]] = mach[link'[n]]
      BY <2>1
    <2>2. ASSUME NEW c \in Conns, Admit(c) PROVE mach[link[n]] = mach[link'[n]]
      <3>0. link' = link \/ (~Refused(c) /\ link' = [link EXCEPT ![name[c]] = c])
        BY <2>2 DEF Admit, registryVars
      <3>1. CASE Refused(c) \/ name[c] # n
        <4>1. link'[n] = link[n]
          BY <1>1, <3>0, <3>1
        <4> QED
          BY <4>1
      <3>2. CASE ~Refused(c) /\ name[c] = n
        <4>1. link'[n] = c \/ link'[n] = link[n]
          BY <1>1, <3>0, <3>2
        <4>2. n \in listed /\ mach[link[n]] = machine[n]
          BY <1>1 DEF LinksSound
        <4>3. machine[n] = mach[c]
          BY <1>1, <3>2, <4>2 DEF Refused
        <4> QED
          BY <4>1, <4>2, <4>3
      <3> QED
        BY <3>1, <3>2
    <2>3. ASSUME NEW c \in Conns, Disconnected(c) PROVE mach[link[n]] = mach[link'[n]]
      BY <1>1, <2>3 DEF Disconnected
    <2> QED
      BY <1>1, <2>1, <2>2, <2>3
      DEF Next, Serve, Connect, PeerDrops, Reject, WelcomeFails, Welcome, RelayEnds,
          AdmitPrune, Prune, RetentionElapses, Notify, Wake, ForwardOnline, SendHosts,
          registryVars, vars
  <1>2. TypeOK /\ LinksSound /\ [Next]_vars =>
          [\A n \in Names : link[n] # NoConn /\ link'[n] # NoConn
             => mach[link[n]] = mach[link'[n]]]_vars
    BY <1>1
  <1> QED
    BY <1>2, TypeCorrect, LinksSoundInvariant, PTL DEF Spec, NameKept

-----------------------------------------------------------------------------
(* The limit                                                               *)

\* The hub never lists more hosts than its limit.
THEOREM LimitIsKept == Spec => []LimitKept
  <1> DEFINE I == IsFiniteSet(listed) /\ Cardinality(listed) <= HostLimit
  <1>1. Init => I
    BY FS_EmptySet, RegistryAssumption DEF Init
  <1>2. TypeOK /\ I /\ [Next]_vars => I'
    <2> SUFFICES ASSUME TypeOK, I, [Next]_vars PROVE I'
      OBVIOUS
    <2>1. ASSUME listed' = listed PROVE I'
      BY <2>1
    <2>2. ASSUME Prune PROVE I'
      <3>1. IsFiniteSet(listed') /\ Cardinality(listed') <= Cardinality(listed)
        BY <2>2, FS_Subset DEF Prune
      <3>2. Cardinality(listed) \in Nat /\ Cardinality(listed') \in Nat
        BY <3>1, FS_CardinalityType
      <3> QED
        BY <3>1, <3>2, RegistryAssumption
    <2>3. ASSUME NEW c \in Conns, Admit(c) PROVE I'
      <3>1. CASE listed' = listed
        BY <2>1, <3>1
      <3>2. CASE listed' # listed
        <4>1. listed' = listed \cup {name[c]} /\ name[c] \notin listed
                /\ ~(Cardinality(listed) >= HostLimit)
          BY <2>3, <3>2 DEF Admit, Refused, registryVars
        <4>2. IsFiniteSet(listed') /\ Cardinality(listed') = Cardinality(listed) + 1
          BY <4>1, FS_AddElement
        <4>3. Cardinality(listed) \in Nat
          BY FS_CardinalityType
        <4> QED
          BY <4>1, <4>2, <4>3, RegistryAssumption
      <3> QED
        BY <3>1, <3>2
    <2> QED
      BY <2>1, <2>2, <2>3
      DEF Next, Serve, Connect, PeerDrops, Reject, WelcomeFails, Welcome, RelayEnds,
          AdmitPrune, Disconnected, RetentionElapses, Notify, Wake, ForwardOnline,
          SendHosts, registryVars, vars
  <1>3. I => LimitKept
    BY DEF LimitKept
  <1> QED
    BY <1>1, <1>2, <1>3, TypeCorrect, PTL DEF Spec

=============================================================================
