----------------------- MODULE HostsProofs -----------------------
(***************************************************************************)
(* Proofs about what travels between hosts and to the pages.               *)
(* SnapshotDelivery, for every set of processes, addresses and entries:    *)
(* Changed undoes Change; with it LinedUp and the types are inductive,     *)
(* merging never fails, and the delivery implements the feed.              *)
(* RdmaRelations and, with the proofs of AgentLinkProofs, AgentLink: each  *)
(* theorem is about the component alone and about the behaviours of        *)
(* MCHosts, where it is one of several.                                    *)
(***************************************************************************)
EXTENDS MCHosts, FiniteSetTheorems, TLAPS

\* Applying the change between two keyed arrays to the old one gives the new
\* one: mergeSnapshot undoes build_array_delta.
LEMMA ChangeApplies ==
  ASSUME NEW K, NEW old \in [K -> Entries \cup {Absent}], NEW new \in [K -> Entries \cup {Absent}]
  PROVE  Changed(old, Change(old, new)) = new
<1> DEFINE d == Change(old, new)
<1>1. \A k \in K : d.upsert[k] = IF new[k] # old[k] THEN new[k] ELSE Absent
  BY DEF Change
<1>2. \A k \in K : k \in d.remove <=> old[k] # Absent /\ new[k] = Absent
  BY DEF Change
<1> HIDE DEF d
<1>3. \A k \in K : (IF d.upsert[k] # Absent THEN d.upsert[k]
                    ELSE IF k \in d.remove THEN Absent ELSE old[k]) = new[k]
  BY <1>1, <1>2
<1>4. QED
  BY <1>3 DEF Changed, d

\* build_array_delta returns upserts and removals of the array's own keys.
LEMMA ChangeType ==
  ASSUME NEW K, NEW old \in [K -> Entries \cup {Absent}], NEW new \in [K -> Entries \cup {Absent}]
  PROVE  Change(old, new) \in ChangeOf(K)
BY DEF Change, ChangeOf

\* encode builds an update of the right shape.
LEMMA EncodedType ==
  ASSUME TypeOK, NEW x \in Snapshot, NEW e \in Epochs, NEW full \in BOOLEAN,
         NEW byDelta \in SUBSET Procs, NEW relDelta \in BOOLEAN
  PROVE  /\ EncodedEpochs(previous, x, e, full) \in [Procs -> Nat]
         /\ Encoded(previous, sequence + 1, x, e, full, byDelta, relDelta) \in Update
<1>1. EncodedEpochs(previous, x, e, full) \in [Procs -> Nat]
  BY DeliveryAssumption DEF EncodedEpochs, TypeOK
<1>2. ASSUME NEW p \in Procs
      PROVE  EncodedMaps(previous, x, full, byDelta)[p] \in
               [how : {"gone", "same", "delta", "whole"},
                data : Maps \cup {Gone} \cup ChangeOf(Addrs)]
  <2> DEFINE how == How(previous, x, full, byDelta, p)
  <2>1. how \in {"gone", "same", "delta", "whole"}
    BY DEF How
  <2>2. x.maps[p] \in Maps \cup {Gone} /\ previous.maps[p] \in Maps \cup {Gone}
    BY DEF Snapshot, TypeOK
  <2>3. how = "delta" => Change(previous.maps[p], x.maps[p]) \in ChangeOf(Addrs)
    BY <2>2, ChangeType DEF How, Maps
  <2>4. QED
    BY <2>1, <2>2, <2>3 DEF EncodedMaps
<1>3. EncodedMaps(previous, x, full, byDelta) \in
        [Procs -> [how : {"gone", "same", "delta", "whole"},
                   data : Maps \cup {Gone} \cup ChangeOf(Addrs)]]
  <2>1. EncodedMaps(previous, x, full, byDelta) =
          [p \in Procs |-> EncodedMaps(previous, x, full, byDelta)[p]]
    BY DEF EncodedMaps
  <2>2. QED
    BY <1>2, <2>1
<1>4. Change(previous.rels, x.rels) \in ChangeOf(Ids) /\ x.rels \in Rels
  BY ChangeType DEF Snapshot, Rels, TypeOK
<1>5. sequence + 1 \in Nat /\ sequence + 1 - 1 \in Nat
  BY DEF TypeOK
<1>6. (~full /\ relDelta) \in BOOLEAN
  OBVIOUS
<1>7. (IF ~full /\ relDelta THEN Change(previous.rels, x.rels) ELSE x.rels)
         \in Rels \cup ChangeOf(Ids)
  BY <1>4
<1> DEFINE maps == EncodedMaps(previous, x, full, byDelta)
           stamps == EncodedEpochs(previous, x, e, full)
           rels == IF ~full /\ relDelta THEN Change(previous.rels, x.rels) ELSE x.rels
           short == ~full /\ relDelta
           n == sequence + 1
           b == n - 1
<1>8. Encoded(previous, n, x, e, full, byDelta, relDelta) =
        [full |-> full, sequence |-> n, base |-> b, maps |-> maps, epochs |-> stamps,
         relDelta |-> short, rels |-> rels]
  BY DEF Encoded
<1>9. b \in Nat /\ n \in Nat
  <2>1. sequence \in Nat
    BY DEF TypeOK
  <2>2. QED
    BY <2>1
<1> HIDE DEF maps, stamps, rels, short, n, b
<1>10. Encoded(previous, n, x, e, full, byDelta, relDelta) \in Update
  BY <1>1, <1>3, <1>6, <1>7, <1>8, <1>9 DEF Update, maps, stamps, rels, short
<1>11. QED
  BY <1>1, <1>10 DEF n

\* encode sends the snapshot: whole, or as a change of the previous one.
LEMMA EncodedCarries ==
  ASSUME TypeOK, LinedUp, NEW x \in Snapshot, NEW e \in Epochs, NEW full \in BOOLEAN,
         NEW byDelta \in SUBSET Procs, NEW relDelta \in BOOLEAN,
         sequence = 0 => full, served' = Append(served, x),
         NEW u, NEW n, n = sequence + 1,
         u = Encoded(previous, n, x, e, full, byDelta, relDelta)
  PROVE  Carries(u, n)'
<1>1. served'[n] = x /\ (n > 1 => served'[n - 1] = previous)
  BY DEF TypeOK, LinedUp
<1>2. /\ u.full = full /\ u.sequence = n /\ u.base = n - 1
      /\ u.maps = EncodedMaps(previous, x, full, byDelta)
      /\ u.relDelta = (~full /\ relDelta)
      /\ u.rels = IF ~full /\ relDelta THEN Change(previous.rels, x.rels) ELSE x.rels
  BY DEF Encoded
<1>3. n \in Nat /\ n >= 1 /\ (~full => n > 1)
  BY DEF TypeOK
<1>4. ASSUME NEW p \in Procs
      PROVE  /\ full => u.maps[p].how \in {"gone", "whole"}
             /\ CASE u.maps[p].how = "delta" ->
                      /\ previous.maps[p] # Gone /\ x.maps[p] # Gone /\ ~full
                      /\ u.maps[p].data = Change(previous.maps[p], x.maps[p])
                  [] u.maps[p].how = "same" -> x.maps[p] = previous.maps[p] /\ ~full
                  [] OTHER -> u.maps[p].data = x.maps[p]
  BY <1>2, <1>4 DEF EncodedMaps, How
<1>5. QED
  BY <1>1, <1>2, <1>3, <1>4, ZenonT(60) DEF Carries

\* The page merges what carries the next snapshot, and then holds it.
LEMMA MergeShows ==
  ASSUME TypeOK, LinedUp, wire # <<>>
  PROVE  /\ Mergeable(Head(wire))
         /\ Merged(Head(wire)).sequence = Shown + 1
         /\ Merged(Head(wire)).snapshot = served[Shown + 1]
<1> DEFINE u == Head(wire)
           n == Shown + 1
           old == page.snapshot
           x == served[n]
<1>1. n \in 1..Len(served) /\ Carries(u, n) /\ u \in Update
  BY DEF TypeOK, LinedUp, Shown
<1>2. ~u.full => n > 1 /\ page.sequence = n - 1 /\ old = served[n - 1]
  BY <1>1 DEF Carries, TypeOK, LinedUp, Shown
<1>3. x \in Snapshot /\ old \in Snapshot
  BY <1>1 DEF TypeOK
<1> HIDE DEF n, u, old, x
<1>4. Mergeable(u)
  <2>1. u.full \/ (page.sequence # 0 /\ u.base = page.sequence)
    BY <1>1, <1>2 DEF Carries
  <2>2. ASSUME NEW p \in Procs, u.maps[p].how = "delta"
        PROVE  ~u.full /\ page.snapshot.maps[p] # Gone
    BY <1>1, <1>2, <2>2 DEF Carries, old
  <2>3. QED
    BY <2>1, <2>2 DEF Mergeable
<1>5. ASSUME NEW p \in Procs
      PROVE  MergedMaps(u)[p] = x.maps[p]
  BY <1>1, <1>2, <1>3, <1>5, ChangeApplies
    DEF MergedMaps, Carries, old, x, Snapshot, Maps
<1>6. MergedMaps(u) = x.maps
  BY <1>3, <1>5 DEF MergedMaps, Snapshot
<1>7. (IF u.relDelta THEN Changed(old.rels, u.rels) ELSE u.rels) = x.rels
  BY <1>1, <1>2, <1>3, ChangeApplies DEF Carries, x, Snapshot, Rels
<1>8. x = [maps |-> x.maps, rels |-> x.rels]
  BY <1>3 DEF Snapshot
<1>9. QED
  BY <1>1, <1>4, <1>6, <1>7, <1>8 DEF Merged, Carries, old, u, n, x

-----------------------------------------------------------------------------
\* A page that has not connected and a fresh encoder line up.
LEMMA InitSound == Init => TypeOK /\ LinedUp
<1> SUFFICES ASSUME Init PROVE TypeOK /\ LinedUp
  OBVIOUS
<1>1. Empty \in Snapshot /\ NoEpochs \in [Procs -> Nat]
  BY DEF Empty, Snapshot, Rels, NoEpochs
<1>2. TypeOK
  <2>1. page \in [sequence : Nat, epochs : [Procs -> Nat], snapshot : Snapshot]
    <3> HIDE DEF Empty, Snapshot, NoEpochs
    <3>1. QED
      BY <1>1 DEF Init
  <2>2. epochs \in [Procs -> Nat] /\ previous \in Snapshot
    BY <1>1 DEF Init
  <2>3. sequence \in Nat /\ connections \in Nat
    BY DEF Init
  <2>4. wire \in Seq(Update) /\ served \in Seq(Snapshot)
    BY DEF Init
  <2>5. source \in BOOLEAN
    BY DEF Init
  <2>6. QED
    BY <2>1, <2>2, <2>3, <2>4, <2>5 DEF TypeOK
<1>3. LinedUp
  BY DEF Init, LinedUp, Shown
<1>4. QED
  BY <1>2, <1>3

\* Encoding a snapshot (encode_sse_events) keeps both sides lined up.
LEMMA DeliverSound ==
  ASSUME TypeOK, LinedUp, NEW x \in Snapshot, NEW e \in Epochs, NEW forced \in BOOLEAN,
         Deliver(x, e, forced)
  PROVE  TypeOK' /\ LinedUp'
<1>1. PICK full \in BOOLEAN, byDelta \in SUBSET Procs, relDelta \in BOOLEAN :
        /\ WholeDue(forced) => full
        /\ wire' = Append(wire, Encoded(previous, sequence + 1, x, e, full, byDelta, relDelta))
        /\ epochs' = EncodedEpochs(previous, x, e, full)
  BY DEF Deliver
<1>2. PICK u : u = Encoded(previous, sequence + 1, x, e, full, byDelta, relDelta)
  OBVIOUS
<1>3. PICK n : n = sequence + 1
  OBVIOUS
<1>4. u \in Update /\ epochs' \in [Procs -> Nat]
  BY <1>1, <1>2, EncodedType
<1>5. /\ sequence' = sequence + 1 /\ previous' = x /\ served' = Append(served, x)
      /\ wire' = Append(wire, u)
      /\ UNCHANGED <<source, connections, page>> /\ source
  BY <1>1, <1>2 DEF Deliver
<1>6. TypeOK'
  BY <1>4, <1>5 DEF TypeOK
<1>7. Carries(u, n)'
  BY <1>1, <1>2, <1>3, <1>5, EncodedCarries DEF WholeDue
<1>8. /\ sequence' = Len(served') /\ Len(wire') <= Len(served')
      /\ previous' = served'[sequence'] /\ Shown' = Shown
  BY <1>5 DEF TypeOK, LinedUp, Shown
<1>9. \A i \in 1..Len(served) : served'[i] = served[i]
  BY <1>5 DEF TypeOK
<1>10. Shown' > 0 => page'.sequence = Shown' /\ page'.snapshot = served'[Shown']
  BY <1>5, <1>8, <1>9 DEF TypeOK, LinedUp, Shown
<1>11. ASSUME NEW i \in 1..Len(wire')
       PROVE  Carries(wire[i], Shown + i)'
  <2>1. CASE i = Len(wire')
    BY <1>3, <1>5, <1>7, <1>8, <2>1 DEF TypeOK, LinedUp, Shown
  <2>2. CASE i # Len(wire')
    <3>1. i \in 1..Len(wire) /\ wire'[i] = wire[i]
      BY <1>5, <2>2 DEF TypeOK
    <3>2. Carries(wire[i], Shown + i)
      BY <3>1 DEF LinedUp
    <3>3. Shown + i \in 1..Len(served) /\ Shown + i \in Nat
      BY <3>1 DEF TypeOK, LinedUp, Shown
    <3>4. PICK v, k : v = wire[i] /\ k = Shown + i
      OBVIOUS
    <3>5. Carries(v, k) /\ k \in 1..Len(served) /\ k \in Nat
      BY <3>2, <3>3, <3>4
    <3>6. ~v.full => k - 1 \in 1..Len(served)
      BY <3>5 DEF Carries
    <3>7. served'[k] = served[k] /\ (~v.full => served'[k - 1] = served[k - 1])
      BY <1>9, <3>5, <3>6
    <3>8. Carries(v, k)'
      BY <3>5, <3>7, ZenonT(60) DEF Carries
    <3>9. wire'[i] = v /\ Shown' + i = k
      BY <1>8, <3>1, <3>4
    <3>10. QED
      BY <3>8, <3>9
  <2>3. QED
    BY <2>1, <2>2
<1>12. QED
  BY <1>5, <1>6, <1>8, <1>10, <1>11 DEF LinedUp

\* So does merging the next update (the "snapshot" listener),
LEMMA ReceiveSound ==
  ASSUME TypeOK, LinedUp, Receive
  PROVE  TypeOK' /\ LinedUp'
<1>1. /\ wire # <<>> /\ wire' = Tail(wire) /\ page' = Merged(Head(wire))
      /\ UNCHANGED <<encoder, source, connections, served>>
  BY DEF Receive
<1>2. Merged(Head(wire)).sequence = Shown + 1 /\ Merged(Head(wire)).snapshot = served[Shown + 1]
  BY <1>1, MergeShows
<1>3. Head(wire) \in Update /\ Shown + 1 \in 1..Len(served) /\ Shown' = Shown + 1
  BY <1>1 DEF TypeOK, LinedUp, Shown
<1>4. MergedEpochs(Head(wire)) \in [Procs -> Nat]
  BY <1>3 DEF MergedEpochs, TypeOK, Update
<1>5. page' \in [sequence : Nat, epochs : [Procs -> Nat], snapshot : Snapshot]
  <2>1. served[Shown + 1] \in Snapshot /\ Shown + 1 \in Nat
    BY <1>3 DEF TypeOK
  <2>2. page' = [sequence |-> Shown + 1, epochs |-> MergedEpochs(Head(wire)),
                 snapshot |-> served[Shown + 1]]
    BY <1>1, <1>2 DEF Merged
  <2>3. QED
    BY <1>4, <2>1, <2>2
<1>6. TypeOK'
  BY <1>1, <1>5 DEF TypeOK, encoder
<1>7. ASSUME NEW i \in 1..Len(wire')
      PROVE  Carries(wire[i], Shown + i)'
  <2>1. i + 1 \in 1..Len(wire) /\ wire'[i] = wire[i + 1] /\ Shown' + i = Shown + (i + 1)
    BY <1>1, <1>3 DEF TypeOK, LinedUp, Shown
  <2>2. Carries(wire[i + 1], Shown + (i + 1))
    BY <2>1 DEF LinedUp
  <2>3. QED
    BY <1>1, <2>1, <2>2 DEF Carries
<1>8. QED
  BY <1>1, <1>2, <1>3, <1>6, <1>7 DEF LinedUp, encoder, TypeOK

\* and so does every step.
LEMMA NextSound == TypeOK /\ LinedUp /\ [Next]_vars => TypeOK' /\ LinedUp'
<1> SUFFICES ASSUME TypeOK, LinedUp, [Next]_vars PROVE TypeOK' /\ LinedUp'
  OBVIOUS
<1>1. CASE Connect
  BY <1>1 DEF Connect, TypeOK, LinedUp, Carries, Shown, encoder
<1>2. ASSUME NEW x \in Snapshot, NEW e \in Epochs, NEW forced \in BOOLEAN, Deliver(x, e, forced)
      PROVE  TypeOK' /\ LinedUp'
  BY <1>2, DeliverSound
<1>3. CASE Receive
  BY <1>3, ReceiveSound
<1>4. CASE Lost
  <2>1. Empty \in Snapshot /\ NoEpochs \in [Procs -> Nat]
    BY DEF Empty, Snapshot, Rels, NoEpochs
  <2>2. TypeOK'
    <3>1. sequence' \in Nat /\ epochs' \in [Procs -> Nat] /\ previous' \in Snapshot
      BY <1>4, <2>1 DEF Lost
    <3>2. wire' \in Seq(Update) /\ served' \in Seq(Snapshot)
      BY <1>4 DEF Lost
    <3>3. source' \in BOOLEAN /\ UNCHANGED <<connections, page>>
      BY <1>4 DEF Lost
    <3>4. QED
      BY <3>1, <3>2, <3>3 DEF TypeOK
  <2>3. LinedUp'
    BY <1>4 DEF Lost, LinedUp, Shown
  <2>4. QED
    BY <2>2, <2>3
<1>5. CASE UNCHANGED vars
  BY <1>5 DEF vars, encoder, TypeOK, LinedUp, Carries, Shown
<1>6. QED
  BY <1>1, <1>2, <1>3, <1>4, <1>5 DEF Next

-----------------------------------------------------------------------------
\* The encoder, the wire and the page keep their shapes.
THEOREM TypeCorrect == Spec => []TypeOK
<1>1. QED
  BY InitSound, NextSound, PTL DEF Spec

\* The encoder's baseline, the updates on their way and the page line up.
THEOREM BaselinesLineUp == Spec => []LinedUp
<1>1. QED
  BY InitSound, NextSound, PTL DEF Spec

\* mergeSnapshot never throws on what the encoder of the connection sent.
THEOREM MergingNeverFails == Spec => []AlwaysMergeable
<1>1. TypeOK /\ LinedUp => AlwaysMergeable
  BY MergeShows DEF AlwaysMergeable
<1>2. QED
  BY <1>1, TypeCorrect, BaselinesLineUp, PTL

\* Every step of the delivery is a step of the feed or leaves it alone.
LEMMA StepImplements ==
  ASSUME TypeOK, LinedUp, [Next]_vars
  PROVE  [Feed!FeedNext]_(Feed!feedVars)
<1> USE DEF Feed!FeedNext, Feed!feedVars
<1>1. CASE Connect
  BY <1>1 DEF Connect, Shown
<1>2. ASSUME NEW x \in Snapshot, NEW e \in Epochs, NEW forced \in BOOLEAN, Deliver(x, e, forced)
      PROVE  Feed!Serve(x)
  <2>1. Len(wire') = Len(wire) + 1 /\ served' = Append(served, x) /\ page' = page
    BY <1>2 DEF Deliver, TypeOK
  <2>2. Shown' = Shown
    BY <2>1 DEF Shown, TypeOK
  <2>3. QED
    BY <2>1, <2>2 DEF Feed!Serve
<1>3. CASE Receive
  <2>1. wire # <<>> /\ Len(wire') = Len(wire) - 1 /\ served' = served
    BY <1>3 DEF Receive, TypeOK
  <2>2. Shown' = Shown + 1 /\ Shown < Len(served)
    BY <2>1 DEF Shown, TypeOK, LinedUp
  <2>3. page'.snapshot = served[Shown + 1]
    BY <1>3, <2>1, MergeShows DEF Receive
  <2>4. Feed!Show
    BY <2>1, <2>2, <2>3 DEF Feed!Show
  <2>5. QED
    BY <2>4
<1>4. CASE Lost
  <2>1. Feed!Restart
    BY <1>4 DEF Lost, Feed!Restart, Shown
  <2>2. QED
    BY <2>1
<1>5. CASE UNCHANGED vars
  BY <1>5 DEF vars, Shown
<1>6. QED
  BY <1>1, <1>2, <1>3, <1>4, <1>5 DEF Next

\* The page shows every snapshot of a connection exactly as it was given to
\* the encoder, in order and none skipped.
THEOREM DeliveryImplementsFeed == Spec => ImplementsFeed
<1>1. Init => Feed!FeedInit
  <2> SUFFICES ASSUME Init PROVE Feed!FeedInit
    OBVIOUS
  <2>1. page.snapshot \in Snapshot
    BY InitSound DEF TypeOK
  <2>2. QED
    BY <2>1 DEF Init, Feed!FeedInit, Shown
<1>2. TypeOK /\ LinedUp /\ [Next]_vars => [Feed!FeedNext]_(Feed!feedVars)
  BY StepImplements
<1>3. QED
  BY <1>1, <1>2, TypeCorrect, BaselinesLineUp, PTL DEF Spec, ImplementsFeed, Feed!FeedSpec

-----------------------------------------------------------------------------
(* RdmaRelations: a queue pair is shown once, and with its own peer.       *)

\* A behaviour of MCHosts about queue pairs is one of RdmaRelations, for good.
LEMMA AboutQueuePairs ==
  /\ MCInit /\ which = "rdma" => Rdma!Init
  /\ which = "rdma" /\ [MCNext]_<<which, vars, linkVars, rdmaVars>>
       => which' = "rdma" /\ [Rdma!Next]_Rdma!vars
  /\ which # "rdma" /\ [MCNext]_<<which, vars, linkVars, rdmaVars>> => which' # "rdma"
  BY DEF MCInit, RdmaInit, MCNext, rdmaVars, Rdma!vars

RdmaType ==
  /\ peer \in [Qps -> Qps \cup {None}] /\ Rdma!Pairing(peer) /\ cm = [q \in Qps |-> cm[q]]
  /\ qpTable = [d \in Rdma!Devices |-> qpTable[d]] /\ cmTable = [d \in Rdma!Devices |-> cmTable[d]]
  /\ relations = [h \in Rdma!Hosts |-> relations[h]]

\* The tables of a device are about its queue pairs, each once, and true of those
\* that kept their connection.
QpRows ==
  \A d \in Rdma!Devices : qpTable[d] # None =>
    \A e \in qpTable[d] :
      /\ e.qp \in Qps /\ e.qp[1] = d
      /\ e.qp \notin changed => e = Rdma!ParseQueuePair(e.qp)
      /\ \A f \in qpTable[d] : f.qp = e.qp => f = e
CmRows ==
  \A d \in Rdma!Devices : \A q \in DOMAIN cmTable[d] :
    /\ q \in Qps /\ q[1] = d
    /\ q \notin changed => peer[q] # None /\ cmTable[d][q] = Rdma!ParseCmId(q)

\* What a relation keeps of its first end: its addresses, if any, name its peer.
EndKnown(a) ==
  /\ a.qp \in Qps /\ a.cm = Rdma!CmOf(a.qp)
  /\ a.port # None => a.port = <<a.qp[1], 0>>
  /\ a.qp \notin changed =>
       /\ a.remote # None => peer[a.qp] # None /\ a.remote = peer[a.qp][2]
       /\ a.gid # None => peer[a.qp] # None /\ a.gid = Rdma!UsedGid(peer[a.qp][1])

Built ==
  \A h \in Rdma!Hosts : relations[h] # None =>
    \A r \in relations[h] :
      /\ EndKnown(r.first) /\ HostOf[r.first.qp[1]] = h
      /\ r.second # None => r.second \in Qps /\ HostOf[r.second[1]] = h

RdmaInv == RdmaType /\ QpRows /\ CmRows /\ Built /\ Rdma!EntriesInOne /\ Rdma!PairsConnected

\* Queue pairs and hosts are numbered, and None is none of the values it stands
\* beside.
RdmaAssumed ==
  /\ Qps \subseteq Nat \X Nat /\ HostOf \in [Rdma!Devices -> Nat] /\ None \notin Qps
  /\ \A v, w, x, y, z : None # [qp |-> v, remote |-> w, cm |-> x, gid |-> y, port |-> z]

LEMMA Numbered ==
  ASSUME RdmaAssumed, NEW q \in Qps
  PROVE  /\ q = <<q[1], q[2]>> /\ q[1] \in Nat /\ q[2] \in Nat /\ q # None
         /\ q[1] \in Rdma!Devices /\ HostOf[q[1]] \in Nat /\ HostOf[q[1]] \in Rdma!Hosts
  <1>1. q \in Nat \X Nat /\ q[1] \in Rdma!Devices
    BY DEF RdmaAssumed, Rdma!Devices
  <1> QED
    BY <1>1 DEF RdmaAssumed, Rdma!Hosts

\* Two ends with each other's numbers and with addresses that agree are connected.
LEMMA Joined ==
  ASSUME RdmaAssumed, RdmaType, CmRows, NEW a, NEW b, EndKnown(a), EndKnown(b),
         a.qp \notin changed, b.qp \notin changed, a.remote # None, b.remote # None,
         Rdma!Swapped(a, b), TRUE \in Rdma!Evidence(a, b)
  PROVE  peer[a.qp] = b.qp
  <1> DEFINE p == a.qp
             q == b.qp
  <1>1. p \in Qps /\ q \in Qps /\ peer[p] \in Qps /\ peer[q] \in Qps
    BY DEF EndKnown, RdmaType
  <1>2. peer[p][2] = q[2] /\ peer[q][2] = p[2]
    BY DEF EndKnown, Rdma!Swapped
  <1>3. peer[peer[q]] = q
    BY <1>1, Numbered DEF RdmaType, Rdma!Pairing
  <1>4. peer[p][1] = q[1] \/ peer[q][1] = p[1]
    <2>1. CASE TRUE \in Rdma!GidMatch(a, b)
      <3>1. a.gid # None /\ b.port # None /\ a.gid = b.port
        BY <2>1 DEF Rdma!GidMatch
      <3>2. <<peer[p][1], GidIndex[peer[p][1]]>> = <<q[1], 0>>
        BY <3>1 DEF EndKnown, Rdma!UsedGid
      <3> QED
        BY <3>2
    <2>2. CASE TRUE \in Rdma!GidMatch(b, a)
      <3>1. b.gid # None /\ a.port # None /\ b.gid = a.port
        BY <2>2 DEF Rdma!GidMatch
      <3>2. <<peer[q][1], GidIndex[peer[q][1]]>> = <<p[1], 0>>
        BY <3>1 DEF EndKnown, Rdma!UsedGid
      <3> QED
        BY <3>2
    <2>3. CASE TRUE \in Rdma!CmMatch(a, b)
      <3>1. /\ a.cm # None /\ b.cm # None /\ a.cm.kind # "bare" /\ b.cm.kind # "bare"
            /\ a.cm.source = b.cm.destination
        BY <2>3 DEF Rdma!CmMatch
      <3>2. a.cm = Rdma!ParseCmId(p) /\ b.cm = Rdma!ParseCmId(q)
        BY <1>1, <3>1, Numbered DEF EndKnown, Rdma!CmOf, CmRows
      <3>3. a.cm.source = Rdma!Address(peer[p], p) /\ b.cm.destination = Rdma!Address(q, peer[q])
        BY <3>1, <3>2 DEF Rdma!ParseCmId
      <3>4. Rdma!Address(peer[p], p)[1] = p[1] /\ Rdma!Address(q, peer[q])[1] = peer[q][1]
        BY DEF Rdma!Address
      <3> QED
        BY <3>1, <3>3, <3>4
    <2> QED
      BY <2>1, <2>2, <2>3 DEF Rdma!Evidence
  <1>5. /\ peer[p] = <<peer[p][1], peer[p][2]>> /\ q = <<q[1], q[2]>>
        /\ peer[q] = <<peer[q][1], peer[q][2]>> /\ p = <<p[1], p[2]>>
    BY <1>1, Numbered
  <1>6. peer[p] = q \/ peer[q] = p
    BY <1>2, <1>4, <1>5
  <1> QED
    BY <1>3, <1>6

\* Connections that open or close are marked as changed.
LEMMA FabricKeeps ==
  ASSUME RdmaAssumed, RdmaInv, peer' \in [Qps -> Qps \cup {None}], Rdma!Pairing(peer'),
         cm' = [q \in Qps |-> cm'[q]], changed \subseteq changed',
         \A q \in Qps \ changed' : peer'[q] = peer[q] /\ cm'[q] = cm[q],
         UNCHANGED <<qpTable, cmTable, relations>>
  PROVE  RdmaInv'
  <1>1. RdmaType'
    BY DEF RdmaInv, RdmaType
  <1>2. \A q \in Qps \ changed' : /\ q \notin changed
                                  /\ Rdma!ParseQueuePair(q)' = Rdma!ParseQueuePair(q)
                                  /\ Rdma!ParseCmId(q)' = Rdma!ParseCmId(q)
    BY DEF Rdma!ParseQueuePair, Rdma!ParseCmId
  <1>3. QpRows' /\ CmRows'
    BY <1>2 DEF RdmaInv, QpRows, CmRows
  <1>4. \A q : Rdma!CmOf(q)' = Rdma!CmOf(q)
    BY DEF Rdma!CmOf
  <1>5. \A a : EndKnown(a) => EndKnown(a)'
    BY <1>2, <1>4 DEF EndKnown
  <1>6. Built'
    BY <1>5 DEF RdmaInv, Built
  <1>7. Rdma!EntriesInOne'
    BY DEF RdmaInv, Rdma!EntriesInOne, Rdma!EntriesOf, Rdma!Ends
  <1>8. Rdma!PairsConnected'
    <2>1. \A p, q : Rdma!Addressed(p, q)' => Rdma!Addressed(p, q)
      BY <1>4 DEF Rdma!Addressed
    <2> QED
      BY <2>1 DEF RdmaInv, Rdma!PairsConnected, Built, EndKnown
  <1> QED
    BY <1>1, <1>3, <1>6, <1>7, <1>8 DEF RdmaInv

LEMMA FabricSteps ==
  ASSUME RdmaAssumed, RdmaInv, NEW p \in Qps,
         Rdma!Disconnect(p) \/ \E q \in Qps : Rdma!Connect(p, q)
  PROVE  RdmaInv'
  <1>1. /\ peer \in [Qps -> Qps \cup {None}] /\ Rdma!Pairing(peer) /\ cm = [q \in Qps |-> cm[q]]
        /\ None \notin Qps
    BY DEF RdmaInv, RdmaType, RdmaAssumed
  <1>2. ASSUME NEW q \in Qps, Rdma!Connect(p, q) PROVE RdmaInv'
    <2>1. p # q
      BY <1>2, Numbered DEF Rdma!Connect, Rdma!Before
    <2>2. PICK kp \in OpenedBy, kq \in OpenedBy : cm' = [cm EXCEPT ![p] = kp, ![q] = kq]
      BY <1>2 DEF Rdma!Connect
    <2>3. /\ peer[p] = None /\ peer[q] = None /\ peer' = [peer EXCEPT ![p] = q, ![q] = p]
          /\ changed' = changed \cup {p, q} /\ UNCHANGED <<qpTable, cmTable, relations>>
      BY <1>2 DEF Rdma!Connect
    <2>4. peer' \in [Qps -> Qps \cup {None}] /\ Rdma!Pairing(peer')
      BY <1>1, <2>1, <2>3 DEF Rdma!Pairing
    <2>5. cm' = [x \in Qps |-> cm'[x]] /\ \A x \in Qps \ {p, q} : peer'[x] = peer[x] /\ cm'[x] = cm[x]
      BY <1>1, <2>2, <2>3
    <2> QED
      BY <2>3, <2>4, <2>5, FabricKeeps
  <1>3. CASE Rdma!Disconnect(p)
    <2> DEFINE q == peer[p]
    <2>1. /\ q # None /\ peer' = [peer EXCEPT ![p] = None, ![q] = None]
          /\ cm' = [cm EXCEPT ![p] = "none", ![q] = "none"]
          /\ changed' = changed \cup {p, q} /\ UNCHANGED <<qpTable, cmTable, relations>>
      BY <1>3 DEF Rdma!Disconnect
    <2>2. q \in Qps /\ peer[q] = p
      BY <1>1, <2>1 DEF Rdma!Pairing
    <2> HIDE DEF q
    <2>3. peer' \in [Qps -> Qps \cup {None}] /\ Rdma!Pairing(peer')
      BY <1>1, <2>1, <2>2 DEF Rdma!Pairing, q
    <2>4. cm' = [x \in Qps |-> cm'[x]]
      BY <1>1, <2>1, <2>2
    <2> QED
      BY <1>1, <2>1, <2>2, <2>3, <2>4, FabricKeeps
  <1> QED
    BY <1>2, <1>3

\* A table that is read belongs to a host without relations.
LEMMA TablesKeep ==
  ASSUME RdmaAssumed, RdmaInv, NEW h \in Rdma!Hosts, NEW d \in Rdma!Devices,
         Rdma!DumpQueuePairs(h, d) \/ Rdma!DumpCmIds(h, d)
  PROVE  RdmaInv'
  <1>1. /\ HostOf[d] = h /\ relations[h] = None
        /\ UNCHANGED <<peer, cm, relations, changed>>
    BY DEF Rdma!DumpQueuePairs, Rdma!DumpCmIds, Rdma!Dumping, Rdma!DevicesOf
  <1>2. CASE Rdma!DumpQueuePairs(h, d)
    <2>1. PICK fit \in SUBSET {q \in Qps : q[1] = d} :
            qpTable' = [qpTable EXCEPT ![d] = {Rdma!ParseQueuePair(q) : q \in fit}]
      BY <1>2 DEF Rdma!DumpQueuePairs
    <2>2. cmTable' = cmTable
      BY <1>2 DEF Rdma!DumpQueuePairs
    <2>3. RdmaType'
      BY <1>1, <2>1, <2>2 DEF RdmaInv, RdmaType
    <2>4. QpRows'
      <3>1. \A q : Rdma!ParseQueuePair(q)' = Rdma!ParseQueuePair(q) /\ Rdma!ParseQueuePair(q).qp = q
        BY <1>1 DEF Rdma!ParseQueuePair
      <3>2. \A x \in Rdma!Devices : qpTable'[x] = IF x = d THEN {Rdma!ParseQueuePair(q) : q \in fit}
                                                  ELSE qpTable[x]
        BY <2>1 DEF RdmaInv, RdmaType
      <3>3. ASSUME NEW x \in Rdma!Devices, qpTable'[x] # None, NEW e \in qpTable'[x]
            PROVE  /\ e.qp \in Qps /\ e.qp[1] = x
                   /\ e.qp \notin changed => e = Rdma!ParseQueuePair(e.qp)
                   /\ \A f \in qpTable'[x] : f.qp = e.qp => f = e
        <4>1. CASE x = d
          <5>0. qpTable'[x] = {Rdma!ParseQueuePair(q) : q \in fit}
            BY <3>2, <4>1
          <5>1. PICK q \in fit : e = Rdma!ParseQueuePair(q)
            BY <3>3, <5>0
          <5>2. e.qp = q /\ q \in Qps /\ q[1] = d
            BY <3>1, <5>1
          <5>3. \A f \in qpTable'[x] : f = Rdma!ParseQueuePair(f.qp)
            BY <3>1, <5>0
          <5> QED
            BY <4>1, <5>1, <5>2, <5>3
        <4>2. CASE x # d
          BY <3>2, <3>3, <4>2 DEF RdmaInv, QpRows
        <4> QED
          BY <4>1, <4>2
      <3> QED
        BY <1>1, <3>1, <3>3 DEF QpRows
    <2>5. CmRows' /\ Built' /\ Rdma!PairsConnected'
      BY <1>1, <2>2, SMTT(30) DEF RdmaInv, CmRows, Built, EndKnown, Rdma!PairsConnected, Rdma!Addressed,
                        Rdma!CmOf, Rdma!ParseCmId
    <2>6. Rdma!EntriesInOne'
      <3>1. ASSUME NEW g \in Rdma!Hosts, relations[g] # None
            PROVE  Rdma!EntriesOf(g)' = Rdma!EntriesOf(g)
        <4>1. \A x \in Rdma!DevicesOf(g) : qpTable'[x] = qpTable[x]
          BY <1>1, <2>1, <3>1 DEF Rdma!DevicesOf, RdmaInv, RdmaType
        <4> QED
          BY <4>1 DEF Rdma!EntriesOf
      <3> QED
        BY <1>1, <3>1 DEF RdmaInv, Rdma!EntriesInOne, Rdma!Ends
    <2> QED
      BY <2>3, <2>4, <2>5, <2>6 DEF RdmaInv
  <1>3. CASE Rdma!DumpCmIds(h, d)
    <2> DEFINE rows == [q \in {p \in Qps : p[1] = d /\ peer[p] # None /\ cm[p] # "none"} |->
                          Rdma!ParseCmId(q)]
    <2>1. cmTable' = [cmTable EXCEPT ![d] = rows] /\ qpTable' = qpTable
      BY <1>3 DEF Rdma!DumpCmIds
    <2>2. \A x \in Rdma!Devices : cmTable'[x] = IF x = d THEN rows ELSE cmTable[x]
      BY <2>1 DEF RdmaInv, RdmaType
    <2>3. RdmaType'
      BY <1>1, <2>1 DEF RdmaInv, RdmaType
    <2>4. QpRows' /\ Rdma!EntriesInOne'
      BY <1>1, <2>1 DEF RdmaInv, QpRows, Rdma!ParseQueuePair, Rdma!EntriesInOne, Rdma!EntriesOf,
                        Rdma!Ends
    <2>5. CmRows'
      <3>1. \A q : Rdma!ParseCmId(q)' = Rdma!ParseCmId(q)
        BY <1>1 DEF Rdma!ParseCmId
      <3>2. ASSUME NEW x \in Rdma!Devices, NEW q \in DOMAIN cmTable'[x]
            PROVE  /\ q \in Qps /\ q[1] = x
                   /\ q \notin changed => peer[q] # None /\ cmTable'[x][q] = Rdma!ParseCmId(q)
        <4>1. CASE x = d
          BY <2>2, <3>2, <4>1
        <4>2. CASE x # d
          <5>1. cmTable'[x] = cmTable[x]
            BY <2>2, <4>2
          <5> QED
            BY <3>2, <5>1 DEF RdmaInv, CmRows
        <4> QED
          BY <4>1, <4>2
      <3> QED
        BY <1>1, <3>1, <3>2 DEF CmRows
    <2>6. \A g \in Rdma!Hosts, q \in Qps : relations[g] # None /\ HostOf[q[1]] = g =>
            Rdma!CmOf(q)' = Rdma!CmOf(q)
      BY <1>1, <2>2, Numbered DEF Rdma!CmOf
    <2>7. Built'
      BY <1>1, <2>6 DEF RdmaInv, Built, EndKnown
    <2>8. Rdma!PairsConnected'
      BY <1>1, <2>6 DEF RdmaInv, Built, EndKnown, Rdma!PairsConnected, Rdma!Addressed
    <2> QED
      BY <2>3, <2>4, <2>5, <2>7, <2>8 DEF RdmaInv
  <1> QED
    BY <1>2, <1>3

\* The ends a host has: one for each of its queue pairs that it knows.
HostEnds(h) == {Rdma!Endpoint(e) : e \in Rdma!EntriesOf(h)}

LEMMA EndsOfHost ==
  ASSUME RdmaAssumed, RdmaInv, NEW h \in Rdma!Hosts, NEW a \in HostEnds(h)
  PROVE  /\ EndKnown(a) /\ HostOf[a.qp[1]] = h /\ a # None
         /\ \A b \in HostEnds(h) : b.qp = a.qp => b = a
  <1>1. ASSUME NEW e \in Rdma!EntriesOf(h)
        PROVE  /\ e.qp \in Qps /\ HostOf[e.qp[1]] = h /\ e.qp[1] \in Rdma!Devices
               /\ e \in qpTable[e.qp[1]] /\ qpTable[e.qp[1]] # None
               /\ e.qp \notin changed => e = Rdma!ParseQueuePair(e.qp)
    BY <1>1 DEF Rdma!EntriesOf, Rdma!DevicesOf, RdmaInv, QpRows
  <1>2. \A e, f \in Rdma!EntriesOf(h) : e.qp = f.qp => e = f
    BY <1>1 DEF RdmaInv, QpRows
  <1>3. PICK e \in Rdma!EntriesOf(h) : a = Rdma!Endpoint(e)
    BY DEF HostEnds
  <1>4. \A f : Rdma!Endpoint(f).qp = f.qp
    BY DEF Rdma!Endpoint
  <1>5. a # None
    BY <1>3 DEF RdmaAssumed, Rdma!Endpoint
  <1>6. \A b \in HostEnds(h) : b.qp = a.qp => b = a
    BY <1>2, <1>3, <1>4 DEF HostEnds
  <1>7. EndKnown(a)
    <2> DEFINE q == e.qp
    <2>1. /\ a.qp = q /\ a.remote = e.remote /\ a.cm = Rdma!CmOf(q) /\ a.gid = Rdma!RemoteGid(q)
          /\ a.port = Rdma!PortGid(q)
      BY <1>3 DEF Rdma!Endpoint
    <2>2. q \in Qps /\ (a.port # None => a.port = <<q[1], 0>>)
      BY <1>1, <2>1 DEF Rdma!PortGid
    <2>3. ASSUME q \notin changed, a.remote # None
          PROVE  peer[q] # None /\ a.remote = peer[q][2]
      BY <1>1, <2>1, <2>3 DEF Rdma!ParseQueuePair
    <2>4. ASSUME q \notin changed, a.gid # None
          PROVE  peer[q] # None /\ a.gid = Rdma!UsedGid(peer[q][1])
      <3> DEFINE c == Rdma!CmOf(q)
      <3>1. c # None /\ c.kind \in {"ib", "ip"} /\ a.gid = Rdma!UsedGid(c.destination[1])
        BY <2>1, <2>4 DEF Rdma!RemoteGid, Rdma!NeighborGid
      <3>2. peer[q] # None /\ c = Rdma!ParseCmId(q)
        BY <2>2, <2>4, <3>1, Numbered DEF Rdma!CmOf, RdmaInv, CmRows
      <3>3. c.destination = Rdma!Address(q, peer[q])
        BY <3>1, <3>2 DEF Rdma!ParseCmId
      <3>4. Rdma!Address(q, peer[q])[1] = peer[q][1]
        BY DEF Rdma!Address
      <3> QED
        BY <3>1, <3>2, <3>3, <3>4
    <2> QED
      BY <2>1, <2>2, <2>3, <2>4 DEF EndKnown
  <1> QED
    BY <1>1, <1>3, <1>4, <1>5, <1>6, <1>7

LEMMA PeerMatches ==
  ASSUME NEW E, NEW a \in E, Rdma!PeerOf(E, a) # None
  PROVE  LET b == Rdma!PeerOf(E, a)
         IN b \in E /\ b # a /\ a.remote # None /\ Rdma!Swapped(a, b) /\ Rdma!SameConnection(a, b)
  <1>1. Rdma!Cardinality(Rdma!Matches(E, a)) = 1
    BY DEF Rdma!PeerOf
  <1>2. \A S : Rdma!Cardinality(S) = Cardinality(S)
    BY DEF Rdma!Cardinality, Cardinality
  <1>3. Rdma!Matches(E, a) # {}
    BY <1>1, <1>2, FS_EmptySet
  <1>4. Rdma!PeerOf(E, a) \in Rdma!Matches(E, a)
    BY <1>1, <1>3 DEF Rdma!PeerOf, Rdma!Only
  <1> QED
    BY <1>4 DEF Rdma!Matches

\* Addresses that are known on both sides are evidence.
LEMMA AddressesDecide ==
  ASSUME NEW a, NEW b, EndKnown(a), EndKnown(b), Rdma!Addressed(a.qp, b.qp),
         FALSE \notin Rdma!Evidence(a, b)
  PROVE  TRUE \in Rdma!Evidence(a, b)
  <1> DEFINE m == a.cm.source = b.cm.destination /\ a.cm.destination = b.cm.source
  <1>1. Rdma!CmMatch(a, b) = {m}
    BY DEF EndKnown, Rdma!Addressed, Rdma!CmMatch
  <1>2. m = TRUE \/ m = FALSE
    OBVIOUS
  <1>3. m \in Rdma!Evidence(a, b)
    BY <1>1 DEF Rdma!Evidence
  <1> QED
    BY <1>2, <1>3

\* Being the mutual peer goes both ways, so the two ends make one relation.
LEMMA Mutual ==
  ASSUME RdmaAssumed, RdmaInv, NEW h \in Rdma!Hosts, NEW a \in HostEnds(h),
         NEW b, b = Rdma!MutualPeer(HostEnds(h), a), b # None
  PROVE  /\ b \in HostEnds(h) /\ b.qp # a.qp /\ a.remote # None /\ b.remote # None
         /\ Rdma!Swapped(a, b) /\ Rdma!SameConnection(a, b)
         /\ Rdma!MutualPeer(HostEnds(h), b) = a
         /\ Rdma!Relation(a, b) = Rdma!Relation(b, a)
  <1>1. b = Rdma!PeerOf(HostEnds(h), a) /\ Rdma!PeerOf(HostEnds(h), b) = a
    BY DEF Rdma!MutualPeer
  <1>2. a # None
    BY EndsOfHost
  <1>3. b \in HostEnds(h) /\ b # a /\ a.remote # None /\ Rdma!Swapped(a, b) /\ Rdma!SameConnection(a, b)
    BY <1>1, PeerMatches
  <1>4. b.remote # None
    BY <1>1, <1>2, <1>3, PeerMatches
  <1>5. Rdma!MutualPeer(HostEnds(h), b) = a
    BY <1>1, <1>2 DEF Rdma!MutualPeer
  <1>6. b.qp # a.qp /\ a.qp \in Qps /\ b.qp \in Qps
    BY <1>3, EndsOfHost DEF EndKnown
  <1>7. Rdma!Before(a.qp, b.qp) <=> ~Rdma!Before(b.qp, a.qp)
    <2>1. /\ a.qp = <<a.qp[1], a.qp[2]>> /\ a.qp[1] \in Nat /\ a.qp[2] \in Nat
          /\ b.qp = <<b.qp[1], b.qp[2]>> /\ b.qp[1] \in Nat /\ b.qp[2] \in Nat
      BY <1>6, Numbered
    <2>2. a.qp[1] # b.qp[1] \/ a.qp[2] # b.qp[2]
      BY <1>6, <2>1
    <2> QED
      BY <2>1, <2>2 DEF Rdma!Before
  <1>8. Rdma!Relation(a, b) = Rdma!Relation(b, a)
    BY <1>2, <1>7 DEF Rdma!Relation
  <1> QED
    BY <1>3, <1>4, <1>5, <1>6, <1>8

\* A host's relations are built from its tables at once.
LEMMA BuildKeeps ==
  ASSUME RdmaAssumed, RdmaInv, NEW h \in Rdma!Hosts, Rdma!Build(h)
  PROVE  RdmaInv'
  <1> DEFINE E == HostEnds(h)
             R(a) == Rdma!Relation(a, Rdma!MutualPeer(E, a))
  <1>1. /\ relations' = [relations EXCEPT ![h] = {R(a) : a \in E}]
        /\ UNCHANGED <<peer, cm, qpTable, cmTable, changed>>
    BY DEF Rdma!Build, Rdma!BuildRdmaRelations, HostEnds
  <1>2. \A g \in Rdma!Hosts : relations'[g] = IF g = h THEN {R(a) : a \in E} ELSE relations[g]
    BY <1>1 DEF RdmaInv, RdmaType
  <1>3. RdmaType' /\ QpRows' /\ CmRows'
    <2> HIDE DEF R, E
    <2>1. RdmaType'
      BY <1>1 DEF RdmaInv, RdmaType
    <2>2. QpRows' /\ CmRows'
      BY <1>1 DEF RdmaInv, QpRows, CmRows, Rdma!ParseQueuePair, Rdma!ParseCmId
    <2> QED
      BY <2>1, <2>2
  <1>4. ASSUME NEW a \in E
        PROVE  /\ EndKnown(a) /\ HostOf[a.qp[1]] = h /\ a.qp \in Qps /\ a # None
               /\ \A b \in E : b.qp = a.qp => b = a
    BY EndsOfHost DEF EndKnown
  <1>5. ASSUME NEW a \in E, NEW b, b = Rdma!MutualPeer(E, a), b # None
        PROVE  /\ b \in E /\ b.qp # a.qp /\ a.remote # None /\ b.remote # None
               /\ Rdma!Swapped(a, b) /\ Rdma!SameConnection(a, b)
               /\ Rdma!MutualPeer(E, b) = a /\ R(b) = R(a)
    <2>2. /\ b \in E /\ b.qp # a.qp /\ a.remote # None /\ b.remote # None
          /\ Rdma!Swapped(a, b) /\ Rdma!SameConnection(a, b)
          /\ Rdma!MutualPeer(E, b) = a /\ Rdma!Relation(a, b) = Rdma!Relation(b, a)
      BY <1>5, Mutual
    <2> QED
      BY <1>5, <2>2
  <1> HIDE DEF E
  <1>6. ASSUME NEW a \in E
        PROVE  \/ R(a) = [first |-> a, second |-> None] /\ Rdma!Ends(R(a)) = {a.qp}
               \/ \E x, y \in E : /\ R(a) = [first |-> x, second |-> y.qp]
                                  /\ Rdma!MutualPeer(E, x) = y /\ y # None
                                  /\ Rdma!Ends(R(a)) = {x.qp, y.qp} /\ a \in {x, y}
    <2> DEFINE b == Rdma!MutualPeer(E, a)
    <2>1. CASE b = None
      BY <2>1 DEF Rdma!Relation, Rdma!Ends
    <2>2. CASE b # None
      <3>1. b \in E /\ Rdma!MutualPeer(E, b) = a
        BY <1>5, <2>2
      <3>2. a # None /\ a.qp # None /\ b.qp # None
        BY <1>4, <3>1 DEF RdmaAssumed
      <3> HIDE DEF b, R
      <3>3. CASE Rdma!Before(b.qp, a.qp)
        <4>1. R(a) = [first |-> b, second |-> a.qp]
          BY <2>2, <3>3 DEF Rdma!Relation, b, R
        <4>2. Rdma!Ends(R(a)) = {b.qp, a.qp}
          BY <3>2, <4>1 DEF Rdma!Ends
        <4> QED
          BY <3>1, <3>2, <4>1, <4>2
      <3>4. CASE ~Rdma!Before(b.qp, a.qp)
        <4>1. R(a) = [first |-> a, second |-> b.qp]
          BY <2>2, <3>4 DEF Rdma!Relation, b, R
        <4>2. Rdma!Ends(R(a)) = {a.qp, b.qp}
          BY <3>2, <4>1 DEF Rdma!Ends
        <4>3. Rdma!MutualPeer(E, a) = b
          BY DEF b
        <4> QED
          BY <2>2, <3>1, <4>1, <4>2, <4>3
      <3> QED
        BY <3>3, <3>4
    <2> QED
      BY <2>1, <2>2
  <1> HIDE DEF R
  <1>7. ASSUME NEW r \in {R(a) : a \in E}
        PROVE  /\ EndKnown(r.first) /\ HostOf[r.first.qp[1]] = h
               /\ r.second # None => r.second \in Qps /\ HostOf[r.second[1]] = h
    <2>1. PICK a \in E : r = R(a)
      OBVIOUS
    <2>2. CASE r = [first |-> a, second |-> None]
      BY <1>4, <2>2
    <2>3. CASE \E x, y \in E : r = [first |-> x, second |-> y.qp]
      BY <1>4, <2>3
    <2> QED
      BY <1>6, <2>1, <2>2, <2>3
  <1>8. Built'
    <2>1. \A a : EndKnown(a)' <=> EndKnown(a)
      BY <1>1 DEF EndKnown, Rdma!CmOf
    <2> QED
      BY <1>2, <1>7, <2>1 DEF RdmaInv, Built
  <1>9. ASSUME NEW r \in {R(a) : a \in E}, r.second # None,
               r.first.qp \notin changed, r.second \notin changed,
               r.first.qp[1] # r.second[1] \/ Rdma!Addressed(r.first.qp, r.second)
        PROVE  peer[r.first.qp] = r.second
    <2>1. PICK x, y \in E : /\ r = [first |-> x, second |-> y.qp]
                            /\ Rdma!MutualPeer(E, x) = y /\ y # None
      BY <1>6, <1>9
    <2>2. /\ r.first.qp = x.qp /\ r.second = y.qp /\ EndKnown(x) /\ EndKnown(y)
          /\ x.remote # None /\ y.remote # None
          /\ Rdma!Swapped(x, y) /\ Rdma!SameConnection(x, y)
      BY <1>4, <1>5, <2>1
    <2>3. TRUE \in Rdma!Evidence(x, y)
      BY <1>9, <2>2, AddressesDecide DEF Rdma!SameConnection
    <2> QED
      BY <1>9, <2>2, <2>3, Joined DEF RdmaInv
  <1>10. Rdma!PairsConnected'
    <2>1. \A p, q : Rdma!Addressed(p, q)' <=> Rdma!Addressed(p, q)
      BY <1>1 DEF Rdma!Addressed, Rdma!CmOf
    <2>2. ASSUME NEW g \in Rdma!Hosts, relations'[g] # None, NEW r \in relations'[g], r.second # None,
                 {r.first.qp, r.second} \cap changed = {},
                 r.first.qp[1] # r.second[1] \/ Rdma!Addressed(r.first.qp, r.second)
          PROVE  peer[r.first.qp] = r.second
      <3>1. CASE g = h
        BY <1>2, <1>9, <2>2, <3>1
      <3>2. CASE g # h
        BY <1>2, <2>2, <3>2 DEF RdmaInv, Rdma!PairsConnected
      <3> QED
        BY <3>1, <3>2
    <2> QED
      BY <1>1, <2>1, <2>2 DEF Rdma!PairsConnected
  <1>11. ASSUME NEW e \in Rdma!EntriesOf(h)
         PROVE  Rdma!Cardinality({r \in {R(a) : a \in E} : e.qp \in Rdma!Ends(r)}) = 1
    <2> DEFINE c == Rdma!Endpoint(e)
    <2>1. c \in E /\ c.qp = e.qp
      BY DEF E, HostEnds, Rdma!Endpoint
    <2> HIDE DEF c
    <2>2. e.qp \in Rdma!Ends(R(c))
      BY <1>6, <2>1
    <2>3. ASSUME NEW a \in E, e.qp \in Rdma!Ends(R(a)) PROVE R(a) = R(c)
      <3>1. CASE Rdma!Ends(R(a)) = {a.qp}
        BY <1>4, <2>1, <2>3, <3>1
      <3>2. CASE Rdma!Ends(R(a)) # {a.qp}
        <4>1. PICK x, y \in E : /\ Rdma!MutualPeer(E, x) = y /\ y # None
                                /\ Rdma!Ends(R(a)) = {x.qp, y.qp} /\ a \in {x, y}
          BY <1>6, <3>2
        <4>2. R(y) = R(x)
          BY <1>5, <4>1
        <4>3. c = x \/ c = y
          BY <1>4, <2>1, <2>3, <4>1
        <4> QED
          BY <4>1, <4>2, <4>3
      <3> QED
        BY <3>1, <3>2
    <2>4. {r \in {R(a) : a \in E} : e.qp \in Rdma!Ends(r)} = {R(c)}
      BY <2>1, <2>2, <2>3
    <2>5. \A S : Rdma!Cardinality(S) = Cardinality(S)
      BY DEF Rdma!Cardinality, Cardinality
    <2> QED
      BY <2>4, <2>5, FS_Singleton
  <1>12. Rdma!EntriesInOne'
    <2>1. \A g : Rdma!EntriesOf(g)' = Rdma!EntriesOf(g)
      BY <1>1 DEF Rdma!EntriesOf
    <2>2. ASSUME NEW g \in Rdma!Hosts, relations'[g] \notin {None, {}}, NEW e \in Rdma!EntriesOf(g)
          PROVE  Rdma!Cardinality({r \in relations'[g] : e.qp \in Rdma!Ends(r)}) = 1
      <3>1. CASE g = h
        BY <1>2, <1>11, <2>2, <3>1
      <3>2. CASE g # h
        BY <1>2, <2>2, <3>2 DEF RdmaInv, Rdma!EntriesInOne
      <3> QED
        BY <3>1, <3>2
    <2> QED
      BY <2>1, <2>2 DEF Rdma!EntriesInOne
  <1> QED
    BY <1>3, <1>8, <1>10, <1>12 DEF RdmaInv

\* A link joins ends of two hosts that each have no other candidate.
LEMMA LinksApart ==
  ASSUME RdmaAssumed, RdmaInv
  PROVE  /\ \A l \in Rdma!Links, m \in Rdma!Links : l # m => {l[1], l[2]} \cap {m[1], m[2]} = {}
         /\ Rdma!LinksConnected
  <1>1. ASSUME NEW a \in Rdma!Unpaired
        PROVE  EndKnown(a) /\ a.remote # None /\ Rdma!HostOfEnd(a) \in Nat
    <2>1. PICK h \in Rdma!Hosts :
            relations[h] # None /\ \E r \in relations[h] : r.first = a /\ a.remote # None
      BY DEF Rdma!Unpaired
    <2>2. EndKnown(a) /\ a.remote # None
      BY <2>1 DEF RdmaInv, Built
    <2> QED
      BY <2>2, Numbered DEF EndKnown, Rdma!HostOfEnd
  <1>2. ASSUME NEW l \in Rdma!Links
        PROVE  /\ l = <<l[1], l[2]>> /\ l[1] \in Rdma!Unpaired /\ l[2] \in Rdma!Unpaired
               /\ Rdma!Candidates(l[1]) = {l[2]} /\ Rdma!Candidates(l[2]) = {l[1]}
               /\ Rdma!HostOfEnd(l[1]) < Rdma!HostOfEnd(l[2])
    BY DEF Rdma!Links
  <1>3. ASSUME NEW l \in Rdma!Links, NEW m \in Rdma!Links, {l[1], l[2]} \cap {m[1], m[2]} # {}
        PROVE  l = m
    <2>1. CASE l[1] = m[1] \/ l[2] = m[2]
      BY <1>2, <2>1
    <2>2. CASE l[1] = m[2]
      <3>1. l[2] = m[1]
        BY <1>2, <2>2
      <3> QED
        BY <1>1, <1>2, <2>2, <3>1
    <2>3. CASE l[2] = m[1]
      <3>1. l[1] = m[2]
        BY <1>2, <2>3
      <3> QED
        BY <1>1, <1>2, <2>3, <3>1
    <2> QED
      BY <1>3, <2>1, <2>2, <2>3
  <1>4. ASSUME NEW l \in Rdma!Links, Rdma!Addressed(l[1].qp, l[2].qp)
        PROVE  peer[l[1].qp] = l[2].qp
    <2>1. Rdma!Swapped(l[1], l[2]) /\ FALSE \notin Rdma!Evidence(l[1], l[2])
      BY <1>2 DEF Rdma!Candidates
    <2>2. /\ EndKnown(l[1]) /\ EndKnown(l[2]) /\ l[1].remote # None /\ l[2].remote # None
          /\ l[1].qp \notin changed /\ l[2].qp \notin changed
      BY <1>1, <1>2, <1>4 DEF Rdma!Addressed
    <2>3. TRUE \in Rdma!Evidence(l[1], l[2])
      BY <1>4, <2>1, <2>2, AddressesDecide
    <2> QED
      BY <2>1, <2>2, <2>3, Joined DEF RdmaInv
  <1>5. Rdma!LinksConnected
    BY <1>4 DEF Rdma!LinksConnected
  <1> QED
    BY <1>3, <1>5

\* A queue pair that was dumped is an end of exactly one relation of its host and of
\* at most one link, and what is joined with addresses or across devices is
\* connected, although numbers repeat and connections open and close between the
\* dumps (build_rdma_relations, rdma/relations.rs; rdma_links, hosts/correlate.rs).
THEOREM QueuePairsApart ==
  ASSUME RdmaAssumed
  PROVE  /\ Rdma!Spec => []Rdma!QueuePairsRelated
         /\ MCSpec => []QueuePairsRelated
  <1>1. Rdma!Init => RdmaInv
    <2> SUFFICES ASSUME Rdma!Init PROVE RdmaInv
      OBVIOUS
    <2>1. RdmaType
      BY DEF Rdma!Init, RdmaType
    <2>2. QpRows /\ CmRows
      BY DEF Rdma!Init, QpRows, CmRows
    <2>3. Built /\ Rdma!EntriesInOne /\ Rdma!PairsConnected
      BY DEF Rdma!Init, Built, Rdma!EntriesInOne, Rdma!PairsConnected
    <2> QED
      BY <2>1, <2>2, <2>3 DEF RdmaInv
  <1>2. RdmaAssumed /\ RdmaInv /\ [Rdma!Next]_Rdma!vars => RdmaInv'
    <2> SUFFICES ASSUME RdmaAssumed, RdmaInv, [Rdma!Next]_Rdma!vars PROVE RdmaInv'
      OBVIOUS
    <2>1. CASE UNCHANGED <<peer, cm, qpTable, cmTable, relations, changed>>
      BY <2>1, FabricKeeps DEF RdmaInv, RdmaType
    <2>2. ASSUME NEW h \in Rdma!Hosts, Rdma!ScanFails(h) PROVE RdmaInv'
      <3>1. /\ relations' = [relations EXCEPT ![h] = {}]
            /\ UNCHANGED <<peer, cm, qpTable, cmTable, changed>>
        BY <2>2 DEF Rdma!ScanFails
      <3>2. \A g \in Rdma!Hosts : relations'[g] = {} \/ relations'[g] = relations[g]
        BY <3>1 DEF RdmaInv, RdmaType
      <3>3. RdmaType'
        BY <3>1 DEF RdmaInv, RdmaType
      <3>4. QpRows' /\ CmRows'
        BY <3>1 DEF RdmaInv, QpRows, CmRows, Rdma!ParseQueuePair, Rdma!ParseCmId
      <3>5. Built'
        BY <3>1, <3>2 DEF RdmaInv, Built, EndKnown, Rdma!CmOf
      <3>6. Rdma!EntriesInOne'
        BY <3>1, <3>2 DEF RdmaInv, Rdma!EntriesInOne, Rdma!EntriesOf
      <3>7. Rdma!PairsConnected'
        BY <3>1, <3>2 DEF RdmaInv, Rdma!PairsConnected, Rdma!Addressed, Rdma!CmOf
      <3> QED
        BY <3>3, <3>4, <3>5, <3>6, <3>7 DEF RdmaInv
    <2>3. ASSUME NEW h \in Rdma!Hosts, NEW d \in Rdma!Devices,
                 Rdma!DumpFails(h, d)
          PROVE  RdmaInv'
      BY <2>1, <2>3 DEF Rdma!DumpFails
    <2>4. ASSUME NEW h \in Rdma!Hosts, Rdma!NeighborsUnavailable(h) PROVE RdmaInv'
      BY <2>1, <2>4 DEF Rdma!NeighborsUnavailable
    <2> QED
      BY <2>1, <2>2, <2>3, <2>4, FabricSteps, TablesKeep, BuildKeeps DEF Rdma!Next, Rdma!vars
  <1>3. RdmaAssumed /\ RdmaInv => Rdma!QueuePairsRelated
    BY LinksApart DEF RdmaInv, Rdma!QueuePairsRelated, Rdma!InOneRelation
  <1> DEFINE Checked == which = "rdma" => RdmaInv
  <1>4. MCInit => Checked
    BY <1>1, AboutQueuePairs
  <1>5. Checked /\ [MCNext]_<<which, vars, linkVars, rdmaVars>> => Checked'
    BY <1>2, AboutQueuePairs
  <1>6. Checked => QueuePairsRelated
    BY <1>3 DEF QueuePairsRelated
  <1> HIDE DEF Checked
  <1> QED
    BY <1>1, <1>2, <1>3, <1>4, <1>5, <1>6, PTL DEF Rdma!Spec, MCSpec

-----------------------------------------------------------------------------
(* AgentLink: its proofs are in a module of their own.                     *)

LinkProofs == INSTANCE AgentLinkProofs

LimitsAssumed == PendingLimit \in Nat /\ OutCapacity \in Nat /\ Permits \in Nat

\* A behaviour of MCHosts about a link is one of the AgentLink that the proofs are
\* about, for good.
LEMMA SameLink ==
  (Link!Init => LinkProofs!Init) /\ ([Link!Next]_Link!vars => [LinkProofs!Next]_LinkProofs!vars)
  BY DEF Link!Init, Link!Next, Link!vars, LinkProofs!Init, LinkProofs!Next, LinkProofs!vars,
         Link!Read, Link!Observe, Link!Poll, Link!TimeOut, Link!Drop, Link!Stray, Link!HubWrite,
         Link!HubReceive, Link!HubEnds, Link!Spawn, Link!AgentEnds, Link!EndAgent, Link!TaskStep,
         Link!Check, Link!Ask, Link!Reply, Link!Answer, Link!Updated, Link!Expire,
         Link!ConnectionLost, Link!Exchange, Link!CanQueue, Link!Message, Link!FailedMode,
         Link!Answered, Link!Matching, Link!Waiting, Link!OwnSession, Link!Cardinality,
         Link!callerVars, Link!hubVars, Link!netVars, Link!agentVars, LinkProofs!Read,
         LinkProofs!Observe, LinkProofs!Poll, LinkProofs!TimeOut, LinkProofs!Drop,
         LinkProofs!Stray, LinkProofs!HubWrite, LinkProofs!HubReceive, LinkProofs!HubEnds,
         LinkProofs!Spawn, LinkProofs!AgentEnds, LinkProofs!EndAgent, LinkProofs!TaskStep,
         LinkProofs!Check, LinkProofs!Ask, LinkProofs!Reply, LinkProofs!Answer,
         LinkProofs!Updated, LinkProofs!Expire, LinkProofs!ConnectionLost, LinkProofs!Exchange,
         LinkProofs!CanQueue, LinkProofs!Message, LinkProofs!FailedMode, LinkProofs!Answered,
         LinkProofs!Matching, LinkProofs!Waiting, LinkProofs!OwnSession, LinkProofs!Cardinality,
         LinkProofs!callerVars, LinkProofs!hubVars, LinkProofs!netVars, LinkProofs!agentVars

LEMMA AboutLink ==
  /\ MCInit /\ which = "link" => Link!Init
  /\ which = "link" /\ [MCNext]_<<which, vars, linkVars, rdmaVars>>
       => which' = "link" /\ [Link!Next]_Link!vars
  /\ which # "link" /\ [MCNext]_<<which, vars, linkVars, rdmaVars>> => which' # "link"
  BY DEF MCInit, MCNext, linkVars, Link!vars, Link!callerVars, Link!hubVars, Link!netVars, Link!agentVars

\* The invariant of AgentLinkProofs in both.
LEMMA LinkInvariant ==
  ASSUME LimitsAssumed
  PROVE  /\ Link!Spec => []LinkProofs!Inv
         /\ MCSpec => [](which = "link" => LinkProofs!Inv)
  <1>1. Link!Init => LinkProofs!Inv
    BY SameLink, LinkProofs!Inductive DEF LimitsAssumed
  <1>2. LinkProofs!Inv /\ [Link!Next]_Link!vars => LinkProofs!Inv'
    BY SameLink, LinkProofs!Inductive DEF LimitsAssumed
  <1> DEFINE Checked == which = "link" => LinkProofs!Inv
  <1>3. MCInit => Checked
    BY <1>1, AboutLink
  <1>4. Checked /\ [MCNext]_<<which, vars, linkVars, rdmaVars>> => Checked'
    BY <1>2, AboutLink
  <1> QED
    BY <1>1, <1>2, <1>3, <1>4, PTL DEF Link!Spec, MCSpec

\* However responses overtake each other, whatever was forgotten, dropped or
\* timed out, a caller of the hub sees events of its own session only, no two
\* callers own one session, and no request of the hub ends a session of the
\* agent's own viewers (AgentLink::complete, answer_monitor_request).
THEOREM CallersKeptApart ==
  ASSUME LimitsAssumed
  PROVE  /\ Link!Spec => []Link!LinkKeepsApart
         /\ MCSpec => []LinkKeepsApart
  <1>1. LinkProofs!Inv => Link!LinkKeepsApart
    BY LinkProofs!InvSuffices
       DEF Link!LinkKeepsApart, Link!CallersSeparated, Link!OwnViewersSafe, Link!OwnSession,
           LinkProofs!LinkKeepsApart, LinkProofs!CallersSeparated, LinkProofs!OwnViewersSafe,
           LinkProofs!OwnSession
  <1> QED
    BY <1>1, LinkInvariant, PTL DEF LinkKeepsApart

\* While the link is up no pending request is lost, and what a caller polls is on
\* the agent's record of the link's sessions, so that its polls are let through
\* and its session can be closed (Sessions::update, run_agent_session).
THEOREM NothingLostInLink ==
  ASSUME LimitsAssumed
  PROVE  /\ Link!Spec => []Link!LinkRecords
         /\ MCSpec => []LinkRecords
  <1>1. LinkProofs!Inv => Link!LinkRecords
    BY LinkProofs!InvSuffices
       DEF Link!LinkRecords, Link!PendingTracked, Link!OpenSessionsRecorded, Link!Range,
           LinkProofs!LinkRecords, LinkProofs!PendingTracked, LinkProofs!OpenSessionsRecorded,
           LinkProofs!Range
  <1> QED
    BY <1>1, LinkInvariant, PTL DEF LinkRecords
=============================================================================
