-------------------------- MODULE SnapshotDelivery --------------------------
(***************************************************************************)
(* System snapshots on their way to one SPACE page: SnapshotEncoder        *)
(* (http_server/delivery.rs) in the SSE response of each connection        *)
(* (api/stream.rs), mergeSnapshot (space/snapshot-merge.ts) and the        *)
(* connection handling of SpaceDataStore (space/data.ts).                  *)
(*                                                                         *)
(* A keyed array is a function from its possible keys with Absent for the  *)
(* keys it has no entry of.  rels stands for fd_relations, rdma_relations  *)
(* and device_handles, which are treated alike; what is always sent whole  *)
(* is left out, and so is the order of array entries.                      *)
(***************************************************************************)
EXTENDS Naturals, Sequences

CONSTANTS
  Procs,           \* process identities
  Addrs, Ids,      \* start addresses of mappings, ids of relations
  Entries,         \* mappings and relations
  Epochs,          \* times of map captures
  Absent,          \* no entry
  Gone,            \* no such process
  MaxSequence,     \* bound on the snapshots served on a connection
  MaxConnections   \* bound on the connections of one behaviour

ASSUME DeliveryAssumption ==
  /\ Absent \notin Entries
  /\ Gone \notin [Addrs -> Entries \cup {Absent}]
  /\ Epochs \subseteq Nat
  /\ MaxSequence \in Nat /\ MaxConnections \in Nat

Maps == [Addrs -> Entries \cup {Absent}]
Rels == [Ids -> Entries \cup {Absent}]
Snapshot == [maps : [Procs -> Maps \cup {Gone}], rels : Rels]
ChangeOf(K) == [upsert : [K -> Entries \cup {Absent}], remove : SUBSET K]
Update ==
  [full : BOOLEAN, sequence : Nat, base : Nat,
   maps : [Procs -> [how : {"gone", "same", "delta", "whole"},
                     data : Maps \cup {Gone} \cup ChangeOf(Addrs)]],
   epochs : [Procs -> Nat],
   relDelta : BOOLEAN, rels : Rels \cup ChangeOf(Ids)]

VARIABLES
  sequence, previous, epochs,  \* SnapshotEncoder of the current connection
  source,      \* the page has an EventSource
  connections, \* connections made so far
  wire,        \* messages of the connection that the page has not handled
  page,        \* SpaceDataStore.snapshot, with its sequence and maps epochs
  served       \* snapshots given to the encoder of the connection

encoder == <<sequence, previous, epochs>>
vars == <<encoder, source, connections, wire, page, served>>

Empty == [maps |-> [p \in Procs |-> Gone], rels |-> [i \in Ids |-> Absent]]
NoEpochs == [p \in Procs |-> 0]

-----------------------------------------------------------------------------
(* build_array_delta and its counterpart in mergeSnapshot                  *)

MutantChange(old, new) ==
  [upsert |-> [k \in DOMAIN new |-> IF new[k] # old[k] THEN new[k] ELSE Absent],
   remove |-> {}]

Change(old, new) ==
  [upsert |-> [k \in DOMAIN new |-> IF new[k] # old[k] THEN new[k] ELSE Absent],
   remove |-> {k \in DOMAIN new : old[k] # Absent /\ new[k] = Absent}]

Changed(old, d) ==
  [k \in DOMAIN old |-> IF d.upsert[k] # Absent THEN d.upsert[k]
                        ELSE IF k \in d.remove THEN Absent ELSE old[k]]

-----------------------------------------------------------------------------
(* SnapshotEncoder::encode.  A change is sent when it is shorter than the  *)
(* array, which depends on the entries: byDelta and relDelta choose.       *)

How(old, x, full, byDelta, p) ==
  CASE x.maps[p] = Gone -> "gone"
    [] x.maps[p] # Gone /\ ~full /\ old.maps[p] = x.maps[p] -> "same"
    [] x.maps[p] # Gone /\ ~full /\ old.maps[p] # x.maps[p]
         /\ old.maps[p] # Gone /\ p \in byDelta -> "delta"
    [] OTHER -> "whole"

EncodedMaps(old, x, full, byDelta) ==
  [p \in Procs |->
     LET how == How(old, x, full, byDelta, p)
     IN [how |-> how,
         data |-> IF how = "delta" THEN Change(old.maps[p], x.maps[p]) ELSE x.maps[p]]]

\* A process whose maps are omitted keeps the epoch of when they were sent.
EncodedEpochs(old, x, e, full) ==
  [p \in Procs |-> IF ~full /\ x.maps[p] # Gone /\ old.maps[p] = x.maps[p]
                     THEN epochs[p] ELSE IF x.maps[p] = Gone THEN 0 ELSE e]

Encoded(old, n, x, e, full, byDelta, relDelta) ==
  [full |-> full, sequence |-> n, base |-> n - 1,
   maps |-> EncodedMaps(old, x, full, byDelta),
   epochs |-> EncodedEpochs(old, x, e, full),
   relDelta |-> ~full /\ relDelta,
   rels |-> IF ~full /\ relDelta THEN Change(old.rels, x.rels) ELSE x.rels]

-----------------------------------------------------------------------------
(* mergeSnapshot                                                           *)

\* It throws on another baseline, or on a change of maps it does not have.
Mergeable(u) ==
  /\ u.full \/ (page.sequence # 0 /\ u.base = page.sequence)
  /\ \A p \in Procs : u.maps[p].how = "delta" =>
       ~u.full /\ page.snapshot.maps[p] # Gone

MergedMaps(u) ==
  [p \in Procs |->
     CASE u.maps[p].how = "delta" -> Changed(page.snapshot.maps[p], u.maps[p].data)
       [] u.maps[p].how = "same" -> page.snapshot.maps[p]
       [] OTHER -> u.maps[p].data]

MergedEpochs(u) ==
  [p \in Procs |-> IF u.maps[p].how = "same" THEN page.epochs[p] ELSE u.epochs[p]]

Merged(u) ==
  [sequence |-> u.sequence,
   epochs |-> MergedEpochs(u),
   snapshot |-> [maps |-> MergedMaps(u),
                 rels |-> IF u.relDelta THEN Changed(page.snapshot.rels, u.rels)
                          ELSE u.rels]]

-----------------------------------------------------------------------------
Init ==
  /\ sequence = 0 /\ previous = Empty /\ epochs = NoEpochs
  /\ source = FALSE /\ connections = 0 /\ wire = <<>>
  /\ page = [sequence |-> 0, epochs |-> NoEpochs, snapshot |-> Empty]
  /\ served = <<>>

Connect ==
  /\ ~source /\ connections < MaxConnections
  /\ source' = TRUE
  /\ connections' = connections + 1
  /\ UNCHANGED <<encoder, wire, page, served>>

MutantWholeDue(forced) == forced

\* The first snapshot and the one after a gap are sent whole.
WholeDue(forced) == forced \/ sequence = 0

\* encode_sse_events: a snapshot, or the one of a gap (forced); full also
\* when the last full one is a minute old.
Deliver(x, e, forced) ==
  /\ source /\ sequence < MaxSequence
  /\ \E full \in BOOLEAN, byDelta \in SUBSET Procs, relDelta \in BOOLEAN :
       /\ WholeDue(forced) => full
       /\ wire' = Append(wire, Encoded(previous, sequence + 1, x, e, full, byDelta, relDelta))
       /\ epochs' = EncodedEpochs(previous, x, e, full)
  /\ sequence' = sequence + 1
  /\ previous' = x
  /\ served' = Append(served, x)
  /\ UNCHANGED <<source, connections, page>>

\* The "snapshot" listener.  Its catch branch, which closes the source and
\* connects again, is never taken: AlwaysMergeable.
Receive ==
  /\ source /\ wire # <<>> /\ Mergeable(Head(wire))
  /\ page' = Merged(Head(wire))
  /\ wire' = Tail(wire)
  /\ UNCHANGED <<encoder, source, connections, served>>

\* onerror: the connection is lost or the response has ended.  The response
\* is dropped with its encoder; the page closes the source and keeps its
\* snapshot until the next connection.
Lost ==
  /\ source
  /\ source' = FALSE
  /\ sequence' = 0 /\ previous' = Empty /\ epochs' = NoEpochs
  /\ wire' = <<>> /\ served' = <<>>
  /\ UNCHANGED <<connections, page>>

Next ==
  \/ Connect
  \/ \E x \in Snapshot, e \in Epochs, forced \in BOOLEAN : Deliver(x, e, forced)
  \/ Receive \/ Lost

Spec == Init /\ [][Next]_vars

-----------------------------------------------------------------------------
(* Properties                                                              *)

\* The shape of the state: what is merged is a snapshot, and never a change that
\* was taken for one.
TypeOK ==
  /\ sequence \in Nat /\ previous \in Snapshot
  /\ epochs \in [Procs -> Nat]
  /\ source \in BOOLEAN /\ connections \in Nat
  /\ wire \in Seq(Update)
  /\ page \in [sequence : Nat, epochs : [Procs -> Nat], snapshot : Snapshot]
  /\ served \in Seq(Snapshot)

\* Merging never fails: the page never has to drop a connection because of
\* what the encoder sent, whatever the two have gone through.
AlwaysMergeable == source /\ wire # <<>> => Mergeable(Head(wire))

\* How many snapshots of the connection the page has shown.
Shown == Len(served) - Len(wire)

\* The update u, sent as number n, carries the snapshot served as number n:
\* whole, or as a change of the one before it.
Carries(u, n) ==
  /\ u.sequence = n /\ u.base = n - 1
  /\ u.full \/ n > 1
  /\ u.full => ~u.relDelta /\ \A p \in Procs : u.maps[p].how \in {"gone", "whole"}
  /\ IF u.relDelta THEN u.rels = Change(served[n - 1].rels, served[n].rels)
                   ELSE u.rels = served[n].rels
  /\ \A p \in Procs :
       CASE u.maps[p].how = "delta" ->
              /\ served[n - 1].maps[p] # Gone /\ served[n].maps[p] # Gone
              /\ u.maps[p].data = Change(served[n - 1].maps[p], served[n].maps[p])
         [] u.maps[p].how = "same" -> served[n].maps[p] = served[n - 1].maps[p]
         [] OTHER -> u.maps[p].data = served[n].maps[p]

\* The encoder's baseline, the updates on their way and the page line up: the
\* page holds the last snapshot shown, every update on the wire carries the
\* next one, and the encoder remembers the last one served.
LinedUp ==
  /\ sequence = Len(served) /\ Len(wire) <= Len(served)
  /\ ~source => served = <<>>
  /\ sequence > 0 => previous = served[sequence]
  /\ Shown > 0 => page.sequence = Shown /\ page.snapshot = served[Shown]
  /\ \A i \in 1..Len(wire) : Carries(wire[i], Shown + i)

\* The delivery implements the feed: the page shows each snapshot exactly as
\* it was given to the encoder, whatever was sent whole or as a change.
Feed == INSTANCE SnapshotFeed WITH
          log <- served, at <- Shown, shown <- page.snapshot, Snapshot <- Snapshot

ImplementsFeed == Feed!FeedSpec

=============================================================================
