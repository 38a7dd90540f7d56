---------------------------- MODULE MergedStream ----------------------------
(***************************************************************************)
(* The merged view of all hosts, for one remote host: the response of      *)
(* build_merged_event_response with a forwarder per link of the host       *)
(* (api/merged.rs), and the page that merges the host's snapshots          *)
(* (listenMerged in space/data.ts).  Links are numbered in the order of    *)
(* admission; HostRegistry models how they come and go.  A snapshot is the *)
(* link it came from and its number in that link's encoder.                *)
(***************************************************************************)
EXTENDS Naturals, Sequences, FiniteSets

CONSTANTS
  MaxLinks,      \* bound on the links of the host in one behaviour
  MaxSnapshots,  \* bound on an encoder's numbers: the last repeats, whole
  OutCapacity,   \* capacity of the channel of the response, 64 in the code
  SseCapacity,   \* events the connection to the page holds
  Overlap        \* an old link may answer polls after it was replaced

Links == 1..MaxLinks

VARIABLES
  admitted,   \* links admitted so far
  online,     \* the host's link in the registry, 0 when it is offline
  up,         \* links that answer
  changed,    \* the registry changed since the response looked
  forwarded,  \* the link the response forwards the host from
  task,       \* the forwarder of each link
  sequence,   \* its SnapshotEncoder
  latest,     \* whose snapshot is kept for correlation, 0 for none
  out,        \* the channel from the forwarders
  sse,        \* events on their way to the page
  page        \* the host's entry in hostSnapshots; link 0 when it has none

registryVars == <<admitted, online, up, changed>>
forwardVars  == <<forwarded, task, sequence, latest, out>>
vars == <<registryVars, forwardVars, sse, page>>

Tasks    == {"none", "observing", "event", "sending", "polling", "ended", "done"}
Snapshot == [link : Links, number : Nat, full : BOOLEAN]
Nothing  == [link |-> 0, number |-> 0, mixed |-> FALSE]

\* The shape of the state: the channel of the forwarders and the connection to the
\* page within their capacities.
TypeOK ==
  /\ admitted \in 0..MaxLinks /\ online \in 0..admitted /\ up \subseteq 1..admitted
  /\ changed \in BOOLEAN
  /\ forwarded \in 0..admitted /\ latest \in 0..admitted
  /\ task \in [Links -> Tasks] /\ sequence \in [Links -> 0..MaxSnapshots]
  /\ out \in Seq(Snapshot) /\ Len(out) <= OutCapacity
  /\ sse \in Seq(Snapshot \cup [online : BOOLEAN]) /\ Len(sse) <= SseCapacity
  /\ page \in [link : 0..MaxLinks, number : Nat, mixed : BOOLEAN]

\* A response just opened, and a page that has nothing of the host yet.
Init ==
  /\ admitted = 0 /\ online = 0 /\ up = {}
  /\ changed = TRUE /\ forwarded = 0 /\ latest = 0
  /\ task = [l \in Links |-> "none"]
  /\ sequence = [l \in Links |-> 0]
  /\ out = <<>> /\ sse = <<>> /\ page = Nothing

-----------------------------------------------------------------------------
(* The registry, as the response sees it                                   *)

\* The agent links, possibly before its old link is known to be lost.
Admit ==
  /\ admitted < MaxLinks
  /\ admitted' = admitted + 1
  /\ online' = admitted + 1
  /\ up' = (IF Overlap THEN up ELSE {}) \cup {admitted + 1}
  /\ changed' = TRUE
  /\ UNCHANGED <<forwardVars, sse, page>>

\* A link ends; the host goes offline if it was the current one.
LinkEnds(l) ==
  /\ l \in up
  /\ up' = up \ {l}
  /\ online' = IF online = l THEN 0 ELSE online
  /\ changed' = (changed \/ online = l)
  /\ UNCHANGED <<admitted, forwardVars, sse, page>>

-----------------------------------------------------------------------------
(* The response                                                            *)

MutantHosts ==
  /\ changed /\ Len(sse) < SseCapacity
  /\ changed' = FALSE
  /\ forwarded' = IF online # 0 /\ forwarded = 0 THEN online ELSE forwarded
  /\ task' = IF online # 0 /\ forwarded = 0
               THEN [task EXCEPT ![online] = "observing"] ELSE task
  /\ sse' = Append(sse, [online |-> online # 0])
  /\ UNCHANGED <<admitted, online, up, sequence, latest, out, page>>

\* Step::Hosts: a link that is not forwarded yet gets a forwarder.  The stream
\* goes on only when the connection took what it yielded before.
Hosts ==
  /\ changed /\ Len(sse) < SseCapacity
  /\ changed' = FALSE
  /\ forwarded' = IF online # 0 THEN online ELSE forwarded
  /\ task' = IF online # 0 /\ forwarded # online
               THEN [task EXCEPT ![online] = "observing"] ELSE task
  /\ sse' = Append(sse, [online |-> online # 0])
  /\ UNCHANGED <<admitted, online, up, sequence, latest, out, page>>

\* Step::Message
Message ==
  /\ out # <<>> /\ Len(sse) < SseCapacity
  /\ out' = Tail(out)
  /\ sse' = Append(sse, Head(out))
  /\ UNCHANGED <<registryVars, forwarded, task, sequence, latest, page>>

-----------------------------------------------------------------------------
(* A forwarder: forward_remote and forward_host_events                     *)

Goto(l, at) == task' = [task EXCEPT ![l] = at]

\* observe: the session starts with a first event, or the host is skipped.
Observe(l) ==
  /\ task[l] = "observing"
  /\ \/ l \in up /\ Goto(l, "event")
     \/ Goto(l, "done")
  /\ UNCHANGED <<registryVars, forwarded, sequence, latest, out, sse, page>>

\* The snapshot is encoded and kept.
Encode(l) ==
  /\ task[l] = "event"
  /\ sequence' = [sequence EXCEPT ![l] = IF @ < MaxSnapshots THEN @ + 1 ELSE @]
  /\ latest' = l
  /\ Goto(l, "sending")
  /\ UNCHANGED <<registryVars, forwarded, out, sse, page>>

\* The channel has room; the first update is whole, others may be (a gap, a
\* minute since the last one).
Send(l) ==
  /\ task[l] = "sending" /\ Len(out) < OutCapacity
  /\ \E full \in BOOLEAN :
       /\ sequence[l] \in {1, MaxSnapshots} => full
       /\ out' = Append(out, [link |-> l, number |-> sequence[l], full |-> full])
  /\ Goto(l, "polling")
  /\ UNCHANGED <<registryVars, forwarded, sequence, latest, sse, page>>

MutantPoll(l) ==
  /\ task[l] = "polling"
  /\ l \in up /\ Goto(l, "event")
  /\ UNCHANGED <<registryVars, forwarded, sequence, latest, out, sse, page>>

\* An event, or the end of the session: of its link, or of the session alone.
Poll(l) ==
  /\ task[l] = "polling"
  /\ \/ l \in up /\ Goto(l, "event")
     \/ Goto(l, "ended")
  /\ UNCHANGED <<registryVars, forwarded, sequence, latest, out, sse, page>>

\* The forwarder's last act, for the host and not for its link.
Remove(l) ==
  /\ task[l] = "ended"
  /\ latest' = 0
  /\ Goto(l, "done")
  /\ UNCHANGED <<registryVars, forwarded, sequence, out, sse, page>>

-----------------------------------------------------------------------------
(* The page                                                                *)

\* The "hosts" listener: an offline host keeps nothing.
PageHosts ==
  /\ sse # <<>> /\ "online" \in DOMAIN Head(sse)
  /\ page' = IF Head(sse).online THEN page ELSE Nothing
  /\ sse' = Tail(sse)
  /\ UNCHANGED <<registryVars, forwardVars>>

\* mergeSnapshot compares sequence numbers, the only thing an update and the
\* retained snapshot have in common.
Mergeable(u) == u.full \/ (page.link # 0 /\ u.number = page.number + 1)

PageMerges ==
  /\ sse # <<>> /\ "link" \in DOMAIN Head(sse) /\ Mergeable(Head(sse))
  /\ LET u == Head(sse)
     IN page' = [link |-> u.link, number |-> u.number,
                 mixed |-> ~u.full /\ (page.mixed \/ page.link # u.link)]
  /\ sse' = Tail(sse)
  /\ UNCHANGED <<registryVars, forwardVars>>

\* The listener's catch branch: the page drops the response, and with it
\* every forwarder, and connects again.
PageReconnects ==
  /\ sse # <<>> /\ "link" \in DOMAIN Head(sse) /\ ~Mergeable(Head(sse))
  /\ changed' = TRUE /\ forwarded' = 0 /\ latest' = 0
  /\ task' = [l \in Links |-> "none"]
  /\ sequence' = [l \in Links |-> 0]
  /\ out' = <<>> /\ sse' = <<>> /\ page' = Nothing
  /\ UNCHANGED <<admitted, online, up>>

-----------------------------------------------------------------------------
Forward(l) == Observe(l) \/ Encode(l) \/ Send(l) \/ Poll(l) \/ Remove(l)
Page == PageHosts \/ PageMerges \/ PageReconnects

Next ==
  \/ Admit
  \/ \E l \in Links : LinkEnds(l) \/ Forward(l)
  \/ Hosts \/ Message \/ Page

Spec == Init /\ [][Next]_vars

\* The response, its forwarders and the page run; links come and go freely,
\* but a replaced link does end (its relay loop notices at the next ping).
Fairness ==
  /\ SF_vars(Hosts) /\ SF_vars(Message) /\ WF_vars(Page)
  /\ \A l \in Links : SF_vars(Forward(l)) /\ WF_vars(l # online /\ LinkEnds(l))

FairSpec == Spec /\ Fairness

-----------------------------------------------------------------------------
(* Properties                                                              *)

\* "A host that comes online joins the stream" (DEVELOPMENT.md): the page
\* comes to show the host from its current link, even when updates of old
\* links disturb it and the page has to connect again.  Only the failure of
\* its own session leaves the host out (forward_remote).
HostJoins ==
  \A l \in Links : online = l ~> page.link = l \/ online # l \/ task[l] = "done"

\* The forwarder of a link that is gone ends, unless the page was done with
\* its response first: it does not wait for ever in a full channel.
ForwarderEnds ==
  \A l \in Links : task[l] \in Tasks \ {"none", "done"} /\ l \notin up
                     ~> task[l] \in {"none", "done"}

\* "Each host has its own sequence and delta baseline" (DEVELOPMENT.md): a
\* change is merged with the snapshot that it is a change of.
OwnBaseline == ~page.mixed

=============================================================================
