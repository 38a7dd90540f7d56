----------------------------- MODULE MCStreams ------------------------------
(* What crosses a stream piece by piece, for TLC: the frames on the byte    *)
(* stream to the helper, and the snapshots of a host on the merged stream   *)
(* of a page.  `which` says which of them a behaviour is about; the         *)
(* variables of the merged stream stay as they start, those of the          *)
(* transport stay Off.                                                      *)
EXTENDS IpcTransport, TLC

CONSTANTS
  MaxLinks, MaxSnapshots, OutCapacity, SseCapacity, Overlap,
  Off

VARIABLES
  which,
  admitted, online, up, changed, forwarded, task, sequence, latest, forwards, sse, page

Merged == INSTANCE MergedStream WITH out <- forwards

mergedVars == <<admitted, online, up, changed, forwarded, task, sequence, latest, forwards,
                sse, page>>
allVars == <<which, vars, mergedVars>>

NoTransport ==
  /\ exchanges = Off /\ turn = Off /\ state = Off /\ out = Off /\ pipe = Off
  /\ part = Off /\ want = Off /\ got = Off /\ heard = Off /\ cause = Off
  /\ short = Off

-----------------------------------------------------------------------------
(* Values of every type of the schema, made from a seed so that             *)
(* neighbouring fields differ and all variants come up.                     *)

RECURSIVE Value(_, _)

Value(t, s) ==
  CASE t.k = "num" -> IF t.w = 1 THEN (s * 7) % 256 ELSE (s * 131) % 60000
    [] t.k \in {"text", "blob"} -> [i \in 1 .. s % 3 |-> 97 + ((s + i) % 26)]
    [] t.k = "vec" -> [i \in 1 .. (s % 2) |-> Value(t.of, s + i)]
    [] t.k = "struct" -> [i \in DOMAIN t.of |-> Value(t.of[i], s + i)]
    [] t.k = "enum" ->
         LET tags == DOMAIN t.of
             tag == CHOOSE x \in tags :
                      Cardinality({y \in tags : y < x}) = s % Cardinality(tags)
         IN <<tag, [i \in DOMAIN t.of[tag] |-> Value(t.of[tag][i], s + i)]>>
    [] t.k = "hand" ->
         [f \in DOMAIN t.of |->
            Value(t.of[f], s + (CHOOSE i \in DOMAIN t.write : t.write[i] = f))]
    [] t.k = "checked" ->
         <<[i \in 1 .. t.n |-> s + i], Value(t.of.of[2], s), Value(t.of.of[3], s + 1)>>

Seeds == 0 .. 5

\* The reply to a request of each kind, and the longest request.
Request(tag, s) == <<tag, [i \in DOMAIN MonitorRequest.of[tag] |->
                             Value(MonitorRequest.of[tag][i], s + i)]>>
Longest == <<2, <<Value(ProcessId, 1), 4096, [i \in 1 .. 60 |-> Value(FileRange, i)]>> >>
Done(tag, fields) == <<0, << <<tag, fields>> >> >>
Some(v) == <<1, <<v>> >>
Event(tag, s) == <<tag, [i \in DOMAIN MonitorEvent.of[tag] |->
                           Value(MonitorEvent.of[tag][i], s + i)]>>
Data(tag, s) == <<tag, <<Value(AcquiredData.of[tag][1], s)>> >>

Replies(tag, s) ==
  CASE tag = 0 -> {Done(0, <<Data(0, s)>>)}
    [] tag = 1 -> {Done(0, <<Data(k, s)>>) : k \in 1 .. 5}
    [] tag = 2 -> {Done(1, <<Value(Option(MappedFileData), s)>>)}
    [] tag = 3 -> {Done(3, <<s, Event(0, s)>>)}
    [] tag = 4 -> {Done(3, <<s, Event(1, s)>>)}
    [] tag = 5 -> {Done(4, <<Some(Event(k, s)), Value(Bool, s)>>) : k \in 0 .. 3}
    [] tag = 6 -> {Done(5, <<>>), <<1, << <<98, 97>> >> >>}

Pairs ==
  UNION {UNION {{<<Request(tag, s), reply>> : reply \in Replies(tag, s)}
                : tag \in 0 .. 6} : s \in Seeds}

MCExchanges == {<<p>> : p \in Pairs}
               \cup {<< <<Longest, p[2]>>, p>> : p \in {q \in Pairs : q[1][1] \in {2, 6}}}

-----------------------------------------------------------------------------
MCInit ==
  /\ Merged!Init
  /\ \/ which = "transport" /\ Init
     \/ which = "merged" /\ NoTransport

MCNext ==
  /\ UNCHANGED which
  /\ \/ which = "transport" /\ Next /\ UNCHANGED mergedVars
     \/ which = "merged" /\ Merged!Next /\ UNCHANGED vars
     \* Nothing more may happen to the hosts; a connection goes on until it has ended.
     \/ which = "merged" /\ UNCHANGED <<vars, mergedVars>>

\* The fairness of the merged stream, where a behaviour is about it.
InMerged == which = "merged"
Fairness ==
  /\ SF_mergedVars(InMerged /\ Merged!Hosts) /\ SF_mergedVars(InMerged /\ Merged!Message)
  /\ WF_mergedVars(InMerged /\ Merged!Page)
  /\ \A l \in Merged!Links :
       /\ SF_mergedVars(InMerged /\ Merged!Forward(l))
       /\ WF_mergedVars(InMerged /\ l # online /\ Merged!LinkEnds(l))

MCSpec == MCInit /\ [][MCNext]_allVars /\ Fairness

-----------------------------------------------------------------------------
(* Properties                                                              *)

\* However the kernel cuts up the frames of ipc/transport.rs, both sides decode the
\* values that were sent, in order and with every field in its place.
FramesInSync == which = "transport" => InSync

\* A connection ends for a fault only: a request or a reply the schema allows never
\* breaks it, the longest request and a reply over the limit included.
FaultsEndConnection == which = "transport" => OnlyFaultsEnd

\* A host that comes online joins the merged stream: the page comes to show it from
\* its current link (build_merged_event_response, forward_remote).
HostJoins == Merged!HostJoins

\* The forwarder of a link that is gone ends (forward_remote in api/merged.rs).
ForwarderEnds == Merged!ForwarderEnds
=============================================================================
