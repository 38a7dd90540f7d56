----------------------------- MODULE NetlinkDump -----------------------------
(***************************************************************************)
(* The dumps of one RDMA scan over one netlink socket (netlink.rs,         *)
(* rdma/nldev.rs): first the devices, then the queue pairs and the CM IDs  *)
(* of each. A dump that fails leaves the rest of its replies on the socket *)
(* for the dumps that follow.                                              *)
(***************************************************************************)
EXTENDS Naturals, Sequences, FiniteSets

CONSTANTS
  NDevices,    \* RDMA devices
  MaxPackets,  \* bound: data packets of one dump
  ReplyLimit,  \* 8 MiB: packets one dump may take
  Faults       \* bound: how often a dump is disturbed

\* Dump 1 asks for the devices, dump 2d for the queue pairs of device d, 2d + 1 for
\* its CM IDs. Sequence numbers count the dumps.
Dumps == 1..(2 * NDevices + 1)
MessageType(k) == IF k = 1 THEN "device" ELSE IF k % 2 = 0 THEN "qp" ELSE "cm"

VARIABLES
  packets,  \* data packets the kernel has for each dump
  ending,   \* how the kernel ends each dump
  sock,     \* packets waiting on the socket
  running,  \* the dump the kernel still produces, and the packets it has made; <<>>: none
  k,        \* the dump in hand
  phase,    \* send, receive, end
  replies,  \* bodies the dump in hand has taken
  total,    \* packets it has taken
  result,   \* what each dump returned
  failed    \* the whole scan failed

vars == <<packets, ending, sock, running, k, phase, replies, total, result, failed>>

Packet(s, kind, i) == [seq |-> s, kind |-> kind, index |-> i]

-----------------------------------------------------------------------------
(* The kernel                                                              *)

\* The next packet of a running dump, made when one is taken from the socket.
Produced(run) ==
  IF run = <<>> THEN <<>>
  ELSE IF run[2] < packets[run[1]] THEN <<Packet(run[1], MessageType(run[1]), run[2] + 1)>>
  ELSE <<Packet(run[1], ending[run[1]], 0)>>
Continued(run) ==
  IF run = <<>> \/ run[2] >= packets[run[1]] THEN <<>> ELSE <<run[1], run[2] + 1>>

\* A second dump on a busy socket is refused.
Requested ==
  IF ending[k] = "unsupported"
    THEN sock' = Append(sock, Packet(k, "unsupported", 0)) /\ UNCHANGED running
  ELSE IF running # <<>>
    THEN sock' = Append(sock, Packet(k, "busy", 0)) /\ UNCHANGED running
  ELSE /\ sock' = sock \o Produced(<<k, 0>>)
       /\ running' = Continued(<<k, 0>>)

-----------------------------------------------------------------------------
(* collect_netlink_dump                                                    *)

Send ==
  /\ phase = "send" /\ ~failed
  /\ Requested
  /\ phase' = "receive" /\ replies' = <<>> /\ total' = 0
  /\ UNCHANGED <<packets, ending, k, result, failed>>

\* The rows of a whole dump. Later dumps go on after a failed one, except after the
\* devices'.
Returned(what) ==
  /\ result' = [result EXCEPT ![k] = what]
  /\ failed' = (k = 1 /\ what.error # "none")
  /\ k' = IF k < 2 * NDevices + 1 THEN k + 1 ELSE k
  /\ phase' = IF k < 2 * NDevices + 1 THEN "send" ELSE "end"
  /\ replies' = <<>> /\ total' = 0

Ok(rows) == [error |-> "none", rows |-> rows]
Err(why) == [error |-> why, rows |-> <<>>]

MutantInterrupted(p) == FALSE

\* A reply of another request, or of a table that changed during the dump.
Interrupted(p) == p.seq # k

\* receive_replies: one packet.
Receive ==
  /\ phase = "receive" /\ ~failed /\ sock # <<>>
  /\ LET p == Head(sock) IN
     /\ sock' = Tail(sock) \o Produced(running)
     /\ running' = Continued(running)
     /\ IF total + 1 > ReplyLimit THEN Returned(Err("limit"))
        ELSE IF Interrupted(p) THEN Returned(Err("interrupted"))
        ELSE IF p.kind = "done" THEN Returned(Ok(replies))
        ELSE IF p.kind \in {"failed", "busy", "unsupported"} THEN Returned(Err(p.kind))
        ELSE IF p.kind # MessageType(k) THEN Returned(Err("unexpected"))
        ELSE /\ replies' = Append(replies, <<p.seq, p.index>>)
             /\ total' = total + 1
             /\ UNCHANGED <<k, phase, result, failed>>
  /\ UNCHANGED <<packets, ending>>

\* The kernel reports that the table changed during the dump, or a packet is
\* truncated, malformed or not the kernel's.
Disturbed ==
  /\ phase = "receive" /\ ~failed /\ sock # <<>> /\ Head(sock).seq = k
  /\ Cardinality({j \in Dumps : result[j].error = "changed"}) < Faults
  /\ sock' = Tail(sock) \o Produced(running)
  /\ running' = Continued(running)
  /\ Returned(Err("changed"))
  /\ UNCHANGED <<packets, ending>>

\* The deadline ends the scan in any dump.
TimedOut ==
  /\ phase # "end" /\ ~failed
  /\ failed' = TRUE
  /\ UNCHANGED <<packets, ending, sock, running, k, phase, replies, total, result>>

Init ==
  /\ packets \in [Dumps -> 0..MaxPackets] /\ packets[1] = 1
  /\ ending \in [Dumps -> {"done", "failed", "unsupported"}] /\ ending[1] = "done"
  /\ sock = <<>> /\ running = <<>>
  /\ k = 1 /\ phase = "send" /\ replies = <<>> /\ total = 0
  /\ result = [j \in Dumps |-> Err("unread")]
  /\ failed = FALSE

Next == Send \/ Receive \/ Disturbed \/ TimedOut

Spec == Init /\ [][Next]_vars

-----------------------------------------------------------------------------
(* Properties                                                              *)

\* A dump that returns rows returns all the rows of its own table in order and no
\* others, whatever earlier dumps left on the socket.
DumpsWhole ==
  \A j \in Dumps : result[j].error = "none" =>
    result[j].rows = [i \in 1..packets[j] |-> <<j, i>>]

=============================================================================
