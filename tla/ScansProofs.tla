----------------------------- MODULE ScansProofs -----------------------------
(***************************************************************************)
(* Proofs about the acquisitions that read a changing system: the netlink  *)
(* dumps, the scan of the descriptors of a process, and the scan of the    *)
(* system with the relations built from it.  Each theorem is about the     *)
(* component alone, for all values of its constants, and about the         *)
(* behaviours of MCScans, where it is one of several.                      *)
(***************************************************************************)
EXTENDS MCScans, FiniteSetTheorems, SequenceTheorems, TLAPS

-----------------------------------------------------------------------------
(* The components in the behaviours of MCScans.                            *)

\* A behaviour about the netlink dumps is one of NetlinkDump, for good.
LEMMA AboutNetlink ==
  /\ MCInit /\ which = "netlink" => Netlink!Init
  /\ which = "netlink" /\ [MCNext]_allVars => (which = "netlink")' /\ [Netlink!Next]_Netlink!vars
  /\ which # "netlink" /\ [MCNext]_allVars => (which # "netlink")'
  BY DEF MCInit, NetlinkInit, MCNext, allVars, dumpOnly, Netlink!vars

\* A behaviour about descriptors is one of DescriptorScan, for good.
LEMMA AboutDescriptors ==
  /\ MCInit /\ which = "descriptors" => Fd!Init
  /\ which = "descriptors" /\ [MCNext]_allVars => (which = "descriptors")' /\ [Fd!Next]_Fd!vars
  /\ which # "descriptors" /\ [MCNext]_allVars => (which # "descriptors")'
  BY DEF MCInit, DescriptorsInit, MCNext, allVars, scanOnly, fdOnly, Fd!vars, Fd!world, Fd!result

-----------------------------------------------------------------------------
(* NetlinkDump: a table that is returned is whole and its own.             *)

Packets == [seq : Netlink!Dumps,
            kind : {"device", "qp", "cm", "done", "failed", "unsupported", "busy"}, index : Nat]

DumpType ==
  /\ packets \in [Netlink!Dumps -> Nat]
  /\ ending \in [Netlink!Dumps -> {"done", "failed", "unsupported"}]
  /\ k \in Netlink!Dumps /\ phase \in {"send", "receive", "end"}
  /\ sock \in Seq(Packets)
  /\ running = <<>> \/ running \in Netlink!Dumps \X Nat
  /\ outcome = [j \in Netlink!Dumps |-> outcome[j]]

\* No packet of a dump precedes its request.
Behind ==
  /\ \A i \in DOMAIN sock : sock[i].seq <= k /\ (phase = "send" => sock[i].seq # k)
  /\ running # <<>> => running[1] <= k /\ (phase = "send" => running[1] # k)

\* The packet that follows n bodies of the dump in hand.
Awaited(n) ==
  IF n < packets[k] THEN Netlink!Packet(k, Netlink!MessageType(k), n + 1)
                    ELSE Netlink!Packet(k, ending[k], 0)

\* What was taken are the first rows of the table, and the one packet of this dump
\* on the socket is the next one or a refusal, whatever else is there.
InHand ==
  phase = "receive" =>
    /\ replies \in Seq(Nat \X Nat) /\ Len(replies) <= packets[k]
    /\ \A i \in 1..Len(replies) : replies[i] = <<k, i>>
    /\ \A i \in DOMAIN sock : sock[i].seq = k =>
         sock[i].kind \in {"busy", "unsupported"} \/ sock[i] = Awaited(Len(replies))
    /\ \A i, j \in DOMAIN sock : sock[i].seq = k /\ sock[j].seq = k => i = j
    /\ running # <<>> /\ running[1] = k => Len(replies) < packets[k] /\ running[2] = Len(replies) + 1

DumpInv == DumpType /\ Behind /\ InHand /\ Netlink!DumpsWhole

\* At most one packet comes to the end of the socket, and one may go.
LEMMA Extended ==
  ASSUME NEW S, NEW s \in Seq(S), NEW p \in Seq(S), Len(p) <= 1
  PROVE  /\ s \o p \in Seq(S)
         /\ \A i \in DOMAIN (s \o p) :
              \/ i \in DOMAIN s /\ (s \o p)[i] = s[i]
              \/ i = Len(s) + 1 /\ Len(p) = 1 /\ (s \o p)[i] = p[1]
  <1>1. /\ s \o p \in Seq(S) /\ DOMAIN (s \o p) = 1..(Len(s) + Len(p))
        /\ Len(s) \in Nat /\ Len(p) \in Nat /\ DOMAIN s = 1..Len(s)
    OBVIOUS
  <1>2. ASSUME NEW i \in 1..(Len(s) + Len(p))
        PROVE  \/ i \in 1..Len(s) /\ (s \o p)[i] = s[i]
               \/ i = Len(s) + 1 /\ Len(p) = 1 /\ (s \o p)[i] = p[1]
    <2>1. CASE i <= Len(s)
      BY <1>1, <2>1
    <2>2. CASE i > Len(s)
      <3>1. Len(p) = 1 /\ i = Len(s) + 1 /\ i - Len(s) = 1
        <4>1. \A m, n \in Nat : \A j \in 1..(m + n) :
                n <= 1 /\ j > m => n = 1 /\ j = m + 1 /\ j - m = 1
          OBVIOUS
        <4> QED
          BY <1>1, <2>2, <4>1
      <3>2. (s \o p)[i] = p[i - Len(s)]
        BY <1>1, <2>2, ConcatProperties
      <3> QED
        BY <3>1, <3>2
    <2> QED
      BY <1>1, <2>1, <2>2
  <1> QED
    BY <1>1, <1>2

LEMMA Shifted ==
  ASSUME NEW S, NEW s \in Seq(S), s # <<>>, NEW p \in Seq(S), Len(p) <= 1
  PROVE  /\ Tail(s) \o p \in Seq(S) /\ Head(s) \in S /\ 1 \in DOMAIN s /\ Head(s) = s[1]
         /\ \A i \in DOMAIN (Tail(s) \o p) :
              \/ i + 1 \in DOMAIN s /\ i + 1 # 1 /\ i # Len(s) /\ (Tail(s) \o p)[i] = s[i + 1]
              \/ i = Len(s) /\ Len(p) = 1 /\ (Tail(s) \o p)[i] = p[1]
  <1>1. Len(s) \in Nat \ {0} /\ DOMAIN s = 1..Len(s)
    BY EmptySeq
  <1> DEFINE a == Tail(s)
  <1>2. /\ a \in Seq(S) /\ Len(a) = Len(s) - 1 /\ Head(s) = s[1] /\ Head(s) \in S
        /\ \A i \in 1..(Len(s) - 1) : a[i] = s[i + 1]
    BY <1>1, HeadTailProperties
  <1> HIDE DEF a
  <1>3. /\ a \o p \in Seq(S)
        /\ \A i \in DOMAIN (a \o p) :
             \/ i \in DOMAIN a /\ (a \o p)[i] = a[i]
             \/ i = Len(a) + 1 /\ Len(p) = 1 /\ (a \o p)[i] = p[1]
    BY <1>2, Extended
  <1>4. \A i \in DOMAIN a : i \in 1..(Len(s) - 1) /\ i + 1 \in 1..Len(s) /\ i + 1 # 1 /\ i # Len(s)
    BY <1>1, <1>2
  <1>5. Len(a) + 1 = Len(s) /\ 1 \in 1..Len(s)
    BY <1>1, <1>2
  <1> QED
    BY <1>1, <1>2, <1>3, <1>4, <1>5 DEF a

\* The kernel makes the next packet of the dump it runs.
LEMMA Production ==
  ASSUME DumpInv, NEW run \in Netlink!Dumps \X Nat
  PROVE  /\ Netlink!Produced(run) \in Seq(Packets) /\ Len(Netlink!Produced(run)) = 1
         /\ Netlink!Produced(run)[1] =
              IF run[2] < packets[run[1]]
                THEN Netlink!Packet(run[1], Netlink!MessageType(run[1]), run[2] + 1)
                ELSE Netlink!Packet(run[1], ending[run[1]], 0)
         /\ Netlink!Produced(run)[1].seq = run[1]
         /\ Netlink!Continued(run) =
              IF run[2] < packets[run[1]] THEN <<run[1], run[2] + 1>> ELSE <<>>
  <1>1. run[1] \in Netlink!Dumps /\ run[2] \in Nat /\ packets[run[1]] \in Nat
    BY DEF DumpInv, DumpType
  <1>0. run # <<>>
    <2>1. PICK x \in Netlink!Dumps, y \in Nat : run = <<x, y>>
      OBVIOUS
    <2>2. Len(<<x, y>>) = 2 /\ Len(<<>>) = 0
      OBVIOUS
    <2> QED
      BY <2>1, <2>2
  <1>2. /\ Netlink!Packet(run[1], Netlink!MessageType(run[1]), run[2] + 1) \in Packets
        /\ Netlink!Packet(run[1], ending[run[1]], 0) \in Packets
    BY <1>1 DEF Netlink!Packet, Netlink!MessageType, Packets, DumpInv, DumpType
  <1>3. \A x, y, z : Netlink!Packet(x, y, z).seq = x
    BY DEF Netlink!Packet
  <1> QED
    BY <1>0, <1>1, <1>2, <1>3 DEF Netlink!Produced, Netlink!Continued

\* Taking a packet leaves behind those of the requests so far.
LEMMA TakenBehind ==
  ASSUME DumpInv, sock # <<>>,
         sock' = Tail(sock) \o Netlink!Produced(running), running' = Netlink!Continued(running)
  PROVE  /\ sock' \in Seq(Packets)
         /\ \A i \in DOMAIN sock' : sock'[i].seq <= k
         /\ running' = <<>> \/ running' \in Netlink!Dumps \X Nat
         /\ running' # <<>> => /\ running # <<>> /\ running[2] < packets[running[1]]
                              /\ running' = <<running[1], running[2] + 1>> /\ running'[1] <= k
         /\ Head(sock) \in Packets /\ 1 \in DOMAIN sock /\ Head(sock) = sock[1]
         /\ \A i \in DOMAIN sock' :
              \/ i + 1 \in DOMAIN sock /\ i + 1 # 1 /\ i # Len(sock) /\ sock'[i] = sock[i + 1]
              \/ i = Len(sock) /\ running # <<>> /\ sock'[i] = Netlink!Produced(running)[1]
  <1>1. sock \in Seq(Packets) /\ \A i \in DOMAIN sock : sock[i].seq <= k
    BY DEF DumpInv, DumpType, Behind
  <1>2. CASE running = <<>>
    <2>1. Netlink!Produced(running) = <<>> /\ running' = <<>>
      BY <1>2 DEF Netlink!Produced, Netlink!Continued
    <2>2. <<>> \in Seq(Packets) /\ Len(<<>>) = 0
      OBVIOUS
    <2>3. /\ sock' \in Seq(Packets) /\ Head(sock) \in Packets /\ 1 \in DOMAIN sock
          /\ Head(sock) = sock[1]
          /\ \A i \in DOMAIN sock' :
               \/ i + 1 \in DOMAIN sock /\ i + 1 # 1 /\ i # Len(sock) /\ sock'[i] = sock[i + 1]
               \/ i = Len(sock) /\ Len(<<>>) = 1
      <3>1. sock' = Tail(sock) \o <<>>
        BY <2>1
      <3>2. /\ Tail(sock) \o <<>> \in Seq(Packets) /\ Head(sock) \in Packets /\ 1 \in DOMAIN sock
            /\ Head(sock) = sock[1]
            /\ \A i \in DOMAIN (Tail(sock) \o <<>>) :
                 \/ /\ i + 1 \in DOMAIN sock /\ i + 1 # 1 /\ i # Len(sock)
                    /\ (Tail(sock) \o <<>>)[i] = sock[i + 1]
                 \/ i = Len(sock) /\ Len(<<>>) = 1
        BY <1>1, <2>2, Shifted
      <3> QED
        BY <3>1, <3>2
    <2> QED
      BY <1>1, <1>2, <2>1, <2>2, <2>3
  <1>3. CASE running # <<>>
    <2>1. running \in Netlink!Dumps \X Nat /\ running[1] <= k
      BY <1>3 DEF DumpInv, DumpType, Behind
    <2>2. /\ Netlink!Produced(running) \in Seq(Packets) /\ Len(Netlink!Produced(running)) = 1
          /\ Netlink!Produced(running)[1].seq = running[1]
          /\ running' = IF running[2] < packets[running[1]]
                          THEN <<running[1], running[2] + 1>> ELSE <<>>
      BY <2>1, Production
    <2>3. running' = <<>> \/ running' \in Netlink!Dumps \X Nat
      BY <2>1, <2>2
    <2>4. /\ sock' \in Seq(Packets) /\ Head(sock) \in Packets /\ 1 \in DOMAIN sock
          /\ Head(sock) = sock[1]
          /\ \A i \in DOMAIN sock' :
               \/ i + 1 \in DOMAIN sock /\ i + 1 # 1 /\ i # Len(sock) /\ sock'[i] = sock[i + 1]
               \/ i = Len(sock) /\ sock'[i] = Netlink!Produced(running)[1]
      <3> DEFINE p == Netlink!Produced(running)
      <3>1. p \in Seq(Packets) /\ Len(p) = 1 /\ Len(p) <= 1 /\ sock' = Tail(sock) \o p
        BY <2>2
      <3> HIDE DEF p
      <3>2. /\ Tail(sock) \o p \in Seq(Packets) /\ Head(sock) \in Packets /\ 1 \in DOMAIN sock
            /\ Head(sock) = sock[1]
            /\ \A i \in DOMAIN (Tail(sock) \o p) :
                 \/ /\ i + 1 \in DOMAIN sock /\ i + 1 # 1 /\ i # Len(sock)
                    /\ (Tail(sock) \o p)[i] = sock[i + 1]
                 \/ i = Len(sock) /\ Len(p) = 1 /\ (Tail(sock) \o p)[i] = p[1]
        BY <1>1, <3>1, Shifted, SMTT(60)
      <3> QED
        BY <3>1, <3>2 DEF p
    <2>5. \A i \in DOMAIN sock' : sock'[i].seq <= k
      BY <1>1, <2>1, <2>2, <2>4
    <2> QED
      BY <1>3, <2>1, <2>2, <2>3, <2>4, <2>5
  <1> QED
    BY <1>2, <1>3

\* A dump that ends gives way to the next one, or to nothing after the last.
LEMMA ReturnKeeps ==
  ASSUME NDevices \in Nat, DumpInv, phase = "receive", sock # <<>>, NEW what, Netlink!Returned(what),
         sock' = Tail(sock) \o Netlink!Produced(running), running' = Netlink!Continued(running),
         what.error = "none" => what.rows = [i \in 1..packets[k] |-> <<k, i>>],
         UNCHANGED <<packets, ending>>
  PROVE  DumpInv'
  <1>1. /\ k \in Netlink!Dumps /\ k \in Nat /\ k' \in Netlink!Dumps /\ k' \in Nat
        /\ \/ k' = k + 1 /\ phase' = "send"
           \/ k' = k /\ phase' = "end"
    BY DEF Netlink!Returned, DumpInv, DumpType, Netlink!Dumps
  <1>2. /\ Netlink!DumpsWhole'
        /\ outcome' = [j \in Netlink!Dumps |-> outcome'[j]]
    BY <1>1 DEF Netlink!Returned, DumpInv, DumpType, Netlink!DumpsWhole
  <1>3. /\ sock' \in Seq(Packets)
        /\ \A i \in DOMAIN sock' : sock'[i].seq <= k
    BY TakenBehind
  <1>4. \A i \in DOMAIN sock' : sock'[i].seq \in Nat
    <2>1. \A i \in DOMAIN sock' : sock'[i] \in Packets
      BY <1>3
    <2>2. \A p \in Packets : p.seq \in Netlink!Dumps
      BY DEF Packets
    <2> QED
      BY <2>1, <2>2 DEF Netlink!Dumps
  <1>5. /\ running' = <<>> \/ running' \in Netlink!Dumps \X Nat
        /\ running' # <<>> => running'[1] <= k /\ running'[1] \in Nat
    BY TakenBehind DEF Netlink!Dumps
  <1>6. DumpType'
    BY <1>1, <1>2, <1>3, <1>5 DEF DumpType, DumpInv
  <1>7. Behind'
    BY <1>1, <1>3, <1>4, <1>5 DEF Behind
  <1>8. InHand'
    BY <1>1 DEF InHand
  <1> QED
    BY <1>2, <1>6, <1>7, <1>8 DEF DumpInv

\* A request puts one packet on the socket: its first, or a refusal.
LEMMA SendKeeps ==
  ASSUME DumpInv, Netlink!Send
  PROVE  DumpInv'
  <1>1. /\ k \in Netlink!Dumps /\ k \in Nat /\ packets[k] \in Nat /\ sock \in Seq(Packets)
        /\ phase = "send" /\ phase' = "receive" /\ replies' = <<>>
        /\ UNCHANGED <<packets, ending, k, outcome>>
    BY DEF DumpInv, DumpType, Netlink!Send, Netlink!Dumps
  <1>2. /\ \A i \in DOMAIN sock : sock[i].seq <= k /\ sock[i].seq # k
        /\ running # <<>> => running[1] <= k /\ running[1] # k
    BY <1>1 DEF DumpInv, Behind
  <1>3. \A x, y, z : Netlink!Packet(x, y, z).seq = x /\ Netlink!Packet(x, y, z).kind = y
    BY DEF Netlink!Packet
  <1> DEFINE Sent(q) ==
        /\ sock' = sock \o <<q>> /\ q.seq = k
        /\ q.kind \in {"busy", "unsupported"} \/ q = Awaited(0)'
        /\ running' = <<>> \/ running' \in Netlink!Dumps \X Nat
        /\ \/ running' = running
           \/ running' = <<>>
           \/ running' = <<k, 1>> /\ 0 < packets[k]
  <1>4. \E q \in Packets : Sent(q)
    <2>1. ASSUME NEW kind \in {"busy", "unsupported"},
                 sock' = Append(sock, Netlink!Packet(k, kind, 0)), UNCHANGED running
          PROVE  \E q \in Packets : Sent(q)
      <3>1. Netlink!Packet(k, kind, 0) \in Packets
        BY <1>1 DEF Netlink!Packet, Packets
      <3>2. sock' = sock \o <<Netlink!Packet(k, kind, 0)>>
        BY <1>1, <2>1, <3>1, AppendIsConcat
      <3>3. running' = <<>> \/ running' \in Netlink!Dumps \X Nat
        BY <2>1 DEF DumpInv, DumpType
      <3>4. /\ Netlink!Packet(k, kind, 0).seq = k /\ running' = running
            /\ Netlink!Packet(k, kind, 0).kind \in {"busy", "unsupported"}
        BY <1>3, <2>1
      <3>5. Sent(Netlink!Packet(k, kind, 0))
        BY <3>2, <3>3, <3>4
      <3> QED
        BY <3>1, <3>5
    <2>2. ASSUME sock' = sock \o Netlink!Produced(<<k, 0>>), running' = Netlink!Continued(<<k, 0>>)
          PROVE  \E q \in Packets : Sent(q)
      <3>1. <<k, 0>> \in Netlink!Dumps \X Nat /\ <<k, 0>>[1] = k /\ <<k, 0>>[2] = 0
        BY <1>1
      <3> DEFINE p == Netlink!Produced(<<k, 0>>)
      <3>2. /\ p \in Seq(Packets) /\ Len(p) = 1 /\ p[1] = Awaited(0) /\ p[1].seq = k
            /\ running' = IF 0 < packets[k] THEN <<k, 0 + 1>> ELSE <<>>
        BY <2>2, <3>1, Production, Zenon DEF Awaited
      <3> HIDE DEF p
      <3>3. p = <<p[1]>> /\ p[1] \in Packets
        BY <3>2
      <3>4. Awaited(0)' = Awaited(0) /\ 0 + 1 = 1
        BY <1>1 DEF Awaited
      <3>5. sock' = sock \o <<p[1]>>
        BY <2>2, <3>3 DEF p
      <3>6. running' = <<>> \/ running' \in Netlink!Dumps \X Nat
        BY <1>1, <3>2
      <3> QED
        BY <3>2, <3>3, <3>4, <3>5, <3>6
    <2> QED
      BY <2>1, <2>2 DEF Netlink!Send, Netlink!Requested
  <1>5. PICK q \in Packets : Sent(q)
    BY <1>4
  <1>6. /\ sock' \in Seq(Packets)
        /\ \A i \in DOMAIN sock' :
             \/ i \in DOMAIN sock /\ sock'[i] = sock[i]
             \/ i = Len(sock) + 1 /\ sock'[i] = q
    <2>1. <<q>> \in Seq(Packets) /\ Len(<<q>>) = 1 /\ Len(<<q>>) <= 1 /\ <<q>>[1] = q
      BY <1>5
    <2>2. /\ sock \o <<q>> \in Seq(Packets)
          /\ \A i \in DOMAIN (sock \o <<q>>) :
               \/ i \in DOMAIN sock /\ (sock \o <<q>>)[i] = sock[i]
               \/ i = Len(sock) + 1 /\ Len(<<q>>) = 1 /\ (sock \o <<q>>)[i] = <<q>>[1]
      BY <1>1, <2>1, Extended, SMTT(30)
    <2> QED
      BY <1>5, <2>1, <2>2
  <1>7. DumpType'
    BY <1>1, <1>5, <1>6 DEF DumpType, DumpInv
  <1>8. Behind'
    BY <1>1, <1>2, <1>5, <1>6 DEF Behind
  <1>9. Len(replies') = 0 /\ replies' \in Seq(Nat \X Nat)
    BY <1>1
  <1>10. InHand'
    <2>1. \A i \in DOMAIN sock' : sock'[i].seq = k => i = Len(sock) + 1 /\ sock'[i] = q
      BY <1>2, <1>6
    <2>2. running' # <<>> /\ running'[1] = k => 0 < packets[k] /\ running'[2] = 0 + 1
      BY <1>2, <1>5
    <2>3. \A i \in 1..Len(replies') : replies'[i] = <<k, i>>'
      BY <1>9
    <2> QED
      BY <1>1, <1>5, <1>9, <2>1, <2>2, <2>3 DEF InHand
  <1> QED
    BY <1>1, <1>7, <1>8, <1>10 DEF DumpInv, Netlink!DumpsWhole

\* A packet of the dump in hand is the next row, or ends the dump.
LEMMA ReceiveKeeps ==
  ASSUME NDevices \in Nat, DumpInv, Netlink!Receive
  PROVE  DumpInv'
  <1> DEFINE p == Head(sock)
             n == Len(replies)
  <1>1. /\ phase = "receive" /\ sock # <<>>
        /\ sock' = Tail(sock) \o Netlink!Produced(running) /\ running' = Netlink!Continued(running)
        /\ UNCHANGED <<packets, ending>>
    BY DEF Netlink!Receive
  <1>2. /\ k \in Netlink!Dumps /\ k \in Nat /\ packets[k] \in Nat
        /\ ending[k] \in {"done", "failed", "unsupported"}
    BY DEF DumpInv, DumpType, Netlink!Dumps
  <1>3. /\ replies \in Seq(Nat \X Nat) /\ n \in Nat /\ n <= packets[k]
        /\ \A i \in 1..n : replies[i] = <<k, i>>
    BY <1>1 DEF DumpInv, InHand
  <1>4. p = sock[1] /\ 1 \in DOMAIN sock
    BY <1>1, TakenBehind
  <1>5. p.seq = k => p.kind \in {"busy", "unsupported"} \/ p = Awaited(n)
    BY <1>1, <1>4 DEF DumpInv, InHand
  <1>6. ASSUME NEW why \in {"limit", "interrupted", "failed", "busy", "unsupported", "unexpected"},
               Netlink!Returned(Netlink!Err(why))
        PROVE  DumpInv'
    <2>1. Netlink!Err(why).error # "none"
      BY DEF Netlink!Err
    <2> QED
      BY <1>1, <1>6, <2>1, ReturnKeeps
  <1>7. ASSUME p.seq = k, p.kind = "done", Netlink!Returned(Netlink!Ok(replies))
        PROVE  DumpInv'
    <2>1. n = packets[k]
      BY <1>2, <1>3, <1>5, <1>7 DEF Awaited, Netlink!Packet, Netlink!MessageType
    <2>2. replies = [i \in 1..packets[k] |-> <<k, i>>]
      BY <1>3, <2>1, SMTT(30)
    <2>3. Netlink!Ok(replies).rows = [i \in 1..packets[k] |-> <<k, i>>]
      BY <2>2 DEF Netlink!Ok
    <2> QED
      BY <1>1, <1>7, <2>3, ReturnKeeps
  <1>8. ASSUME p.seq = k, p.kind \notin {"done", "failed", "busy", "unsupported"},
               replies' = Append(replies, <<p.seq, p.index>>), UNCHANGED <<k, phase, outcome>>
        PROVE  DumpInv'
    <2>1. n < packets[k] /\ p = Netlink!Packet(k, Netlink!MessageType(k), n + 1)
      BY <1>2, <1>3, <1>5, <1>8 DEF Awaited, Netlink!Packet
    <2>2. p.index = n + 1
      BY <2>1 DEF Netlink!Packet
    <2>3. /\ replies' \in Seq(Nat \X Nat) /\ Len(replies') = n + 1 /\ n + 1 <= packets[k]
          /\ \A i \in 1..(n + 1) : replies'[i] = <<k, i>>
      BY <1>2, <1>3, <1>8, <2>1, <2>2, SMTT(30)
    <2>4. /\ sock' \in Seq(Packets)
          /\ \A i \in DOMAIN sock' : sock'[i].seq <= k
          /\ running' = <<>> \/ running' \in Netlink!Dumps \X Nat
          /\ running' # <<>> => /\ running # <<>> /\ running[2] < packets[running[1]]
                               /\ running' = <<running[1], running[2] + 1>> /\ running'[1] <= k
      BY <1>1, TakenBehind
    <2>5. \A i \in DOMAIN sock' : sock'[i].seq = k =>
            /\ i = Len(sock) /\ running # <<>> /\ running[1] = k
            /\ sock'[i] = Netlink!Produced(running)[1]
      <3> SUFFICES ASSUME NEW i \in DOMAIN sock', sock'[i].seq = k
                   PROVE  /\ i = Len(sock) /\ running # <<>> /\ running[1] = k
                          /\ sock'[i] = Netlink!Produced(running)[1]
        OBVIOUS
      <3>1. ~(i + 1 \in DOMAIN sock /\ i + 1 # 1 /\ sock'[i] = sock[i + 1])
        BY <1>1, <1>4, <1>8 DEF DumpInv, InHand
      <3>2. i = Len(sock) /\ running # <<>> /\ sock'[i] = Netlink!Produced(running)[1]
        BY <1>1, <3>1, TakenBehind
      <3>3. running \in Netlink!Dumps \X Nat
        BY <3>2 DEF DumpInv, DumpType
      <3>4. Netlink!Produced(running)[1].seq = running[1]
        BY <3>3, Production
      <3> QED
        BY <3>2, <3>4
    <2>6. ASSUME running # <<>>, running[1] = k
          PROVE  /\ Netlink!Produced(running)[1] = Awaited(n + 1)
                 /\ running' # <<>> => n + 1 < packets[k] /\ running'[2] = n + 2
      <3>1. running \in Netlink!Dumps \X Nat /\ running[2] = n + 1
        BY <1>1, <2>6 DEF DumpInv, DumpType, InHand
      <3>2. Netlink!Produced(running)[1] = Awaited(n + 1)
        BY <2>6, <3>1, Production DEF Awaited
      <3>3. running' # <<>> => n + 1 < packets[k] /\ running'[2] = n + 2
        BY <1>3, <2>4, <2>6, <3>1
      <3> QED
        BY <3>2, <3>3
    <2>7. DumpType'
      BY <1>1, <1>8, <2>4 DEF DumpInv, DumpType
    <2>8. Behind'
      BY <1>1, <1>8, <2>4 DEF Behind
    <2>9. InHand'
      <3>1. Awaited(n + 1) = (Awaited(Len(replies)))'
        BY <1>1, <1>8, <2>3 DEF Awaited
      <3>2. running' # <<>> => running # <<>> /\ running'[1] = running[1]
        BY <2>4
      <3>3. (n + 1) + 1 = n + 2
        BY <1>3
      <3> QED
        BY <1>1, <1>8, <2>3, <2>5, <2>6, <3>1, <3>2, <3>3 DEF InHand
    <2> QED
      BY <1>1, <1>8, <2>7, <2>8, <2>9 DEF DumpInv, Netlink!DumpsWhole
  <1> QED
    BY <1>6, <1>7, <1>8 DEF Netlink!Receive, Netlink!Interrupted

\* However a dump of an RDMA scan ends, refused, disturbed, over the limit or at
\* the packet of an earlier dump, a dump that returns rows returns all the rows of
\* its own table in order (collect_netlink_dump, netlink.rs).
THEOREM TablesWhole ==
  ASSUME NDevices \in Nat, MaxPackets \in Nat
  PROVE  /\ Netlink!Spec => []Netlink!DumpsWhole
         /\ MCSpec => []DumpsWhole
  <1>1. Netlink!Init => DumpInv
    <2> SUFFICES ASSUME Netlink!Init PROVE DumpInv
      OBVIOUS
    <2>1. DumpType
      BY DEF Netlink!Init, Netlink!Dumps, DumpType
    <2>2. Behind /\ InHand
      BY DEF Netlink!Init, Behind, InHand
    <2>3. Netlink!DumpsWhole
      BY DEF Netlink!Init, Netlink!DumpsWhole, Netlink!Err
    <2> QED
      BY <2>1, <2>2, <2>3 DEF DumpInv
  <1>2. DumpInv /\ [Netlink!Next]_Netlink!vars => DumpInv'
    <2> SUFFICES ASSUME DumpInv, [Netlink!Next]_Netlink!vars PROVE DumpInv'
      OBVIOUS
    <2>1. CASE Netlink!Disturbed
      <3>1. Netlink!Err("changed").error # "none"
        BY DEF Netlink!Err
      <3> QED
        BY <2>1, <3>1, ReturnKeeps DEF Netlink!Disturbed
    <2>2. CASE Netlink!TimedOut \/ UNCHANGED Netlink!vars
      BY <2>2 DEF Netlink!TimedOut, Netlink!vars, DumpInv, DumpType, Behind, InHand, Awaited,
                  Netlink!DumpsWhole
    <2> QED
      BY <2>1, <2>2, SendKeeps, ReceiveKeeps DEF Netlink!Next
  <1> DEFINE Checked == which = "netlink" => DumpInv
  <1>3. MCInit => Checked
    BY <1>1, AboutNetlink
  <1>4. Checked /\ [MCNext]_allVars => Checked'
    BY <1>2, AboutNetlink
  <1>5. (DumpInv => Netlink!DumpsWhole) /\ (Checked => DumpsWhole)
    BY DEF DumpInv, DumpsWhole
  <1> HIDE DEF Checked
  <1> QED
    BY <1>1, <1>2, <1>3, <1>4, <1>5, PTL DEF Netlink!Spec, MCSpec

-----------------------------------------------------------------------------
(* DescriptorScan: what a page shows of a process was so.                  *)

\* The processes, their files and the process whose descriptors are compared.
ScanType ==
  /\ start \in [Pids -> Nat] /\ file \in [Pids -> [Fds -> Fd!Files \cup {None}]]

Held(id, d, key) == [id |-> id, fd |-> d, key |-> key] \in held

\* The matches of the process at hand count as long as its pid has not passed to
\* another, which the check after the last one finds out.
Comparing ==
  /\ scanned = None \/ scanned \in [id : [pid : Pids, start : Nat], left : SUBSET Fds]
  /\ scanned # None => /\ scanned.id.start <= start[scanned.id.pid]
                       /\ Fd!Valid(scanned.id) => \A o \in found : Held(o.id, o.fd, o.key)
  /\ \A o \in owners : Held(o.id, o.fd, o.key)

\* What is held while the scan runs is remembered, and what was read of the process
\* counts as long as the pid is still its own.
ScanInv ==
  /\ ScanType
  /\ phase = "idle" => DOMAIN entries = {} /\ owners = {} /\ scanned = None
  /\ phase \notin {"idle", "failed"} => Fd!Holding(start, file) \subseteq held
  /\ phase = "done" => Fd!Valid(Fd!Shown)
  /\ start[Target] \in Nat \ {0}
  /\ Fd!Valid(Fd!Shown) => \A d \in DOMAIN entries : Held(Fd!Shown, d, entries[d].key)
  /\ Comparing
  /\ Fd!MetadataOfSocket

\* A file that is open while the scan runs is remembered.
LEMMA OpenIsHeld ==
  ASSUME ScanInv, phase \notin {"idle", "failed"}, NEW p \in Pids, NEW d \in Fds, file[p][d] # None
  PROVE  Held(Fd!Id(p), d, file[p][d].key)
  <1>1. /\ <<p, d>> \in {y \in Pids \X Fds : file[y[1]][y[2]] # None}
        /\ <<p, d>>[1] = p /\ <<p, d>>[2] = d
    OBVIOUS
  <1>2. [id |-> Fd!Id(p), fd |-> d, key |-> file[p][d].key] \in Fd!Holding(start, file)
    BY <1>1 DEF Fd!Holding, Fd!Id
  <1> QED
    BY <1>2 DEF Held, ScanInv

\* A change of the system adds to what was held; a pid only goes to later processes.
LEMMA ChangeKeeps ==
  ASSUME Target \in Pids, ScanInv,
         NEW starts \in [Pids -> Nat], NEW files \in [Pids -> [Fds -> Fd!Files \cup {None}]],
         \A p \in Pids : start[p] <= starts[p], Fd!Changed(starts, files)
  PROVE  ScanInv'
  <1>1. /\ start' = starts /\ file' = files /\ held' = held \cup Fd!Holding(starts, files)
        /\ phase \notin {"idle", "done", "failed"}
        /\ UNCHANGED <<phase, entries, metadata, owners, scanned, found>>
    BY DEF Fd!Changed, Fd!result
  <1>2. ScanType' /\ start'[Target] \in Nat \ {0}
    BY <1>1 DEF ScanInv, ScanType
  <1>3. Fd!Holding(start, file)' \subseteq held'
    BY <1>1 DEF Fd!Holding
  <1>4. \A id, d, key : Held(id, d, key) => Held(id, d, key)'
    BY <1>1 DEF Held
  <1>5. Fd!Valid(Fd!Shown)' => Fd!Valid(Fd!Shown)
    BY <1>1 DEF Fd!Valid, Fd!Shown, ScanInv, ScanType
  <1>6. /\ Fd!Valid(Fd!Shown)' => \A d \in DOMAIN entries' : Held(Fd!Shown, d, entries[d].key)'
        /\ Fd!MetadataOfSocket'
    BY <1>1, <1>4, <1>5 DEF ScanInv, Fd!Shown, Fd!MetadataOfSocket
  <1>7. Comparing'
    <2>1. scanned # None => /\ scanned.id.start <= start'[scanned.id.pid]
                            /\ Fd!Valid(scanned.id)' => Fd!Valid(scanned.id)
      BY <1>1 DEF ScanInv, ScanType, Comparing, Fd!Valid
    <2> QED
      BY <1>1, <1>4, <2>1 DEF ScanInv, Comparing
  <1> QED
    BY <1>1, <1>2, <1>3, <1>6, <1>7 DEF ScanInv

LEMMA SystemChanges ==
  ASSUME Target \in Pids, ScanInv, NEW p \in Pids, NEW d \in Fds, NEW f \in Fd!Files \cup {None},
         Fd!ChangeFile(p, d, f) \/ Fd!ReusePid(p, d, f)
  PROVE  ScanInv'
  <1>1. start \in [Pids -> Nat] /\ file \in [Pids -> [Fds -> Fd!Files \cup {None}]]
    BY DEF ScanInv, ScanType
  <1>2. CASE Fd!ChangeFile(p, d, f)
    <2> DEFINE files == [file EXCEPT ![p][d] = f]
    <2>1. /\ files \in [Pids -> [Fds -> Fd!Files \cup {None}]]
          /\ \A q \in Pids : start[q] <= start[q]
      BY <1>1
    <2>2. Fd!Changed(start, files)
      BY <1>2 DEF Fd!ChangeFile
    <2> HIDE DEF files
    <2> QED
      BY <1>1, <2>1, <2>2, ChangeKeeps
  <1>3. CASE Fd!ReusePid(p, d, f)
    <2> DEFINE starts == [start EXCEPT ![p] = @ + 1]
               files == [file EXCEPT ![p] = [x \in Fds |-> IF x = d THEN f ELSE None]]
    <2>1. /\ starts \in [Pids -> Nat] /\ files \in [Pids -> [Fds -> Fd!Files \cup {None}]]
          /\ \A q \in Pids : start[q] <= starts[q]
      BY <1>1
    <2>2. Fd!Changed(starts, files)
      BY <1>3 DEF Fd!ReusePid
    <2> HIDE DEF starts, files
    <2> QED
      BY <2>1, <2>2, ChangeKeeps
  <1> QED
    BY <1>2, <1>3

\* A descriptor of the process is read under its pid.
LEMMA EntryKeeps ==
  ASSUME Target \in Pids, ScanInv, NEW d \in Fds, Fd!ReadEntry(d)
  PROVE  ScanInv'
  <1>1. /\ phase = "entries" /\ phase' \in {"entries", "table"}
        /\ UNCHANGED <<start, file, metadata, owners, scanned, found, held>>
    BY DEF Fd!ReadEntry, Fd!StopEntries, Fd!world
  <1>2. \A x \in DOMAIN entries' :
          \/ x \in DOMAIN entries /\ entries'[x] = entries[x]
          \/ x = d /\ file[Target][d] # None /\ entries'[x] = file[Target][d]
    BY DEF Fd!ReadEntry
  <1>3. ASSUME Fd!Valid(Fd!Shown), file[Target][d] # None
        PROVE  Held(Fd!Shown, d, file[Target][d].key)
    <2>1. Fd!Id(Target) = Fd!Shown
      BY <1>3 DEF Fd!Id, Fd!Shown, Fd!Valid
    <2> QED
      BY <1>1, <1>3, <2>1, OpenIsHeld
  <1>4. Fd!Valid(Fd!Shown) => \A x \in DOMAIN entries' : Held(Fd!Shown, x, entries'[x].key)
    BY <1>2, <1>3 DEF ScanInv
  <1> QED
    BY <1>1, <1>4 DEF ScanInv, ScanType, Comparing, Fd!Holding, Fd!Valid, Fd!Shown, Held,
                      Fd!MetadataOfSocket

\* Another process is compared under its identity, and counts if it is still there.
LEMMA OwnersKeep ==
  ASSUME ScanInv, \/ \E d \in Fds : Fd!CompareFile(d)
                  \/ \E p \in Pids : Fd!StatProcess(p) \/ Fd!AccessDenied(p)
                  \/ Fd!ProcessCompared \/ Fd!OwnersRead
  PROVE  ScanInv'
  <1>1. /\ phase = "owners" /\ phase' \in {"owners", "check"}
        /\ UNCHANGED <<start, file, entries, metadata, held>>
    BY DEF Fd!CompareFile, Fd!StatProcess, Fd!AccessDenied, Fd!ProcessCompared, Fd!OwnersRead, Fd!world,
           Fd!result
  <1>2. SUFFICES Comparing'
    BY <1>1 DEF ScanInv, ScanType, Fd!Holding, Fd!Valid, Fd!Shown, Held, Fd!MetadataOfSocket
  <1>3. CASE UNCHANGED <<scanned, found, owners>>
    BY <1>1, <1>3 DEF ScanInv, Comparing, Held, Fd!Valid
  <1>4. CASE scanned' = None /\ owners' = owners
    BY <1>1, <1>4 DEF ScanInv, Comparing, Held
  <1>5. ASSUME NEW d \in Fds, Fd!CompareFile(d) PROVE Comparing'
    <2> DEFINE id == scanned.id
    <2>1. /\ scanned # None /\ owners' = owners
          /\ scanned \in [id : [pid : Pids, start : Nat], left : SUBSET Fds] /\ id.pid \in Pids
      BY <1>5 DEF Fd!CompareFile, ScanInv, Comparing
    <2>2. CASE late \/ matches >= MatchLimit
      BY <1>4, <1>5, <2>2 DEF Fd!CompareFile
    <2>3. CASE ~(late \/ matches >= MatchLimit)
      <3>1. /\ scanned' = [scanned EXCEPT !.left = @ \ {d}]
            /\ \A o \in found' : o \in found \/ (/\ o.id = id /\ o.fd = d /\ file[id.pid][d] # None
                                                 /\ o.key = file[id.pid][d].key)
        BY <1>5, <2>3 DEF Fd!CompareFile
      <3>2. scanned' \in [id : [pid : Pids, start : Nat], left : SUBSET Fds] /\ scanned'.id = id
        BY <2>1, <3>1
      <3>3. ASSUME Fd!Valid(id), file[id.pid][d] # None
            PROVE  Held(id, d, file[id.pid][d].key)
        <4>1. Fd!Id(id.pid) = id
          BY <2>1, <3>3 DEF Fd!Id, Fd!Valid
        <4> QED
          BY <1>1, <2>1, <3>3, <4>1, OpenIsHeld
      <3>4. Fd!Valid(id) => \A o \in found' : Held(o.id, o.fd, o.key)
        BY <2>1, <3>1, <3>3 DEF ScanInv, Comparing
      <3> QED
        BY <1>1, <2>1, <3>2, <3>4 DEF ScanInv, Comparing, Held, Fd!Valid
    <2> QED
      BY <2>2, <2>3
  <1>6. ASSUME NEW p \in Pids, Fd!StatProcess(p) PROVE Comparing'
    <2>1. CASE late
      BY <1>3, <1>6, <2>1 DEF Fd!StatProcess
    <2>2. CASE ~late
      <3>1. /\ scanned' = [id |-> Fd!Id(p), left |-> {d \in Fds : file[p][d] # None}]
            /\ found' = {} /\ owners' = owners /\ start[p] \in Nat
        BY <1>6, <2>2 DEF Fd!StatProcess, ScanInv, ScanType
      <3> QED
        BY <1>1, <3>1 DEF ScanInv, Comparing, Held, Fd!Id
    <2> QED
      BY <2>1, <2>2
  <1>7. CASE Fd!ProcessCompared
    BY <1>1, <1>7 DEF Fd!ProcessCompared, Fd!StillThere, ScanInv, Comparing, Held
  <1> QED
    BY <1>3, <1>5, <1>6, <1>7 DEF Fd!AccessDenied, Fd!OwnersRead, Fd!result

\* The invariant of the scan, with one step for each of its actions.
LEMMA ScanInvHolds ==
  ASSUME Target \in Pids
  PROVE  /\ Fd!Spec => []ScanInv
         /\ MCSpec => [](which = "descriptors" => ScanInv)
  <1>1. Fd!Init => ScanInv
    BY DEF Fd!Init, ScanInv, ScanType, Comparing, Fd!MetadataOfSocket
  <1>2. ScanInv /\ [Fd!Next]_Fd!vars => ScanInv'
    <2> SUFFICES ASSUME ScanInv, [Fd!Next]_Fd!vars PROVE ScanInv'
      OBVIOUS
    <2>1. CASE UNCHANGED Fd!vars
      BY <2>1 DEF Fd!vars, Fd!world, Fd!result, ScanInv, ScanType, Comparing, Fd!Holding, Fd!Valid,
                  Fd!Shown, Held, Fd!MetadataOfSocket
    <2>2. CASE Fd!DeadlinePasses \/ Fd!EntriesRead \/ Fd!ReadTables \/ Fd!MetadataRead
      <3>1. /\ UNCHANGED <<start, file, entries, metadata, owners, scanned, found, held>>
            /\ phase' # "idle" /\ phase' # "done" /\ (phase \in {"idle", "failed"} => phase' = "failed")
        BY <2>2 DEF Fd!DeadlinePasses, Fd!EntriesRead, Fd!ReadTables, Fd!MetadataRead, Fd!world,
                    Fd!result
      <3> QED
        BY <3>1 DEF ScanInv, ScanType, Comparing, Fd!Holding, Fd!Valid, Fd!Shown, Held,
                    Fd!MetadataOfSocket
    <2>3. CASE Fd!Begin
      BY <2>3 DEF Fd!Begin, Fd!world, Fd!result, ScanInv, ScanType, Comparing, Fd!Holding, Fd!Valid,
                  Fd!Shown, Held, Fd!MetadataOfSocket
    <2>4. ASSUME NEW d \in Fds, Fd!ReadMetadata(d) PROVE ScanInv'
      <3>1. /\ UNCHANGED <<start, file, phase, entries, owners, scanned, found, held>>
            /\ \A x \in metadata' :
                 \/ x \in metadata
                 \/ x = <<entries[d].key, file[Target][d].key>> /\ Fd!SameSocket(d)
        BY <2>4 DEF Fd!ReadMetadata, Fd!world
      <3>2. Fd!MetadataOfSocket'
        BY <3>1 DEF Fd!MetadataOfSocket, Fd!SameSocket, ScanInv
      <3> QED
        BY <3>1, <3>2 DEF ScanInv, ScanType, Comparing, Fd!Holding, Fd!Valid, Fd!Shown, Held
    <2>5. CASE Fd!Publish
      BY <2>5 DEF Fd!Publish, Fd!world, Fd!result, ScanInv, ScanType, Comparing, Fd!Holding, Fd!Valid,
                  Fd!Shown, Held, Fd!MetadataOfSocket
    <2> QED
      BY <2>1, <2>2, <2>3, <2>4, <2>5, SystemChanges, EntryKeeps, OwnersKeep DEF Fd!Next
  <1> DEFINE Checked == which = "descriptors" => ScanInv
  <1>3. MCInit => Checked
    BY <1>1, AboutDescriptors
  <1>4. Checked /\ [MCNext]_allVars => Checked'
    BY <1>2, AboutDescriptors
  <1> QED
    BY <1>1, <1>2, <1>3, <1>4, PTL DEF Fd!Spec, MCSpec

\* What a page shows of the descriptors of a process, and of the processes at their
\* other ends, was open under these numbers while the scan ran, however files are
\* replaced and pids reused between its reads; and what it says of a socket was
\* asked of that socket (collect_file_descriptors, fds.rs; SocketMetadataReader).
THEOREM DescriptorsHeld ==
  ASSUME Target \in Pids
  PROVE  /\ Fd!Spec => []Fd!DescriptorsAsHeld
         /\ MCSpec => []DescriptorsAsHeld
  <1>1. ScanInv => Fd!DescriptorsAsHeld
    BY DEF ScanInv, Comparing, Held, Fd!DescriptorsAsHeld, Fd!ShownHeld
  <1> QED
    BY <1>1, ScanInvHolds, PTL DEF DescriptorsAsHeld

\* Completeness is about a system at rest and a scan without a warning so far.
AtRest == changes = 0 /\ warnings = {}

\* Nothing of the process is left out: what is not read yet is still to be read.
EntriesWhole ==
  /\ \A p \in Pids : start[p] = 1
  /\ DOMAIN entries \subseteq Fds
  /\ \A d \in DOMAIN entries : file[Target][d] # None /\ entries[d] = file[Target][d]
  /\ phase \notin {"idle", "failed"} => \A d \in Fds : file[Target][d] # None =>
       d \in DOMAIN entries \/ (phase = "entries" /\ d \in todo)

\* The tables that are read list every socket that is held.
TableWhole ==
  /\ DOMAIN table \subseteq Sockets
  /\ phase \notin {"idle", "failed", "entries", "table"} /\ Fd!SocketEntries # {} =>
       table = [s \in Fd!Alive |-> IF link = "tcp" THEN Fd!InetInfo(s) ELSE Fd!DiagInfo(s)]

\* The descriptors that are looked for in a process.
Owner(p, d) == [key |-> file[p][d].key, id |-> Fd!Id(p), fd |-> d, mode |-> file[p][d].mode]
Looked(p) == {d \in Fds : file[p][d] # None /\ file[p][d].key \in Fd!Wanted}

\* All of them are found in the processes that were compared, and nothing else.
OwnersWhole ==
  /\ phase \notin {"owners", "check", "done", "failed"} => scanned = None /\ found = {} /\ owners = {}
  /\ scanned # None => /\ scanned.id = Fd!Id(scanned.id.pid)
                       /\ \A d \in Looked(scanned.id.pid) \ scanned.left :
                            Owner(scanned.id.pid, d) \in found
  /\ \A o \in found \cup owners : \E p \in Pids : \E d \in Looked(p) : o = Owner(p, d)
  /\ phase \in {"owners", "check", "done"} => \A p \in Pids :
       \/ \A d \in Looked(p) : Owner(p, d) \in owners
       \/ phase = "owners" /\ p \in todo
       \/ phase = "owners" /\ scanned # None /\ scanned.id.pid = p

WholeInv ==
  /\ changes \in Nat /\ Fd!IsFiniteSet(found) /\ Fd!IsFiniteSet(owners)
  /\ phase = "idle" => DOMAIN entries = {}
  /\ AtRest => EntriesWhole /\ TableWhole /\ OwnersWhole
  /\ Fd!DescriptorsCompleteOrWarned

\* The sockets form a pair, a file is a socket or a pipe, and None is neither of them.
FdAssumed ==
  /\ Target \in Pids /\ DescriptorPeers \in Nat
  /\ \E x, y : x # y /\ Sockets = {x, y}
  /\ Sockets \cap Pipes = {} /\ None \notin Sockets
  /\ None \notin Fd!Files /\ \A x, y : None # [id |-> x, left |-> y]

LEMMA SocketPairs ==
  ASSUME FdAssumed, NEW s \in Sockets
  PROVE  /\ Fd!PeerOf(s) \in Sockets /\ Fd!PeerOf(s) # s /\ Fd!PeerOf(s) # None
         /\ Fd!PeerOf(Fd!PeerOf(s)) = s
  <1>1. PICK x, y : x # y /\ Sockets = {x, y}
    BY DEF FdAssumed
  <1>2. \A t \in Sockets : \E u \in Sockets : u # t
    BY <1>1
  <1>3. \A t \in Sockets : Fd!PeerOf(t) \in Sockets /\ Fd!PeerOf(t) # t
    BY <1>2 DEF Fd!PeerOf
  <1> QED
    BY <1>1, <1>3 DEF FdAssumed

\* What is derived from the entries and the tables stays while these do.
LEMMA SameReading ==
  ASSUME UNCHANGED <<start, file, link, entries, table>>
  PROVE  /\ Fd!Wanted' = Fd!Wanted /\ Fd!Alive' = Fd!Alive /\ Fd!SocketEntries' = Fd!SocketEntries
         /\ \A p : Looked(p)' = Looked(p) /\ Fd!Id(p)' = Fd!Id(p)
         /\ \A p, d : Owner(p, d)' = Owner(p, d)
  <1>1. \A d : Fd!PeerKeys(d)' = Fd!PeerKeys(d)
    BY DEF Fd!PeerKeys, Fd!Reversed
  <1>2. Fd!Wanted' = Fd!Wanted
    BY <1>1 DEF Fd!Wanted
  <1>3. \A p : Fd!Id(p)' = Fd!Id(p)
    BY DEF Fd!Id
  <1> QED
    BY <1>2, <1>3 DEF Fd!Alive, Fd!SocketEntries, Looked, Owner

\* The peers of a descriptor: the other socket of its pair, if someone holds it.
LEMMA PeersKnown ==
  ASSUME FdAssumed, ScanInv, WholeInv, AtRest, phase = "check", NEW d \in DOMAIN entries
  PROVE  /\ entries[d].key \notin Sockets => Fd!PeerKeys(d) = {}
         /\ entries[d].key \in Sockets =>
              /\ Fd!PeerKeys(d) \subseteq {Fd!PeerOf(entries[d].key)}
              /\ Fd!PeerOf(entries[d].key) \in Fd!Alive =>
                   Fd!PeerKeys(d) = {Fd!PeerOf(entries[d].key)}
  <1> DEFINE s == entries[d].key
  <1>1. EntriesWhole /\ TableWhole
    BY DEF WholeInv
  <1>2. CASE s \notin Sockets
    BY <1>1, <1>2 DEF Fd!PeerKeys, TableWhole
  <1>3. CASE s \in Sockets
    <2>1. Fd!SocketEntries # {} /\ d \in Fds /\ file[Target][d] # None /\ file[Target][d].key = s
      BY <1>1, <1>3 DEF Fd!SocketEntries, EntriesWhole
    <2>2. s \in Fd!Alive
      <3>1. <<Target, d>> \in {y \in Pids \X Fds : file[y[1]][y[2]] # None}
        BY <2>1 DEF FdAssumed
      <3>2. file[<<Target, d>>[1]][<<Target, d>>[2]].key = s
        BY <2>1
      <3> QED
        BY <1>3, <3>1, <3>2 DEF Fd!Alive
    <2>3. table = [t \in Fd!Alive |-> IF link = "tcp" THEN Fd!InetInfo(t) ELSE Fd!DiagInfo(t)]
      BY <1>1, <2>1 DEF TableWhole
    <2>4. /\ Fd!PeerOf(s) # s /\ Fd!PeerOf(s) # None /\ Fd!PeerOf(Fd!PeerOf(s)) = s /\ s # None
          /\ Fd!PeerOf(s) \in Sockets
      BY <1>3, SocketPairs DEF FdAssumed
    <2>5. CASE link # "tcp"
      <3>1. s \in DOMAIN table /\ table[s].peer = Fd!PeerOf(s)
        BY <2>2, <2>3, <2>5 DEF Fd!DiagInfo, Fd!UnixInfo
      <3> QED
        BY <1>3, <2>4, <3>1 DEF Fd!PeerKeys
    <2>6. CASE link = "tcp"
      <3>1. /\ DOMAIN table = Fd!Alive
            /\ \A t \in Fd!Alive : /\ table[t].peer = None /\ table[t].local = t
                                   /\ table[t].remote = Fd!PeerOf(t)
        BY <2>3, <2>6 DEF Fd!InetInfo
      <3>2. Fd!PeerKeys(d) = Fd!Reversed(s)
        BY <2>2, <3>1 DEF Fd!PeerKeys
      <3>3. Fd!Reversed(s) = {t \in Fd!Alive \ {s} : t = Fd!PeerOf(s) /\ Fd!PeerOf(t) = s}
        BY <2>2, <2>4, <3>1 DEF Fd!Reversed
      <3> QED
        BY <1>3, <2>4, <3>2, <3>3
    <2> QED
      BY <2>5, <2>6
  <1> QED
    BY <1>2, <1>3

\* A page without a note shows all that was found.
LEMMA ResolvedWhole ==
  ASSUME DescriptorPeers \in Nat, Fd!IsFiniteSet(owners), NEW d, NEW v \in Fd!Resolved(d), ~v.note
  PROVE  v.peers \cup v.holders = Fd!Others(d) \cup Fd!Far(d)
  <1>1. PICK kept \in Fd!Prefixes(Fd!Others(d), DescriptorPeers), more \in Fd!Prefixes(Fd!Far(d), DescriptorPeers) :
          v = [peers |-> Fd!Near(d, kept) \cup more, holders |-> kept \ Fd!Near(d, kept),
               note |-> Fd!Cardinality(Fd!Others(d)) >= DescriptorPeers
                        \/ Fd!Cardinality(Fd!Near(d, kept)) + Fd!Cardinality(Fd!Far(d)) > DescriptorPeers]
    BY DEF Fd!Resolved
  <1>2. /\ \A S : Fd!Cardinality(S) = Cardinality(S)
        /\ IsFiniteSet(owners)
    BY DEF Fd!Cardinality, Cardinality, Fd!IsFiniteSet, IsFiniteSet
  <1>3. IsFiniteSet(Fd!Others(d)) /\ IsFiniteSet(Fd!Far(d))
    BY <1>2, FS_Subset DEF Fd!Others, Fd!Far
  <1>4. Cardinality(Fd!Others(d)) \in Nat /\ Cardinality(Fd!Far(d)) \in Nat
    BY <1>3, FS_CardinalityType
  <1>5. ~(\/ Cardinality(Fd!Others(d)) >= DescriptorPeers
          \/ Cardinality(Fd!Near(d, kept)) + Cardinality(Fd!Far(d)) > DescriptorPeers)
    BY <1>1, <1>2
  <1>6. kept = Fd!Others(d)
    BY <1>2, <1>4, <1>5 DEF Fd!Prefixes
  <1>7. Cardinality(Fd!Near(d, kept)) \in Nat
    BY <1>3, <1>6, FS_Subset, FS_CardinalityType DEF Fd!Near
  <1>8. more = Fd!Far(d)
    BY <1>2, <1>4, <1>5, <1>7 DEF Fd!Prefixes
  <1> QED
    BY <1>1, <1>6, <1>8 DEF Fd!Near

\* A step that makes the system change, or that leaves a warning, owes nothing more.
LEMMA NotAtRest ==
  ASSUME ~AtRest', changes' \in Nat, Fd!IsFiniteSet(found'), Fd!IsFiniteSet(owners'),
         phase' # "idle"
  PROVE  WholeInv'
  BY DEF WholeInv, AtRest, Fd!DescriptorsCompleteOrWarned

\* The process's descriptors and the tables of sockets are read.
LEMMA EntriesComplete ==
  ASSUME FdAssumed, ScanInv, WholeInv,
         \/ Fd!Begin \/ Fd!EntriesRead \/ Fd!ReadTables \/ \E d \in Fds : Fd!ReadEntry(d)
  PROVE  WholeInv'
  <1>1. /\ UNCHANGED <<start, file, link, changes, owners, scanned, found>>
        /\ phase \in {"idle", "entries", "table"}
        /\ phase' \in {"entries", "table", "metadata", "failed"}
        /\ warnings \subseteq warnings'
    BY DEF Fd!Begin, Fd!EntriesRead, Fd!ReadTables, Fd!ReadEntry, Fd!StopEntries, Fd!world, Fd!result
  <1>2. CASE ~AtRest'
    BY <1>1, <1>2, NotAtRest DEF WholeInv
  <1>3. CASE AtRest'
    <2>1. AtRest /\ EntriesWhole /\ TableWhole /\ OwnersWhole
      BY <1>1, <1>3 DEF AtRest, WholeInv
    <2>2. OwnersWhole'
      BY <1>1, <2>1 DEF OwnersWhole
    <2>3. EntriesWhole' /\ TableWhole'
      <3>1. CASE Fd!Begin
        <4>1. /\ UNCHANGED <<entries, table>> /\ todo' = {d \in Fds : file[Target][d] # None}
              /\ phase = "idle" /\ phase' \in {"entries", "failed"}
          BY <3>1 DEF Fd!Begin, Fd!result
        <4> QED
          BY <1>1, <2>1, <4>1 DEF EntriesWhole, TableWhole
      <3>2. CASE Fd!EntriesRead
        BY <1>1, <2>1, <3>2 DEF Fd!EntriesRead, Fd!result, EntriesWhole, TableWhole
      <3>3. ASSUME NEW d \in Fds, Fd!ReadEntry(d) PROVE EntriesWhole' /\ TableWhole'
        <4>1. /\ ~(late \/ Fd!Cardinality(DOMAIN entries) >= EntryLimit) /\ file[Target][d] # None
              /\ phase = "entries" /\ phase' = "entries" /\ todo' = todo \ {d} /\ table' = table
              /\ entries' = [x \in DOMAIN entries \cup {d} |->
                               IF x = d THEN file[Target][d] ELSE entries[x]]
          BY <1>3, <3>3 DEF Fd!ReadEntry, Fd!StopEntries, AtRest
        <4> QED
          BY <1>1, <2>1, <4>1 DEF EntriesWhole, TableWhole
      <3>4. CASE Fd!ReadTables
        <4>1. /\ UNCHANGED entries /\ phase = "table" /\ phase' = "metadata"
              /\ IF Fd!SocketEntries = {} THEN table' = table
                 ELSE table' = [s \in Fd!Alive |-> IF link = "tcp" THEN Fd!InetInfo(s)
                                                                   ELSE Fd!DiagInfo(s)]
          BY <1>3, <3>4 DEF Fd!ReadTables, AtRest
        <4>2. Fd!SocketEntries' = Fd!SocketEntries /\ Fd!Alive' = Fd!Alive /\ Fd!Alive \subseteq Sockets
          BY <1>1, <4>1 DEF Fd!SocketEntries, Fd!Alive
        <4>3. TableWhole'
          <5>1. DOMAIN table' \subseteq Sockets
            BY <2>1, <4>1, <4>2 DEF TableWhole
          <5>2. \A s : Fd!InetInfo(s)' = Fd!InetInfo(s) /\ Fd!DiagInfo(s)' = Fd!DiagInfo(s)
            BY DEF Fd!InetInfo, Fd!DiagInfo, Fd!UnixInfo
          <5> QED
            BY <1>1, <4>1, <4>2, <5>1, <5>2 DEF TableWhole
        <4> QED
          BY <1>1, <2>1, <4>1, <4>3 DEF EntriesWhole
      <3> QED
        BY <3>1, <3>2, <3>3, <3>4
    <2> QED
      BY <1>1, <2>2, <2>3 DEF WholeInv, Fd!DescriptorsCompleteOrWarned
  <1> QED
    BY <1>2, <1>3

\* The other processes are compared, with the entries and the tables as they are.
LEMMA OwnersComplete ==
  ASSUME FdAssumed, ScanInv, WholeInv,
         \/ Fd!DeadlinePasses \/ Fd!MetadataRead
         \/ \E d \in Fds : Fd!ReadMetadata(d) \/ Fd!CompareFile(d)
         \/ \E p \in Pids : Fd!StatProcess(p) \/ Fd!AccessDenied(p)
         \/ Fd!ProcessCompared \/ Fd!OwnersRead
  PROVE  WholeInv'
  <1>1. /\ UNCHANGED <<start, file, link, entries, table, changes>> /\ warnings \subseteq warnings'
        /\ phase \notin {"idle", "done", "failed"} /\ phase' \notin {"idle", "done", "failed"}
        /\ phase \in {"entries", "table"} => phase' = phase /\ todo' = todo
        /\ phase \notin {"entries", "table"} => phase' \notin {"entries", "table"}
    BY DEF Fd!DeadlinePasses, Fd!MetadataRead, Fd!ReadMetadata, Fd!CompareFile, Fd!StatProcess,
           Fd!AccessDenied, Fd!ProcessCompared, Fd!OwnersRead, Fd!world, Fd!result
  <1>2. Fd!IsFiniteSet(found') /\ Fd!IsFiniteSet(owners')
    <2>1. \A S : Fd!IsFiniteSet(S) <=> IsFiniteSet(S)
      BY DEF Fd!IsFiniteSet, IsFiniteSet
    <2>2. IsFiniteSet(found) /\ IsFiniteSet(owners) /\ IsFiniteSet({})
      BY <2>1, FS_EmptySet DEF WholeInv
    <2>3. ASSUME NEW d \in Fds, Fd!CompareFile(d) PROVE IsFiniteSet(found')
      <3> DEFINE f == file[scanned.id.pid][d]
                 m == {[key |-> f.key, id |-> scanned.id, fd |-> d, mode |-> f.mode]}
      <3>1. found' \subseteq found \cup m
        BY <2>3 DEF Fd!CompareFile
      <3>2. IsFiniteSet(m)
        BY FS_Singleton
      <3> HIDE DEF m
      <3> QED
        BY <2>2, <3>1, <3>2, FS_Union, FS_Subset
    <2>4. IsFiniteSet(found')
      BY <2>2, <2>3 DEF Fd!DeadlinePasses, Fd!MetadataRead, Fd!ReadMetadata, Fd!StatProcess,
                        Fd!AccessDenied, Fd!ProcessCompared, Fd!OwnersRead
    <2>5. owners' \subseteq owners \cup found
      BY DEF Fd!DeadlinePasses, Fd!MetadataRead, Fd!ReadMetadata, Fd!CompareFile, Fd!StatProcess,
             Fd!AccessDenied, Fd!ProcessCompared, Fd!OwnersRead, Fd!result
    <2> QED
      BY <2>1, <2>2, <2>4, <2>5, FS_Union, FS_Subset
  <1>3. CASE ~AtRest'
    BY <1>1, <1>2, <1>3, NotAtRest DEF WholeInv
  <1>4. CASE AtRest'
    <2>1. AtRest /\ EntriesWhole /\ TableWhole /\ OwnersWhole
      BY <1>1, <1>4 DEF AtRest, WholeInv
    <2>2. /\ Fd!Wanted' = Fd!Wanted /\ Fd!Alive' = Fd!Alive /\ Fd!SocketEntries' = Fd!SocketEntries
          /\ \A p : Looked(p)' = Looked(p) /\ Fd!Id(p)' = Fd!Id(p)
          /\ \A p, d : Owner(p, d)' = Owner(p, d)
      BY <1>1, SameReading
    <2>3. EntriesWhole'
      BY <1>1, <2>1 DEF EntriesWhole
    <2>4. TableWhole'
      <3>1. \A s : Fd!InetInfo(s)' = Fd!InetInfo(s) /\ Fd!DiagInfo(s)' = Fd!DiagInfo(s)
        BY DEF Fd!InetInfo, Fd!DiagInfo, Fd!UnixInfo
      <3> QED
        BY <1>1, <2>1, <2>2, <3>1 DEF TableWhole
    <2>5. OwnersWhole'
      <3>1. CASE Fd!DeadlinePasses \/ \E d \in Fds : Fd!ReadMetadata(d)
        <4>1. /\ UNCHANGED <<phase, scanned, found, owners>>
              /\ phase = "owners" => todo' = todo
          BY <3>1 DEF Fd!DeadlinePasses, Fd!ReadMetadata, Fd!result
        <4> QED
          BY <2>1, <2>2, <4>1 DEF OwnersWhole
      <3>2. CASE Fd!MetadataRead
        <4>1. /\ phase = "metadata" /\ UNCHANGED <<scanned, found, owners>>
              /\ IF DOMAIN entries = {} THEN phase' = "check" ELSE phase' = "owners" /\ todo' = Pids
          BY <3>2 DEF Fd!MetadataRead
        <4>2. scanned = None /\ found = {} /\ owners = {}
          BY <2>1, <4>1 DEF OwnersWhole
        <4>3. DOMAIN entries = {} => \A p : Looked(p) = {}
          BY DEF Looked, Fd!Wanted
        <4> QED
          BY <2>2, <4>1, <4>2, <4>3 DEF OwnersWhole
      <3>3. ASSUME NEW p \in Pids, Fd!StatProcess(p) PROVE OwnersWhole'
        <4>1. /\ ~late /\ phase = "owners" /\ phase' = "owners" /\ scanned = None
              /\ todo' = todo \ {p} /\ found' = {} /\ owners' = owners
              /\ scanned' = [id |-> Fd!Id(p), left |-> {d \in Fds : file[p][d] # None}]
          BY <1>4, <3>3 DEF Fd!StatProcess, AtRest
        <4>2. /\ scanned'.id = Fd!Id(p) /\ scanned'.id.pid = p /\ scanned' # None
              /\ Looked(p) \ scanned'.left = {}
          BY <4>1 DEF Fd!Id, Looked, FdAssumed
        <4> QED
          BY <2>1, <2>2, <4>1, <4>2 DEF OwnersWhole
      <3>4. ASSUME NEW d \in Fds, Fd!CompareFile(d) PROVE OwnersWhole'
        <4> DEFINE p == scanned.id.pid
        <4>1. /\ scanned # None /\ scanned \in [id : [pid : Pids, start : Nat], left : SUBSET Fds]
              /\ p \in Pids /\ scanned.id = Fd!Id(p)
          BY <2>1, <3>4 DEF Fd!CompareFile, ScanInv, Comparing, OwnersWhole
        <4>2. /\ phase = "owners" /\ UNCHANGED <<phase, todo, owners>>
              /\ scanned' = [scanned EXCEPT !.left = @ \ {d}]
              /\ \A o : o \in found' <=> o \in found \/ (d \in Looked(p) /\ o = Owner(p, d))
          BY <1>4, <3>4, <4>1 DEF Fd!CompareFile, AtRest, Looked, Owner
        <4>3. scanned'.id = scanned.id /\ scanned'.left = scanned.left \ {d} /\ scanned' # None
          BY <4>1, <4>2 DEF FdAssumed
        <4> HIDE DEF p
        <4>4. \A x \in Looked(p) \ scanned'.left : Owner(p, x) \in found'
          BY <2>1, <4>1, <4>2, <4>3 DEF OwnersWhole, p
        <4>5. \A o \in found' \cup owners' : \E q \in Pids : \E x \in Looked(q) : o = Owner(q, x)
          BY <2>1, <4>1, <4>2 DEF OwnersWhole
        <4> QED
          BY <2>1, <2>2, <4>1, <4>2, <4>3, <4>4, <4>5 DEF OwnersWhole, p
      <3>5. CASE Fd!ProcessCompared
        <4> DEFINE p == scanned.id.pid
        <4>1. /\ scanned # None /\ scanned.left = {} /\ scanned.id = Fd!Id(p)
              /\ phase = "owners" /\ UNCHANGED <<phase, todo>> /\ scanned' = None /\ found' = {}
          BY <2>1, <3>5 DEF Fd!ProcessCompared, OwnersWhole
        <4>2. Fd!StillThere(scanned.id)
          BY <4>1 DEF Fd!StillThere, Fd!Valid, Fd!Id
        <4>3. owners' = owners \cup found
          BY <3>5, <4>2 DEF Fd!ProcessCompared
        <4>4. \A d \in Looked(p) : Owner(p, d) \in found
          BY <2>1, <4>1 DEF OwnersWhole
        <4> QED
          BY <2>1, <2>2, <4>1, <4>3, <4>4 DEF OwnersWhole
      <3>6. CASE Fd!OwnersRead
        <4>1. /\ phase = "owners" /\ phase' = "check" /\ scanned = None /\ todo = {}
              /\ UNCHANGED <<scanned, found, owners>>
          BY <3>6 DEF Fd!OwnersRead, Fd!result
        <4> QED
          BY <2>1, <2>2, <4>1 DEF OwnersWhole
      <3>7. \A p \in Pids : ~Fd!AccessDenied(p)
        BY <1>4 DEF Fd!AccessDenied, AtRest
      <3> QED
        BY <3>1, <3>2, <3>3, <3>4, <3>5, <3>6, <3>7
    <2> QED
      BY <1>1, <1>2, <2>3, <2>4, <2>5 DEF WholeInv, Fd!DescriptorsCompleteOrWarned
  <1> QED
    BY <1>3, <1>4

\* What was found at an end of a descriptor is what is held there.
LEMMA FoundIsHeld ==
  ASSUME FdAssumed, ScanInv, WholeInv, AtRest, phase = "check", NEW d \in DOMAIN entries
  PROVE  {[id |-> o.id, fd |-> o.fd, key |-> o.key] : o \in Fd!Others(d) \cup Fd!Far(d)} =
           {x \in Fd!Holding(start, file) :
              \/ x.key = entries[d].key /\ ~(x.id = Fd!Shown /\ x.fd = d)
              \/ entries[d].key \in Sockets /\ x.key = Fd!PeerOf(entries[d].key)}
  <1> DEFINE s == entries[d].key
             Record(p, e) == [id |-> Fd!Id(p), fd |-> e, key |-> file[p][e].key]
             Related(x) == \/ x.key = s /\ ~(x.id = Fd!Shown /\ x.fd = d)
                           \/ s \in Sockets /\ x.key = Fd!PeerOf(s)
             Ends == Fd!Others(d) \cup Fd!Far(d)
  <1>1. /\ \A p \in Pids : \A e \in Looked(p) : Owner(p, e) \in owners
        /\ \A o \in owners : \E p \in Pids : \E e \in Looked(p) : o = Owner(p, e)
    BY DEF WholeInv, OwnersWhole
  <1>2. /\ s \notin Sockets => Fd!PeerKeys(d) = {}
        /\ s \in Sockets => /\ Fd!PeerKeys(d) \subseteq {Fd!PeerOf(s)}
                            /\ Fd!PeerOf(s) \in Fd!Alive => Fd!PeerKeys(d) = {Fd!PeerOf(s)}
    BY PeersKnown
  <1>3. Fd!Holding(start, file) =
          {Record(y[1], y[2]) : y \in {z \in Pids \X Fds : file[z[1]][z[2]] # None}}
    BY DEF Fd!Holding, Fd!Id
  <1>4. \A p, e : \A x \in {Owner(p, e), Record(p, e)} :
          x.id = Fd!Id(p) /\ x.fd = e /\ x.key = file[p][e].key
    BY DEF Owner
  <1>5. ASSUME NEW o \in Ends
        PROVE  LET x == [id |-> o.id, fd |-> o.fd, key |-> o.key]
               IN x \in Fd!Holding(start, file) /\ Related(x)
    <2>0. PICK p \in Pids : \E e \in Looked(p) : o = Owner(p, e)
      BY <1>1, <1>5 DEF Fd!Others, Fd!Far
    <2>1. PICK e \in Looked(p) : o = Owner(p, e)
      BY <2>0
    <2>2. [id |-> o.id, fd |-> o.fd, key |-> o.key] = Record(p, e)
      BY <1>4, <2>1
    <2>3. Record(p, e) \in Fd!Holding(start, file)
      <3>1. /\ <<p, e>> \in {z \in Pids \X Fds : file[z[1]][z[2]] # None}
            /\ <<p, e>>[1] = p /\ <<p, e>>[2] = e
        BY <2>1 DEF Looked
      <3> QED
        BY <1>3, <3>1
    <2>4. Related(Record(p, e))
      <3>1. CASE o \in Fd!Others(d)
        BY <1>4, <2>1, <3>1 DEF Fd!Others
      <3>2. CASE o \in Fd!Far(d)
        BY <1>2, <1>4, <2>1, <3>2 DEF Fd!Far
      <3> QED
        BY <1>5, <3>1, <3>2
    <2> QED
      BY <2>2, <2>3, <2>4
  <1>6. ASSUME NEW x \in Fd!Holding(start, file), Related(x)
        PROVE  \E o \in Ends : x = [id |-> o.id, fd |-> o.fd, key |-> o.key]
    <2>1. PICK p \in Pids, e \in Fds : file[p][e] # None /\ x = Record(p, e)
      BY <1>3, <1>6
    <2>2. x = [id |-> Owner(p, e).id, fd |-> Owner(p, e).fd, key |-> Owner(p, e).key]
      BY <1>4, <2>1
    <2>3. CASE x.key = s /\ ~(x.id = Fd!Shown /\ x.fd = d)
      <3>1. e \in Looked(p)
        BY <1>4, <2>1, <2>3 DEF Looked, Fd!Wanted
      <3>2. Owner(p, e) \in Fd!Others(d)
        BY <1>1, <1>4, <2>1, <2>3, <3>1 DEF Fd!Others
      <3> QED
        BY <2>2, <3>2
    <2>4. CASE s \in Sockets /\ x.key = Fd!PeerOf(s)
      <3>1. Fd!PeerOf(s) \in Fd!Alive
        <4>1. /\ <<p, e>> \in {z \in Pids \X Fds : file[z[1]][z[2]] # None}
            /\ <<p, e>>[1] = p /\ <<p, e>>[2] = e
          BY <2>1
        <4>2. file[p][e].key = Fd!PeerOf(s) /\ Fd!PeerOf(s) \in Sockets
          BY <1>4, <2>1, <2>4, SocketPairs
        <4> QED
          BY <4>1, <4>2 DEF Fd!Alive
      <3>2. Fd!PeerKeys(d) = {Fd!PeerOf(s)} /\ file[p][e].key = Fd!PeerOf(s)
        BY <1>2, <1>4, <2>1, <2>4, <3>1
      <3>3. e \in Looked(p)
        BY <2>1, <3>2 DEF Looked, Fd!Wanted
      <3>4. Owner(p, e) \in Fd!Far(d)
        BY <1>1, <1>4, <2>1, <3>2, <3>3 DEF Fd!Far
      <3> QED
        BY <2>2, <3>4
    <2> QED
      BY <1>6, <2>3, <2>4
  <1> QED
    BY <1>5, <1>6

LEMMA PublishComplete ==
  ASSUME FdAssumed, ScanInv, WholeInv, Fd!Publish
  PROVE  WholeInv'
  <1>1. /\ UNCHANGED <<start, file, link, entries, table, changes, warnings, owners, scanned, found>>
        /\ phase = "check" /\ phase' \in {"done", "failed"}
    BY DEF Fd!Publish, Fd!world, Fd!result
  <1>2. CASE ~AtRest'
    BY <1>1, <1>2, NotAtRest DEF WholeInv
  <1>3. CASE AtRest'
    <2>1. AtRest /\ EntriesWhole /\ TableWhole /\ OwnersWhole
      BY <1>1, <1>3 DEF AtRest, WholeInv
    <2>2. /\ Fd!Wanted' = Fd!Wanted /\ Fd!Alive' = Fd!Alive /\ Fd!SocketEntries' = Fd!SocketEntries
          /\ \A p : Looked(p)' = Looked(p) /\ Fd!Id(p)' = Fd!Id(p)
          /\ \A p, d : Owner(p, d)' = Owner(p, d)
      BY <1>1, SameReading
    <2>3. EntriesWhole' /\ OwnersWhole'
      BY <1>1, <2>1, <2>2 DEF EntriesWhole, OwnersWhole
    <2>4. TableWhole'
      <3>1. \A s : Fd!InetInfo(s)' = Fd!InetInfo(s) /\ Fd!DiagInfo(s)' = Fd!DiagInfo(s)
        BY DEF Fd!InetInfo, Fd!DiagInfo, Fd!UnixInfo
      <3> QED
        BY <1>1, <2>1, <2>2, <3>1 DEF TableWhole
    <2>5. Fd!DescriptorsCompleteOrWarned'
      <3> SUFFICES ASSUME phase' = "done"
                   PROVE  Fd!DescriptorsCompleteOrWarned'
        BY DEF Fd!DescriptorsCompleteOrWarned
      <3>1. \A d \in DOMAIN entries : shown'[d] \in Fd!Resolved(d)
        BY <1>1 DEF Fd!Publish
      <3>2. \A d \in Fds : file[Target][d] # None => d \in DOMAIN entries
        BY <1>1, <2>1 DEF EntriesWhole
      <3>3. ASSUME NEW d \in DOMAIN entries, ~shown'[d].note
            PROVE  {x \in Fd!Holding(start, file) :
                      \/ x.key = entries[d].key /\ ~(x.id = Fd!Shown /\ x.fd = d)
                      \/ entries[d].key \in Sockets /\ x.key = Fd!PeerOf(entries[d].key)} =
                   {[id |-> o.id, fd |-> o.fd, key |-> o.key] :
                      o \in shown'[d].peers \cup shown'[d].holders}
        <4>1. shown'[d].peers \cup shown'[d].holders = Fd!Others(d) \cup Fd!Far(d)
          BY <3>1, <3>3, ResolvedWhole DEF WholeInv, FdAssumed
        <4> QED
          BY <1>1, <2>1, <4>1, FoundIsHeld
      <3>4. Fd!Holding(start, file)' = Fd!Holding(start, file)
        BY <1>1 DEF Fd!Holding
      <3> QED
        BY <1>1, <3>2, <3>3, <3>4 DEF Fd!DescriptorsCompleteOrWarned, Fd!Shown, Fd!PeerOf
    <2> QED
      BY <1>1, <2>3, <2>4, <2>5 DEF WholeInv
  <1> QED
    BY <1>2, <1>3

\* A page of a system at rest without a warning or a note is complete: it has all the
\* descriptors of the process, and for each one all that are open on the same file
\* and on the other end. Every limit, refusal and deadline that cuts the scan short
\* leaves a warning (collect_file_descriptors, collect_descriptor_owners,
\* resolve_descriptor_relations).
THEOREM DescriptorsComplete ==
  ASSUME FdAssumed
  PROVE  /\ Fd!Spec => []Fd!DescriptorsCompleteOrWarned
         /\ MCSpec => []DescriptorsCompleteOrWarned
  <1>1. Fd!Init => WholeInv
    <2> SUFFICES ASSUME Fd!Init PROVE WholeInv
      OBVIOUS
    <2>1. Fd!IsFiniteSet(found) /\ Fd!IsFiniteSet(owners)
      <3>1. \A S : Fd!IsFiniteSet(S) <=> IsFiniteSet(S)
        BY DEF Fd!IsFiniteSet, IsFiniteSet
      <3> QED
        BY <3>1, FS_EmptySet DEF Fd!Init
    <2>2. EntriesWhole /\ TableWhole /\ OwnersWhole
      BY DEF Fd!Init, EntriesWhole, TableWhole, OwnersWhole
    <2> QED
      BY <2>1, <2>2 DEF Fd!Init, WholeInv, Fd!DescriptorsCompleteOrWarned
  <1>2. FdAssumed /\ ScanInv /\ WholeInv /\ [Fd!Next]_Fd!vars => WholeInv'
    <2> SUFFICES ASSUME FdAssumed, ScanInv, WholeInv, [Fd!Next]_Fd!vars PROVE WholeInv'
      OBVIOUS
    <2>1. CASE UNCHANGED Fd!vars
      <3>1. UNCHANGED <<start, file, link, phase, late, todo, entries, table, metadata, owners, warnings,
                        scanned, found, matches, shown, changes, held>>
        BY <2>1 DEF Fd!vars, Fd!world, Fd!result
      <3>2. /\ Fd!Wanted' = Fd!Wanted /\ Fd!Alive' = Fd!Alive /\ Fd!SocketEntries' = Fd!SocketEntries
            /\ \A p : Looked(p)' = Looked(p) /\ Fd!Id(p)' = Fd!Id(p)
            /\ \A p, d : Owner(p, d)' = Owner(p, d)
        BY <3>1, SameReading
      <3>3. AtRest' => EntriesWhole' /\ OwnersWhole'
        BY <3>1, <3>2 DEF WholeInv, AtRest, EntriesWhole, OwnersWhole
      <3>4. AtRest' => TableWhole'
        BY <3>1, <3>2 DEF WholeInv, AtRest, TableWhole, Fd!InetInfo, Fd!DiagInfo, Fd!UnixInfo
      <3>5. Fd!DescriptorsCompleteOrWarned'
        BY <3>1 DEF WholeInv, Fd!DescriptorsCompleteOrWarned, Fd!Holding, Fd!Shown
      <3> QED
        BY <3>1, <3>3, <3>4, <3>5 DEF WholeInv
    <2>2. ASSUME NEW p \in Pids, NEW d \in Fds, NEW f \in Fd!Files \cup {None},
                 Fd!ChangeFile(p, d, f) \/ Fd!ReusePid(p, d, f)
          PROVE  WholeInv'
      <3>1. changes' = changes + 1 /\ changes \in Nat /\ UNCHANGED <<found, owners, phase>>
            /\ phase # "idle"
        BY <2>2 DEF Fd!ChangeFile, Fd!ReusePid, Fd!Changed, Fd!result, WholeInv
      <3>2. ~AtRest' /\ changes' \in Nat
        BY <3>1 DEF AtRest
      <3> QED
        BY <3>1, <3>2, NotAtRest DEF WholeInv
    <2> QED
      BY <2>1, <2>2, EntriesComplete, OwnersComplete, PublishComplete DEF Fd!Next
  <1>3. FdAssumed => Target \in Pids
    BY DEF FdAssumed
  <1> DEFINE Checked == which = "descriptors" => WholeInv
             Scanned == which = "descriptors" => ScanInv
  <1>4. MCInit => Checked
    BY <1>1, AboutDescriptors
  <1>5. Checked /\ Scanned /\ [MCNext]_allVars => Checked'
    BY <1>2, AboutDescriptors
  <1>6. (WholeInv => Fd!DescriptorsCompleteOrWarned) /\ (Checked => DescriptorsCompleteOrWarned)
    BY DEF WholeInv, DescriptorsCompleteOrWarned
  <1>7. (Fd!Spec => []ScanInv) /\ (MCSpec => []Scanned)
    BY <1>3, ScanInvHolds
  <1> HIDE DEF Checked, Scanned
  <1> QED
    BY <1>1, <1>2, <1>4, <1>5, <1>6, <1>7, PTL DEF Fd!Spec, MCSpec

-----------------------------------------------------------------------------
(* SystemScan: relations are between descriptors that were held.           *)

\* A behaviour about the system is one of SystemScan, for good.
LEMMA AboutSystem ==
  /\ MCInit /\ which = "system" => Init
  /\ which = "system" /\ [MCNext]_allVars => (which = "system")' /\ [Next]_vars
  /\ which # "system" /\ [MCNext]_allVars => (which # "system")'
  BY DEF MCInit, SystemInit, MCNext, allVars, scanOnly, systemOnly, vars, world, scan, result

Keys == Sockets \cup Pipes
Accesses == {"r", "w", "rw"}
ProcSet == [pid : Pids, start : Nat]
GotSet == [fd : Fds, key : Keys, access : Accesses]
ScanSet == [id : ProcSet, left : SUBSET Fds, got : SUBSET GotSet, ask : BOOLEAN]
OwnerSet == [id : ProcSet, key : Keys, access : Accesses, fd : Fds]
IsInfo(i) == i = [ns |-> i.ns, peer |-> i.peer, local |-> i.local, remote |-> i.remote]
HeldBy(id, g) == [id |-> id, key |-> g.key, fd |-> g.fd] \in held

\* Pids and descriptors are numbers, of which a system has finitely many.
NumbersAssumed ==
  /\ Pids \subseteq Nat /\ IsFiniteSet(Pids)
  /\ Fds \subseteq Nat /\ IsFiniteSet(Fds)
  /\ None \notin ScanSet \cup Files

SystemType ==
  /\ start \in [Pids -> Nat] /\ file \in [Pids -> [Fds -> Files \cup {None}]]
  /\ ns \in [Pids -> Namespaces] /\ home \in [Sockets -> Namespaces]
  /\ phase \in {"idle", "scan", "relate", "done"}
  /\ changes \in Nat
  /\ todo \subseteq ProcSet /\ cur \in ScanSet \cup {None} /\ owners \subseteq OwnerSet
  /\ infos = [s \in DOMAIN infos |-> infos[s]] /\ DOMAIN infos \subseteq Sockets
  /\ \A s \in DOMAIN infos : IsInfo(infos[s])
  /\ metadata \subseteq Sockets

\* What was read of a process that is still itself was held by it.
ReadHeld ==
  /\ phase = "scan" => Holding(start, file) \subseteq held
  /\ phase # "scan" => todo = {} /\ cur = None
  /\ \A id \in todo : id.start <= start[id.pid] /\ \A e \in owners : e.id # id
  /\ cur # None =>
       /\ cur.id \notin todo /\ cur.id.start <= start[cur.id.pid]
       /\ \A e \in owners : e.id # cur.id
       /\ Valid(cur.id) => \A g \in cur.got : HeldBy(cur.id, g)
       /\ \A g \in cur.got : g.fd \notin cur.left
       /\ \A g, h \in cur.got : g.fd = h.fd => g = h

\* The endpoints are descriptors that were held, each once.
OwnersHeld ==
  /\ phase = "idle" => owners = {}
  /\ IsFiniteSet(owners)
  /\ \A e \in owners : HeldBy(e.id, e) /\ e.id \in processes
  /\ \A x, y \in owners : x.id = y.id /\ x.fd = y.fd => x = y

\* A socket with addresses was listed by its own namespace.
InfosTrue == \A s \in DOMAIN infos : infos[s].remote # None => infos[s].ns = home[s]

\* A relation joins endpoints, by a guess only within one namespace, and is called
\* shared only when its ends do not talk to each other.
RelationGood(r) ==
  /\ r.ends \subseteq owners
  /\ r.candidate => r.ends # {} /\ \A x, y \in r.ends : home[x.key] = home[y.key]
  /\ r.shared => \E x, y \in owners : x # y /\ r.ends = {x, y} /\ x.key = y.key /\ Shared(x, y)
RelationsGood == \A r \in relations : RelationGood(r)

SystemInv == SystemType /\ ReadHeld /\ OwnersHeld /\ InfosTrue /\ RelationsGood

\* Holding is what it says.
LEMMA HoldingIs ==
  ASSUME NEW starts, NEW files
  PROVE  /\ \A p \in Pids, d \in Fds : files[p][d] # None =>
              [id |-> [pid |-> p, start |-> starts[p]], key |-> files[p][d].key, fd |-> d]
                \in Holding(starts, files)
         /\ \A h \in Holding(starts, files) : \E p \in Pids, d \in Fds :
              /\ files[p][d] # None
              /\ h = [id |-> [pid |-> p, start |-> starts[p]], key |-> files[p][d].key, fd |-> d]
  <1>1. ASSUME NEW p \in Pids, NEW d \in Fds, files[p][d] # None
        PROVE  [id |-> [pid |-> p, start |-> starts[p]], key |-> files[p][d].key, fd |-> d]
                 \in Holding(starts, files)
    <2> DEFINE pd == <<p, d>>
    <2>1. pd \in {y \in Pids \X Fds : files[y[1]][y[2]] # None} /\ pd[1] = p /\ pd[2] = d
      BY <1>1
    <2>2. [id |-> [pid |-> pd[1], start |-> starts[pd[1]]], key |-> files[pd[1]][pd[2]].key,
           fd |-> pd[2]] \in Holding(starts, files)
      <3> HIDE DEF pd
      <3> QED
        BY <2>1, Zenon DEF Holding
    <2> QED
      BY <2>1, <2>2, Zenon
  <1>2. ASSUME NEW h \in Holding(starts, files)
        PROVE  \E p \in Pids, d \in Fds :
                 /\ files[p][d] # None
                 /\ h = [id |-> [pid |-> p, start |-> starts[p]], key |-> files[p][d].key, fd |-> d]
    BY DEF Holding
  <1> QED
    BY <1>1, <1>2

LEMMA FileIs == \A f \in Files : f.key \in Keys /\ f.access \in Accesses
  BY DEF Files, Keys, Accesses

\* Of two endpoints that are not the same one comes before the other.
LEMMA InOrder ==
  ASSUME NumbersAssumed, SystemType, OwnersHeld
  PROVE  /\ \A x \in owners : ~Before(x, x)
         /\ \A x, y \in owners : x = y \/ Before(x, y) \/ Before(y, x)
         /\ \A x, y, z \in owners : Before(x, y) /\ Before(y, z) => Before(x, z)
  <1> DEFINE Numbered(x) == x.id.pid \in Nat /\ x.id.start \in Nat /\ x.fd \in Nat
  <1>1. \A x \in owners : Numbered(x) /\ x.id = [pid |-> x.id.pid, start |-> x.id.start]
    BY DEF NumbersAssumed, SystemType, OwnerSet, ProcSet
  <1>2. ASSUME NEW x \in owners PROVE ~Before(x, x)
    <2>1. Numbered(x)
      BY <1>1
    <2> QED
      BY <2>1 DEF Before
  <1>3. ASSUME NEW x \in owners, NEW y \in owners PROVE x = y \/ Before(x, y) \/ Before(y, x)
    <2>1. Numbered(x) /\ Numbered(y)
      BY <1>1
    <2>2. CASE x.id.pid # y.id.pid
      BY <2>1, <2>2 DEF Before
    <2>3. CASE x.id.pid = y.id.pid /\ x.id.start # y.id.start
      BY <2>1, <2>3 DEF Before
    <2>4. CASE x.id = y.id
      <3>1. x.fd = y.fd => x = y
        BY <2>4 DEF OwnersHeld
      <3> QED
        BY <2>1, <2>4, <3>1 DEF Before
    <2>5. x.id.pid = y.id.pid /\ x.id.start = y.id.start => x.id = y.id
      BY <1>1
    <2> QED
      BY <2>2, <2>3, <2>4, <2>5
  <1>4. ASSUME NEW x \in owners, NEW y \in owners, NEW z \in owners, Before(x, y), Before(y, z)
        PROVE  Before(x, z)
    <2>1. Numbered(x) /\ Numbered(y) /\ Numbered(z)
      BY <1>1
    <2> QED
      BY <1>4, <2>1 DEF Before
  <1> QED
    BY <1>2, <1>3, <1>4

LEMMA OwnersFinite ==
  ASSUME OwnersHeld
  PROVE  \A S \in SUBSET owners : IsFiniteSet(S) /\ Cardinality(S) \in Nat
  BY FS_Subset, FS_CardinalityType DEF OwnersHeld

\* Sorting a set of endpoints loses none and adds none: an endpoint's place is how many
\* come before it, which differs from endpoint to endpoint.
LEMMA SortedAll ==
  ASSUME NumbersAssumed, SystemType, OwnersHeld, NEW S \in SUBSET owners
  PROVE  /\ Cardinality(S) \in Nat /\ Sorted(S) \in Seq(S) /\ Len(Sorted(S)) = Cardinality(S)
         /\ \A i \in 1..Cardinality(S) : Sorted(S)[i] \in S
         /\ \A e \in S : \E i \in 1..Cardinality(S) : Sorted(S)[i] = e
         /\ S # {} => \E e \in S : \A x \in S \ {e} : Before(e, x)
  <1> DEFINE n == Cardinality(S)
             Ahead(e) == {x \in S : Before(x, e)}
             rank == [e \in S |-> Cardinality(Ahead(e))]
  <1>1. IsFiniteSet(S) /\ n \in Nat
    BY OwnersFinite
  <1>2. \A e \in S : IsFiniteSet(Ahead(e)) /\ Cardinality(Ahead(e)) \in Nat
    BY OwnersFinite
  <1>3. ASSUME NEW e \in S PROVE rank[e] \in 0..(n - 1)
    <2>1. Ahead(e) \in SUBSET (S \ {e})
      BY InOrder
    <2>2. IsFiniteSet(S \ {e}) /\ Cardinality(S \ {e}) = n - 1
      BY <1>1, FS_RemoveElement
    <2>3. Cardinality(Ahead(e)) <= n - 1
      BY <2>1, <2>2, FS_Subset
    <2> QED
      BY <1>1, <1>2, <2>3
  <1>4. ASSUME NEW x \in S, NEW y \in S, Before(x, y) PROVE rank[x] < rank[y]
    <2>1. x \notin Ahead(x) /\ Ahead(x) \cup {x} \in SUBSET Ahead(y)
      BY <1>4, InOrder
    <2>2. Cardinality(Ahead(x) \cup {x}) = Cardinality(Ahead(x)) + 1
      BY <1>2, <2>1, FS_AddElement
    <2>3. Cardinality(Ahead(x) \cup {x}) <= Cardinality(Ahead(y))
      BY <1>2, <2>1, FS_Subset
    <2> QED
      BY <1>2, <2>2, <2>3, SMTT(30)
  <1>5. rank \in Injection(S, 0..(n - 1))
    <2>1. rank \in [S -> 0..(n - 1)]
      BY <1>3
    <2>2. ASSUME NEW x \in S, NEW y \in S, x # y PROVE rank[x] # rank[y]
      <3>1. rank[x] \in Nat /\ rank[y] \in Nat
        BY <1>3
      <3>2. rank[x] < rank[y] \/ rank[y] < rank[x]
        BY <1>4, <2>2, InOrder
      <3> HIDE DEF rank
      <3> QED
        BY <3>1, <3>2
    <2> HIDE DEF rank
    <2> QED
      BY <2>1, <2>2 DEF Injection, IsInjective
  <1>6. rank \in Surjection(S, 0..(n - 1))
    <2>1. IsFiniteSet(0..(n - 1)) /\ Cardinality(0..(n - 1)) = n
      BY <1>1, FS_Interval
    <2> HIDE DEF rank
    <2> QED
      BY <1>5, <2>1, FS_Injection
  <1>7. ASSUME NEW i \in 1..n
        PROVE  /\ \E e \in S : Cardinality({x \in S : Before(x, e)}) = i - 1
               /\ Sorted(S)[i] \in S
               /\ \A e \in S : Cardinality({x \in S : Before(x, e)}) = i - 1 => Sorted(S)[i] = e
    <2>1. PICK e \in S : rank[e] = i - 1
      <3>1. i - 1 \in 0..(n - 1)
        BY <1>1
      <3> HIDE DEF rank
      <3> QED
        BY <1>6, <3>1 DEF Surjection
    <2>2. Cardinality({x \in S : Before(x, e)}) = i - 1
      BY <2>1
    <2>3. Sorted(S)[i] = CHOOSE y \in S : Cardinality({x \in S : Before(x, y)}) = i - 1
      BY Zenon DEF Sorted
    <2>4. Sorted(S)[i] \in S /\ Cardinality({x \in S : Before(x, Sorted(S)[i])}) = i - 1
      BY <2>2, <2>3, Zenon
    <2>5. ASSUME NEW y \in S, Cardinality({x \in S : Before(x, y)}) = i - 1 PROVE Sorted(S)[i] = y
      <3>1. rank[y] = i - 1 /\ rank[Sorted(S)[i]] = i - 1
        BY <2>4, <2>5
      <3> HIDE DEF rank
      <3> QED
        BY <1>5, <2>4, <3>1 DEF Injection, IsInjective
    <2> QED
      BY <2>2, <2>4, <2>5
  <1>8. Sorted(S) \in Seq(S) /\ Len(Sorted(S)) = n
    <2>1. ASSUME NEW i \in 1..n
          PROVE  (CHOOSE e \in S : Cardinality({x \in S : Before(x, e)}) = i - 1) \in S
      BY <1>7, Zenon
    <2>2. Sorted(S) \in [1..n -> S]
      BY <2>1, Zenon DEF Sorted
    <2> QED
      BY <1>1, <2>2
  <1>9. ASSUME NEW e \in S PROVE \E i \in 1..n : Sorted(S)[i] = e
    <2>1. rank[e] + 1 \in 1..n /\ rank[e] = (rank[e] + 1) - 1
      BY <1>1, <1>3
    <2>2. Cardinality({x \in S : Before(x, e)}) = rank[e]
      OBVIOUS
    <2> HIDE DEF rank
    <2> QED
      BY <1>7, <2>1, <2>2
  <1>10. ASSUME S # {} PROVE \E e \in S : \A x \in S \ {e} : Before(e, x)
    <2>1. n # 0
      BY <1>1, <1>10, FS_EmptySet
    <2>2. PICK e \in S : Cardinality({x \in S : Before(x, e)}) = 0
      <3>1. 1 \in 1..n /\ 1 - 1 = 0
        BY <1>1, <2>1
      <3> QED
        BY <1>7, <3>1
    <2>3. {x \in S : Before(x, e)} = {}
      BY <1>2, <2>2, FS_EmptySet
    <2> QED
      BY <2>3, InOrder
  <1> QED
    BY <1>1, <1>7, <1>8, <1>9, <1>10

\* What a match makes a relation of.
Relation(e, m) == [ends |-> {e, m.peer}, candidate |-> m.candidate, shared |-> m.shared]

\* The matches of an endpoint are other endpoints, guessed within one namespace.
LEMMA MatchGood ==
  ASSUME SystemType, InfosTrue, NEW e \in owners, NEW m \in Matches(e)
  PROVE  m.peer \in owners /\ RelationGood(Relation(e, m))
  <1>1. CASE m \in Near(e)
    <2>1. PICK p \in Endpoints(e.key) \ {e} :
            m = [peer |-> p, candidate |-> FALSE, shared |-> Shared(e, p)]
      BY <1>1 DEF Near
    <2>2. p \in owners /\ p # e /\ p.key = e.key
      BY <2>1 DEF Endpoints
    <2>3. /\ Relation(e, m).ends = {e, p} /\ ~Relation(e, m).candidate
          /\ (Relation(e, m).shared <=> Shared(e, p)) /\ m.peer = p
      BY <2>1 DEF Relation, Shared
    <2> QED
      BY <2>2, <2>3 DEF RelationGood
  <1>2. CASE m \in Far(e)
    <2>1. e.key \in Sockets \cap DOMAIN infos
      BY <1>2 DEF Far
    <2> DEFINE known == infos[e.key].peer # None
               keys == IF known THEN {infos[e.key].peer} ELSE Reversed(e.key)
    <2>2. PICK p \in {q \in owners : q.key \in keys} :
            m = [peer |-> p, candidate |-> ~known, shared |-> FALSE]
      BY <1>2, <2>1 DEF Far
    <2>3. /\ Relation(e, m).ends = {e, p} /\ (Relation(e, m).candidate <=> ~known)
          /\ ~Relation(e, m).shared /\ m.peer = p
      BY <2>2 DEF Relation
    <2>4. ASSUME ~known PROVE home[p.key] = home[e.key]
      <3>1. p.key \in Reversed(e.key)
        BY <2>2, <2>4
      <3> QED
        BY <3>1 DEF Reversed, Tuple, InfosTrue
    <2> HIDE DEF known
    <2> QED
      BY <2>2, <2>3, <2>4 DEF RelationGood
  <1> QED
    BY <1>1, <1>2 DEF Matches

\* The relations of one endpoint are good ones, and those that were there stay.
LEMMA AddGood ==
  ASSUME SystemType, InfosTrue, NEW e \in owners, NEW out, \A r \in out.relations : RelationGood(r)
  PROVE  /\ \A r \in AddEndpoint(out, e).relations : RelationGood(r)
         /\ out.relations \subseteq AddEndpoint(out, e).relations
  <1>1. CASE Cardinality(out.relations) >= RelationLimit
    BY <1>1 DEF AddEndpoint
  <1>2. CASE ~(Cardinality(out.relations) >= RelationLimit)
    <2> DEFINE alone == [ends |-> {e}, candidate |-> FALSE, shared |-> FALSE]
    <2>1. RelationGood(alone)
      BY DEF RelationGood
    <2>2. \A r \in AddEndpoint(out, e).relations :
            r \in out.relations \/ r = alone \/ \E m \in Matches(e) : r = Relation(e, m)
      BY <1>2 DEF AddEndpoint, Relation
    <2>3. out.relations \subseteq AddEndpoint(out, e).relations
      BY <1>2 DEF AddEndpoint
    <2> HIDE DEF alone
    <2> QED
      BY <2>1, <2>2, <2>3, MatchGood
  <1> QED
    BY <1>1, <1>2

\* The loop over the endpoints of a resource.
RelateStep(out, e, p) == AddEndpoint(out, e)
Relates == INSTANCE FoldProofs WITH Op <- RelateStep
LoopOut(base, key) == Relates!FoldAlong(base, Sorted(Endpoints(key)), 0)

LEMMA RelateLoop ==
  ASSUME NumbersAssumed, SystemType, OwnersHeld, NEW key, NEW base
  PROVE  \E g : LET s == Sorted(Endpoints(key))
               IN /\ g[0] = base
                  /\ \A n \in 1..Len(s) : g[n] = AddEndpoint(g[n - 1], s[n])
                  /\ LoopOut(base, key) = g[Len(s)]
  <1> DEFINE s == Sorted(Endpoints(key))
  <1>1. s \in Seq(Endpoints(key))
    BY SortedAll DEF Endpoints
  <1> HIDE DEF s
  <1>2. \E g : /\ g[0] = base
               /\ \A n \in 1..Len(s) : g[n] = RelateStep(g[n - 1], s[n], 0)
               /\ Relates!FoldAlong(base, s, 0) = g[Len(s)]
    BY <1>1, Relates!SeqLoop
  <1> QED
    BY <1>2 DEF RelateStep, LoopOut, s

LEMMA RelateIs ==
  ASSUME NEW key, Relate(key)
  PROVE  /\ relations' = LoopOut([relations |-> relations, truncated |-> truncated], key).relations
         /\ truncated' = LoopOut([relations |-> relations, truncated |-> truncated], key).truncated
  BY Zenon DEF Relate, LoopOut, RelateStep, FoldLeft, MapThenFoldSet, Max,
               Relates!FoldAlong, Relates!FoldLeft, Relates!MapThenFoldSet, Relates!Max

LEMMA RelateGood ==
  ASSUME NumbersAssumed, SystemType, OwnersHeld, InfosTrue, RelationsGood, NEW key
  PROVE  \A r \in LoopOut([relations |-> relations, truncated |-> truncated], key).relations :
           RelationGood(r)
  <1> DEFINE base == [relations |-> relations, truncated |-> truncated]
             S == Endpoints(key)
             s == Sorted(S)
  <1>1. S \in SUBSET owners
    BY DEF Endpoints
  <1>2. Len(s) \in Nat /\ \A i \in 1..Len(s) : s[i] \in owners
    BY <1>1, SortedAll
  <1>3. PICK g : /\ g[0] = base
                 /\ \A n \in 1..Len(s) : g[n] = AddEndpoint(g[n - 1], s[n])
                 /\ LoopOut(base, key) = g[Len(s)]
    BY RelateLoop
  <1> DEFINE T == {n \in 0..Len(s) : \A r \in g[n].relations : RelationGood(r)}
  <1>4. 0 \in T
    BY <1>2, <1>3 DEF RelationsGood
  <1>5. ASSUME NEW n \in 1..Len(s), n - 1 \in T PROVE n \in T
    <2>1. \A r \in g[n - 1].relations : RelationGood(r)
      BY <1>5
    <2>2. g[n] = AddEndpoint(g[n - 1], s[n]) /\ s[n] \in owners
      BY <1>2, <1>3
    <2> HIDE DEF s
    <2>3. \A r \in g[n].relations : RelationGood(r)
      BY <2>1, <2>2, AddGood
    <2> QED
      BY <2>3
  <1>6. \A n \in 0..Len(s) : n \in T
    <2> HIDE DEF T, s
    <2> QED
      BY <1>2, <1>4, <1>5, Relates!Reaches
  <1> QED
    BY <1>2, <1>3, <1>6

\* A step that leaves the endpoints, what is known of sockets and the relations alone.
LEMMA RelationsStay ==
  ASSUME SystemInv, UNCHANGED <<owners, home, infos, relations>>
  PROVE  InfosTrue' /\ RelationsGood'
  BY DEF SystemInv, InfosTrue, RelationsGood, RelationGood, Shared

\* Changes of the system: what is open afterwards was held, and a process that has
\* lost its pid does not get it back.
LEMMA ChangedKeeps ==
  ASSUME NumbersAssumed, SystemInv,
         NEW starts \in [Pids -> Nat], \A p \in Pids : start[p] <= starts[p],
         NEW files \in [Pids -> [Fds -> Files \cup {None}]], Changed(starts, files)
  PROVE  SystemInv'
  <1>1. /\ phase = "scan" /\ start' = starts /\ file' = files /\ changes' = changes + 1
        /\ held' = held \cup Holding(starts, files)
        /\ UNCHANGED <<ns, home, phase, late, todo, cur, truncated, owners, processes, infos,
                       metadata, relations>>
    BY DEF Changed, Disturbable, scan, result
  <1>2. SystemType'
    BY <1>1 DEF SystemInv, SystemType
  <1>3. ReadHeld'
    <2>1. \A id \in ProcSet : id.pid \in Pids /\ id.start \in Nat
      BY DEF ProcSet
    <2>2. \A p \in Pids : start[p] \in Nat /\ starts[p] \in Nat
      BY DEF SystemInv, SystemType
    <2>3. \A id \in todo' : id.start <= start'[id.pid] /\ \A e \in owners' : e.id # id
      <3>1. \A id \in todo : id \in ProcSet /\ id.start <= start[id.pid] /\ \A e \in owners : e.id # id
        BY DEF SystemInv, SystemType, ReadHeld
      <3> QED
        BY <1>1, <2>1, <2>2, <3>1
    <2>4. ASSUME cur # None
          PROVE  /\ cur.id.start <= start'[cur.id.pid]
                 /\ Valid(cur.id)' => \A g \in cur.got : HeldBy(cur.id, g)'
      <3>1. cur.id \in ProcSet
        BY <2>4 DEF SystemInv, SystemType, ScanSet
      <3>2. cur.id.start <= start[cur.id.pid]
        BY <2>4 DEF SystemInv, ReadHeld
      <3>3. Valid(cur.id)' => Valid(cur.id)
        <4> DEFINE q == cur.id.pid
        <4>1. /\ q \in Pids /\ cur.id.start \in Nat /\ start[q] \in Nat /\ starts[q] \in Nat
              /\ start[q] <= starts[q] /\ cur.id.start <= start[q]
          BY <2>1, <2>2, <3>1, <3>2
        <4>2. (Valid(cur.id)' <=> starts[q] = cur.id.start) /\ (Valid(cur.id) <=> start[q] = cur.id.start)
          BY <1>1 DEF Valid
        <4> HIDE DEF q
        <4> QED
          BY <4>1, <4>2, SMTT(30)
      <3> QED
        BY <1>1, <2>1, <2>2, <2>4, <3>1, <3>2, <3>3 DEF SystemInv, ReadHeld, HeldBy
    <2>5. Holding(start, file)' \subseteq held'
      BY <1>1 DEF Holding
    <2> QED
      BY <1>1, <2>3, <2>4, <2>5 DEF SystemInv, ReadHeld
  <1>4. OwnersHeld'
    BY <1>1 DEF SystemInv, OwnersHeld, HeldBy
  <1> QED
    BY <1>1, <1>2, <1>3, <1>4, RelationsStay DEF SystemInv

LEMMA WorldChanges ==
  ASSUME NumbersAssumed, SystemInv, NEW p \in Pids, NEW f \in Files \cup {None},
         ReusePid(p, f) \/ \E d \in Fds : ChangeFile(p, d, f)
  PROVE  SystemInv'
  <1>1. \A q \in Pids : start[q] \in Nat
    BY DEF SystemInv, SystemType
  <1>2. CASE ReusePid(p, f)
    <2> DEFINE starts == [start EXCEPT ![p] = @ + 1]
               files == [file EXCEPT ![p] = [d \in Fds |-> f]]
    <2>1. starts \in [Pids -> Nat] /\ \A q \in Pids : start[q] <= starts[q]
      BY <1>1 DEF SystemInv, SystemType
    <2>2. files \in [Pids -> [Fds -> Files \cup {None}]]
      BY DEF SystemInv, SystemType
    <2>3. Changed(starts, files)
      BY <1>2 DEF ReusePid
    <2> HIDE DEF starts, files
    <2> QED
      BY <2>1, <2>2, <2>3, ChangedKeeps
  <1>3. ASSUME NEW d \in Fds, ChangeFile(p, d, f) PROVE SystemInv'
    <2> DEFINE files == [file EXCEPT ![p][d] = f]
    <2>1. start \in [Pids -> Nat] /\ \A q \in Pids : start[q] <= start[q]
      BY <1>1 DEF SystemInv, SystemType
    <2>2. files \in [Pids -> [Fds -> Files \cup {None}]]
      BY DEF SystemInv, SystemType
    <2>3. Changed(start, files)
      BY <1>3 DEF ChangeFile
    <2> HIDE DEF files
    <2> QED
      BY <2>1, <2>2, <2>3, ChangedKeeps
  <1> QED
    BY <1>2, <1>3

LEMMA BeginKeeps ==
  ASSUME NumbersAssumed, SystemInv, Begin
  PROVE  SystemInv'
  <1>1. /\ phase = "idle" /\ phase' = "scan" /\ todo' = {Id(p) : p \in Pids}
        /\ held' = Holding(start, file)
        /\ UNCHANGED <<start, file, ns, home, late, cur, truncated, changes, owners, processes,
                       infos, metadata, relations>>
    BY DEF Begin, world, result
  <1>2. todo' \subseteq ProcSet
    BY <1>1 DEF Id, ProcSet, SystemInv, SystemType
  <1>3. SystemType'
    BY <1>1, <1>2 DEF SystemInv, SystemType
  <1>4. owners = {} /\ cur = None
    BY <1>1 DEF SystemInv, OwnersHeld, ReadHeld
  <1>5. \A id \in todo' : id.start <= start'[id.pid]
    BY <1>1 DEF Id, SystemInv, SystemType
  <1>6. ReadHeld'
    BY <1>1, <1>4, <1>5 DEF ReadHeld, Holding
  <1>7. OwnersHeld'
    BY <1>1, <1>4 DEF SystemInv, OwnersHeld
  <1> QED
    BY <1>1, <1>3, <1>6, <1>7, RelationsStay DEF SystemInv

LEMMA OpenKeeps ==
  ASSUME NumbersAssumed, SystemInv, NEW id \in todo, OpenProcess(id)
  PROVE  SystemInv'
  <1>1. /\ phase = "scan" /\ cur = None /\ todo' = todo \ {id} /\ processes \subseteq processes'
        /\ UNCHANGED <<start, file, ns, home, phase, late, owners, metadata, relations, changes, held>>
    BY DEF OpenProcess, world
  <1>2. CASE late
    <2>1. truncated' = TRUE /\ UNCHANGED <<cur, infos>>
      BY <1>2 DEF OpenProcess
    <2>2. SystemType'
      BY <1>1, <2>1 DEF SystemInv, SystemType
    <2>3. ReadHeld'
      BY <1>1, <2>1 DEF SystemInv, ReadHeld, Holding
    <2>4. OwnersHeld'
      BY <1>1, <2>1 DEF SystemInv, OwnersHeld, HeldBy
    <2> QED
      BY <1>1, <2>1, <2>2, <2>3, <2>4, RelationsStay DEF SystemInv
  <1>3. CASE ~late
    <2>1. UNCHANGED <<processes, truncated>> /\ ReadNamespace(id)
      BY <1>3 DEF OpenProcess
    <2>2. PICK allowed \in BOOLEAN :
            cur' = [id |-> id, left |-> {d \in Fds : file[id.pid][d] # None}, got |-> {},
                    ask |-> allowed]
      BY <1>3 DEF OpenProcess
    <2>3. cur' \in ScanSet /\ cur'.id = id /\ cur'.got = {}
      BY <2>2 DEF ScanSet, GotSet, SystemInv, SystemType
    <2>4. /\ infos' = [s \in DOMAIN infos' |-> infos'[s]] /\ DOMAIN infos' \subseteq Sockets
          /\ \A s \in DOMAIN infos' : IsInfo(infos'[s])
          /\ InfosTrue'
      <3>1. CASE UNCHANGED infos
        BY <1>1, <3>1 DEF SystemInv, SystemType, InfosTrue
      <3>2. CASE infos' = [s \in DOMAIN infos \cup Alive(ns[id.pid]) |->
                             IF s \in Alive(ns[id.pid]) THEN SocketInfo(s, ns[id.pid]) ELSE infos[s]]
        <4>1. Alive(ns[id.pid]) \subseteq {s \in Sockets : home[s] = ns[id.pid]}
          BY DEF Alive
        <4>2. \A s : /\ SocketInfo(s, ns[id.pid]).ns = ns[id.pid]
                     /\ IsInfo(SocketInfo(s, ns[id.pid]))
          BY DEF SocketInfo, IsInfo
        <4> QED
          BY <1>1, <3>2, <4>1, <4>2 DEF SystemInv, SystemType, InfosTrue
      <3> QED
        BY <2>1, <3>1, <3>2 DEF ReadNamespace
    <2>5. SystemType'
      BY <1>1, <2>1, <2>3, <2>4 DEF SystemInv, SystemType
    <2>6. ReadHeld'
      BY <1>1, <2>3 DEF SystemInv, ReadHeld, Holding
    <2>7. OwnersHeld'
      BY <1>1, <2>1 DEF SystemInv, OwnersHeld, HeldBy
    <2>8. RelationsGood'
      BY <1>1 DEF SystemInv, RelationsGood, RelationGood, Shared
    <2> QED
      BY <2>4, <2>5, <2>6, <2>7, <2>8 DEF SystemInv
  <1> QED
    BY <1>2, <1>3

\* A descriptor read of a process that is still itself was held; of one that lost its
\* pid nothing is claimed any more.
LEMMA ReadKeepsHeld ==
  ASSUME NumbersAssumed, SystemInv, NEW d \in Fds, ReadFd(d)
  PROVE  SystemInv'
  <1>1. /\ phase = "scan" /\ cur # None /\ d \in cur.left
        /\ UNCHANGED <<start, file, ns, home, phase, late, todo, processes, owners, infos, relations,
                       changes, held>>
    BY DEF ReadFd, world
  <1>2. /\ cur \in ScanSet /\ cur.id \in ProcSet /\ cur.id.pid \in Pids /\ cur.left \subseteq Fds
        /\ cur.got \subseteq GotSet
    BY <1>1 DEF SystemInv, SystemType, ScanSet, ProcSet
  <1> DEFINE f == file[cur.id.pid][d]
             more == {[fd |-> d, key |-> g.key, access |-> g.access] : g \in {f} \ {None}}
  <1>3. /\ f \in Files \cup {None}
        /\ more \subseteq GotSet /\ \A g \in more : g.fd = d /\ f # None /\ g.key = f.key
        /\ \A g, h \in more : g = h
    <2>1. f \in Files \cup {None}
      BY <1>2 DEF SystemInv, SystemType
    <2> HIDE DEF f
    <2> QED
      BY <2>1, FileIs DEF GotSet
  <1>4. /\ cur' \in ScanSet /\ cur'.id = cur.id /\ cur'.left \subseteq cur.left
        /\ \/ cur'.got = cur.got
           \/ cur'.got = cur.got \cup more /\ d \notin cur'.left
        /\ metadata' \subseteq Sockets
    <2>1. CASE late \/ inspected >= FdLimit
      <3>1. cur' = [cur EXCEPT !.left = {}] /\ UNCHANGED metadata
        BY <2>1 DEF ReadFd
      <3> QED
        BY <1>2, <3>1 DEF ScanSet, SystemInv, SystemType
    <2>2. CASE ~(late \/ inspected >= FdLimit)
      <3>1. /\ cur' = [cur EXCEPT !.left = @ \ {d}, !.got = @ \cup more]
            /\ metadata' = metadata \cup (IF cur.ask /\ Valid(cur.id) /\ f # None
                                            THEN {f.key} \cap Sockets ELSE {})
        BY <2>2 DEF ReadFd
      <3> HIDE DEF more, f
      <3> QED
        BY <1>2, <1>3, <3>1 DEF ScanSet, SystemInv, SystemType
    <2> QED
      BY <2>1, <2>2
  <1>5. SystemType'
    BY <1>1, <1>4 DEF SystemInv, SystemType
  <1>6. ASSUME Valid(cur.id), NEW g \in more PROVE HeldBy(cur.id, g)
    <2>1. /\ f # None /\ g.fd = d /\ g.key = f.key
      BY <1>3
    <2>2. [id |-> [pid |-> cur.id.pid, start |-> start[cur.id.pid]], key |-> f.key, fd |-> d]
            \in Holding(start, file)
      BY <1>2, <2>1, HoldingIs
    <2>3. [pid |-> cur.id.pid, start |-> start[cur.id.pid]] = cur.id
      BY <1>2, <1>6 DEF Valid, ProcSet
    <2> QED
      BY <1>1, <2>1, <2>2, <2>3 DEF SystemInv, ReadHeld, HeldBy
  <1>7. ReadHeld'
    <2> HIDE DEF more, f
    <2>1. cur' # None
      BY <1>4 DEF NumbersAssumed
    <2>2. /\ cur'.id \notin todo' /\ cur'.id.start <= start'[cur'.id.pid]
          /\ \A e \in owners' : e.id # cur'.id
      BY <1>1, <1>4 DEF SystemInv, ReadHeld
    <2>3. Valid(cur.id) => \A g \in cur'.got : HeldBy(cur.id, g)
      BY <1>1, <1>4, <1>6 DEF SystemInv, ReadHeld
    <2>4. (Valid(cur.id) => \A g \in cur.got : HeldBy(cur.id, g))'
      BY <1>1, <1>4, <2>3 DEF Valid, HeldBy
    <2>5. \A g \in cur'.got : g.fd \notin cur'.left
      BY <1>1, <1>3, <1>4 DEF SystemInv, ReadHeld
    <2>6. \A g, h \in cur'.got : g.fd = h.fd => g = h
      BY <1>1, <1>3, <1>4 DEF SystemInv, ReadHeld
    <2> QED
      BY <1>1, <2>1, <2>2, <2>4, <2>5, <2>6 DEF SystemInv, ReadHeld, Holding
  <1>8. OwnersHeld'
    BY <1>1 DEF SystemInv, OwnersHeld, HeldBy
  <1> QED
    BY <1>1, <1>5, <1>7, <1>8, RelationsStay DEF SystemInv

LEMMA DeniedKeeps ==
  ASSUME NumbersAssumed, SystemInv, AccessDenied
  PROVE  SystemInv'
  <1>1. /\ phase = "scan" /\ cur # None /\ cur' = [cur EXCEPT !.left = {}]
        /\ UNCHANGED <<start, file, ns, home, phase, late, todo, processes, owners, infos, metadata,
                       truncated, relations, changes, held>>
    BY DEF AccessDenied, Disturbable, world
  <1>2. /\ cur' \in ScanSet /\ cur'.id = cur.id /\ cur'.left = {} /\ cur'.got = cur.got
    BY <1>1 DEF SystemInv, SystemType, ScanSet
  <1>3. SystemType'
    BY <1>1, <1>2 DEF SystemInv, SystemType
  <1>4. ReadHeld'
    BY <1>1, <1>2 DEF SystemInv, ReadHeld, Holding, Valid, HeldBy
  <1>5. OwnersHeld'
    BY <1>1 DEF SystemInv, OwnersHeld, HeldBy
  <1> QED
    BY <1>1, <1>3, <1>4, <1>5, RelationsStay DEF SystemInv

\* The descriptors of a process become its endpoints only if it is still itself.
LEMMA CloseKeeps ==
  ASSUME NumbersAssumed, SystemInv, CloseProcess
  PROVE  SystemInv'
  <1>1. /\ phase = "scan" /\ cur # None /\ cur' = None
        /\ UNCHANGED <<start, file, ns, home, phase, late, todo, infos, metadata, truncated,
                       relations, changes, held>>
    BY DEF CloseProcess, world
  <1>2. cur.id \in ProcSet /\ cur.got \subseteq GotSet
    BY <1>1 DEF SystemInv, SystemType, ScanSet
  <1> DEFINE new == Coalesced(cur.id, cur.got)
  <1>3. CASE ~StillThere(cur.id)
    <2>1. UNCHANGED <<owners, processes>>
      BY <1>3 DEF CloseProcess
    <2>2. SystemType'
      BY <1>1, <2>1 DEF SystemInv, SystemType
    <2>3. ReadHeld'
      BY <1>1, <2>1 DEF SystemInv, ReadHeld, Holding
    <2>4. OwnersHeld'
      BY <1>1, <2>1 DEF SystemInv, OwnersHeld, HeldBy
    <2> QED
      BY <1>1, <2>1, <2>2, <2>3, <2>4, RelationsStay DEF SystemInv
  <1>4. CASE StillThere(cur.id)
    <2>1. owners' = owners \cup new /\ processes' = processes \cup {cur.id}
      BY <1>4 DEF CloseProcess
    <2>2. \A e \in new : \E g \in cur.got :
            e = [id |-> cur.id, key |-> g.key, access |-> g.access, fd |-> g.fd]
      BY DEF Coalesced
    <2>3. /\ new \subseteq OwnerSet
          /\ \A e \in new : e.id = cur.id /\ HeldBy(e.id, e)
          /\ \A x, y \in new : x.fd = y.fd => x = y
      <3>1. /\ \A g \in cur.got : HeldBy(cur.id, g)
            /\ \A g, h \in cur.got : g.fd = h.fd => g = h
        BY <1>1, <1>4 DEF SystemInv, ReadHeld, StillThere
      <3>2. new \subseteq OwnerSet
        BY <1>2, <2>2 DEF OwnerSet, GotSet
      <3>3. \A e \in new : e.id = cur.id /\ HeldBy(e.id, e)
        BY <1>2, <2>2, <3>1 DEF HeldBy
      <3>4. \A x, y \in new : x.fd = y.fd => x = y
        BY <1>2, <2>2, <3>1
      <3> HIDE DEF new
      <3> QED
        BY <3>2, <3>3, <3>4
    <2>4. IsFiniteSet(new)
      <3> DEFINE at == [e \in new |-> e.fd]
      <3>1. at \in Injection(new, Fds)
        <4>1. \A e \in new : e.fd \in Fds
          BY <2>3 DEF OwnerSet
        <4> HIDE DEF new
        <4>2. at \in [new -> Fds]
          BY <4>1
        <4>3. \A x, y \in new : at[x] = at[y] => x = y
          BY <2>3
        <4> HIDE DEF at
        <4> QED
          BY <4>2, <4>3 DEF Injection, IsInjective
      <3> HIDE DEF at, new
      <3> QED
        BY <3>1, FS_Injection DEF NumbersAssumed
    <2> HIDE DEF new
    <2>5. SystemType'
      BY <1>1, <2>1, <2>3 DEF SystemInv, SystemType
    <2>6. ReadHeld'
      <3>1. \A id \in todo' : id.start <= start'[id.pid] /\ \A e \in owners' : e.id # id
        BY <1>1, <2>1, <2>3 DEF SystemInv, ReadHeld
      <3> QED
        BY <1>1, <3>1 DEF SystemInv, ReadHeld, Holding
    <2>7. OwnersHeld'
      <3>1. IsFiniteSet(owners')
        BY <2>1, <2>4, FS_Union DEF SystemInv, OwnersHeld
      <3>2. \A e \in owners' : HeldBy(e.id, e)' /\ e.id \in processes'
        BY <1>1, <2>1, <2>3 DEF SystemInv, OwnersHeld, HeldBy
      <3>3. \A x, y \in owners' : x.id = y.id /\ x.fd = y.fd => x = y
        BY <1>1, <2>1, <2>3 DEF SystemInv, OwnersHeld, ReadHeld
      <3> QED
        BY <1>1, <3>1, <3>2, <3>3 DEF OwnersHeld
    <2>8. InfosTrue' /\ RelationsGood'
      <3>1. ASSUME NEW r \in relations PROVE RelationGood(r)'
        <4>1. RelationGood(r)
          BY DEF SystemInv, RelationsGood
        <4> QED
          BY <1>1, <2>1, <4>1 DEF RelationGood, Shared
      <3> QED
        BY <1>1, <3>1 DEF SystemInv, InfosTrue, RelationsGood
    <2> QED
      BY <2>5, <2>6, <2>7, <2>8 DEF SystemInv
  <1> QED
    BY <1>3, <1>4

\* The end of the scan, and what the server makes of it.
LEMMA RelatingKeeps ==
  ASSUME NumbersAssumed, SystemInv, Diagnose \/ (\E key \in left : Relate(key)) \/ Finish
  PROVE  SystemInv'
  <1>1. CASE Diagnose
    <2>1. /\ phase' = "relate" /\ cur = None /\ todo = {}
          /\ UNCHANGED <<start, file, ns, home, late, todo, cur, processes, owners, metadata,
                         truncated, relations, changes, held>>
      BY <1>1 DEF Diagnose, world, scan
    <2>2. PICK ok \in SUBSET pinned :
            LET diag == IF link = "unix" THEN UNION {Alive(n) : n \in ok} ELSE {}
                old(s) == IF s \in DOMAIN infos THEN infos[s] ELSE NoPeer
                peer(s) == IF home[s] = home[PeerOf(s)] THEN PeerOf(s) ELSE None
            IN infos' = [s \in DOMAIN infos \cup diag \cup metadata |->
                           IF s \in diag THEN [old(s) EXCEPT !.peer = peer(s)] ELSE old(s)]
      BY <1>1 DEF Diagnose
    <2> DEFINE diag == IF link = "unix" THEN UNION {Alive(n) : n \in ok} ELSE {}
               old(s) == IF s \in DOMAIN infos THEN infos[s] ELSE NoPeer
    <2>3. diag \subseteq Sockets
      BY DEF Alive
    <2>4. infos' = [s \in DOMAIN infos' |-> infos'[s]] /\ DOMAIN infos' \subseteq Sockets
      BY <2>2, <2>3 DEF SystemInv, SystemType
    <2>5. ASSUME NEW s \in DOMAIN infos'
          PROVE  /\ infos'[s].remote = old(s).remote /\ infos'[s].ns = old(s).ns
                 /\ IsInfo(infos'[s])
      <3>1. IsInfo(old(s))
        BY DEF SystemInv, SystemType, NoPeer, IsInfo
      <3>2. PICK v : infos'[s] = old(s) \/ infos'[s] = [old(s) EXCEPT !.peer = v]
        BY <2>2
      <3> HIDE DEF old
      <3> QED
        BY <3>1, <3>2 DEF IsInfo
    <2>6. InfosTrue'
      BY <2>1, <2>4, <2>5 DEF SystemInv, InfosTrue, NoPeer
    <2>7. SystemType'
      BY <2>1, <2>4, <2>5 DEF SystemInv, SystemType
    <2>8. ReadHeld' /\ OwnersHeld'
      BY <2>1 DEF SystemInv, ReadHeld, OwnersHeld, HeldBy
    <2>9. RelationsGood'
      BY <2>1 DEF SystemInv, RelationsGood, RelationGood, Shared
    <2> QED
      BY <2>6, <2>7, <2>8, <2>9 DEF SystemInv
  <1>2. ASSUME NEW key \in left, Relate(key) PROVE SystemInv'
    <2>1. UNCHANGED <<start, file, ns, home, late, todo, cur, phase, processes, owners, infos,
                      metadata, changes, held>>
      BY <1>2 DEF Relate, world, scan
    <2>3. SystemType'
      BY <2>1 DEF SystemInv, SystemType
    <2>4. ReadHeld' /\ OwnersHeld' /\ InfosTrue'
      BY <2>1 DEF SystemInv, ReadHeld, OwnersHeld, HeldBy, InfosTrue, Holding, Valid
    <2>5. \A r \in relations' : RelationGood(r)
      BY <1>2, RelateIs, RelateGood DEF SystemInv
    <2>6. RelationsGood'
      BY <2>1, <2>5 DEF RelationsGood, RelationGood, Shared
    <2> QED
      BY <2>3, <2>4, <2>6 DEF SystemInv
  <1>3. CASE Finish
    <2>1. /\ phase' = "done" /\ phase = "relate"
          /\ UNCHANGED <<start, file, ns, home, late, todo, cur, processes, owners, infos,
                         metadata, truncated, relations, changes, held>>
      BY <1>3 DEF Finish, world, scan
    <2>2. SystemType'
      BY <2>1 DEF SystemInv, SystemType
    <2>3. ReadHeld' /\ OwnersHeld'
      BY <2>1 DEF SystemInv, ReadHeld, OwnersHeld, HeldBy
    <2> QED
      BY <2>1, <2>2, <2>3, RelationsStay DEF SystemInv
  <1> QED
    BY <1>1, <1>2, <1>3

LEMMA SystemInvHolds ==
  ASSUME NumbersAssumed
  PROVE  /\ Init => SystemInv
         /\ SystemInv /\ [Next]_vars => SystemInv'
  <1>1. ASSUME Init PROVE SystemInv
    <2> USE <1>1 DEF Init
    <2>1. SystemType
      BY DEF SystemType
    <2>2. ReadHeld /\ OwnersHeld
      BY FS_EmptySet DEF ReadHeld, OwnersHeld
    <2> QED
      BY <2>1, <2>2 DEF SystemInv, InfosTrue, RelationsGood
  <1>2. ASSUME SystemInv, [Next]_vars PROVE SystemInv'
    <2>1. CASE UNCHANGED vars
      <3>1. UNCHANGED <<start, file, ns, home, phase, todo, cur, processes, owners, infos,
                        metadata, relations, changes, held>>
        BY <2>1 DEF vars, world, scan, result
      <3>2. SystemType'
        BY <1>2, <3>1 DEF SystemInv, SystemType
      <3>3. ReadHeld' /\ OwnersHeld'
        BY <1>2, <3>1 DEF SystemInv, ReadHeld, OwnersHeld, HeldBy, Holding, Valid
      <3> QED
        BY <1>2, <3>1, <3>2, <3>3, RelationsStay DEF SystemInv
    <2>2. CASE DeadlinePasses
      <3>1. UNCHANGED <<start, file, ns, home, phase, todo, cur, processes, owners, infos,
                        metadata, relations, changes, held>>
        BY <2>2 DEF DeadlinePasses, world, scan, result
      <3>2. SystemType'
        BY <1>2, <3>1 DEF SystemInv, SystemType
      <3>3. ReadHeld' /\ OwnersHeld'
        BY <1>2, <3>1 DEF SystemInv, ReadHeld, OwnersHeld, HeldBy, Holding, Valid
      <3> QED
        BY <1>2, <3>1, <3>2, <3>3, RelationsStay DEF SystemInv
    <2> QED
      BY <1>2, <2>1, <2>2, WorldChanges, BeginKeeps, OpenKeeps, ReadKeepsHeld, DeniedKeeps,
         CloseKeeps, RelatingKeeps DEF Next
  <1> QED
    BY <1>1, <1>2

\* Every end of a relation of the system snapshot is a descriptor its process held
\* while the scan ran, of a process of the snapshot, although pids are reused between
\* the reads; and a guess by addresses joins sockets of one namespace only
\* (collect_system_snapshot_from_sources, build_ipc_relations).
THEOREM RelationsOfHolders ==
  ASSUME NumbersAssumed
  PROVE  /\ Spec => [](RelationsHeld /\ CandidatesSameNamespace)
         /\ MCSpec => []RelationsOfSystem
  <1>1. SystemInv => RelationsHeld /\ CandidatesSameNamespace
    <2> SUFFICES ASSUME SystemInv PROVE RelationsHeld /\ CandidatesSameNamespace
      OBVIOUS
    <2>1. RelationsHeld
      BY DEF SystemInv, RelationsGood, RelationGood, OwnersHeld, HeldBy, RelationsHeld
    <2>2. ASSUME NEW r \in relations, r.candidate
          PROVE  Cardinality({home[e.key] : e \in r.ends}) = 1
      <3>1. r.ends # {} /\ \A x, y \in r.ends : home[x.key] = home[y.key]
        BY <2>2 DEF SystemInv, RelationsGood, RelationGood
      <3>2. PICK x \in r.ends : TRUE
        BY <3>1
      <3>3. {home[e.key] : e \in r.ends} = {home[x.key]}
        BY <3>1, <3>2
      <3> QED
        BY <3>3, FS_Singleton
    <2> QED
      BY <2>1, <2>2 DEF CandidatesSameNamespace
  <1> DEFINE Checked == which = "system" => SystemInv
  <1>2. MCInit => Checked
    BY SystemInvHolds, AboutSystem
  <1>3. Checked /\ [MCNext]_allVars => Checked'
    BY SystemInvHolds, AboutSystem
  <1>4. Checked => RelationsOfSystem
    BY <1>1 DEF RelationsOfSystem
  <1>5. (Init => SystemInv) /\ (SystemInv /\ [Next]_vars => SystemInv')
    BY SystemInvHolds
  <1> HIDE DEF Checked
  <1> QED
    BY <1>1, <1>2, <1>3, <1>4, <1>5, PTL DEF Spec, MCSpec

-----------------------------------------------------------------------------
(* SystemScan: a snapshot without a warning is complete.                   *)

\* The sockets are the two ends of one connection, as PeerOf has it, and no pipes;
\* there is room for a relation.
PeersAssumed ==
  /\ \E s, t : s # t /\ Sockets = {s, t}
  /\ Sockets \cap Pipes = {} /\ None \notin Sockets
  /\ PeerLimit \in Nat /\ RelationLimit \in Nat \ {0}

\* Nothing has happened that a warning or a note would have to tell of.
Quiet == changes = 0 /\ ~unreadable /\ warnings = {} /\ ~truncated

\* While nothing changes, what was open at the start is what is open.
AsBegun ==
  changes = 0 =>
    /\ phase # "idle" => held = Holding(start, file)
    /\ \A id \in todo : id = Id(id.pid)
    /\ cur # None => cur.id = Id(cur.id.pid)
    /\ \A e \in owners : e.id = Id(e.id.pid)

\* Each process is still to be read, being read, or has its endpoints, and the tables
\* of its namespace are read with it.
Represented(p) ==
  \A d \in Fds : file[p][d] # None =>
    \E e \in owners : e.id = Id(p) /\ e.key = file[p][d].key /\ e.access = file[p][d].access
ReadOf(p, d) == [fd |-> d, key |-> file[p][d].key, access |-> file[p][d].access]
BeingRead(p) ==
  /\ cur # None /\ cur.id = Id(p)
  /\ \A d \in Fds : file[p][d] # None => d \in cur.left \/ ReadOf(p, d) \in cur.got
ScanWhole ==
  phase # "idle" =>
    \A p \in Pids : Id(p) \in todo \/ (ns[p] \in seenNs /\ (BeingRead(p) \/ Represented(p)))

\* The tables of a namespace list its sockets.
TablesRead ==
  /\ seenNs = pinned
  /\ phase = "scan" =>
       \A n \in seenNs : \A s \in Alive(n) : s \in DOMAIN infos /\ infos[s] = SocketInfo(s, n)

\* Each of two sockets that are connected leads to the other.
PeersFound ==
  phase \in {"relate", "done"} =>
    \A x, y \in owners : Talk(x, y) /\ x.key # y.key =>
      /\ x.key \in DOMAIN infos
      /\ y.key \in IF infos[x.key].peer # None THEN {infos[x.key].peer} ELSE Reversed(x.key)

\* The endpoints of a resource that was handled have all their relations.
Related(e, rels) == \A m \in Matches(e) : \E r \in rels : r.ends = {e, m.peer}
AllRelated ==
  phase \in {"relate", "done"} => \A e \in owners : e.key \in left \/ Related(e, relations)

WholeSystem ==
  /\ AsBegun /\ link \in {"unix", "tcp"}
  /\ phase = "idle" => seenNs = {}
  /\ IsFiniteSet(relations) /\ (~truncated => Cardinality(relations) < RelationLimit)
  /\ phase = "done" => left = {} /\ (truncated => warnings # {})
  /\ Quiet => ScanWhole /\ TablesRead /\ PeersFound /\ AllRelated

LEMMA OtherEnd ==
  ASSUME PeersAssumed, NEW s \in Sockets, NEW t \in Sockets, s # t
  PROVE  PeerOf(s) = t
  BY DEF PeersAssumed, PeerOf

LEMMA LeastNumber ==
  ASSUME NEW S, S \subseteq Nat, S # {}
  PROVE  \E x \in S : \A y \in S : x <= y
  <1> DEFINE Less == OpToRel(<, Nat)
  <1>1. IsWellFoundedOn(Less, Nat)
    BY NatLessThanWellFounded
  <1>2. PICK x \in S : \A y \in S : ~ (<<y, x>> \in Less)
    <2> HIDE DEF Less
    <2> QED
      BY <1>1, WFMin
  <1>3. \A y \in S : ~ (y < x)
    BY <1>2 DEF OpToRel
  <1> QED
    BY <1>3

LEMMA RangeFinite ==
  ASSUME NEW S, IsFiniteSet(S), NEW f
  PROVE  IsFiniteSet({f[x] : x \in S})
  <1> DEFINE g == [x \in S |-> f[x]]
             R == {f[x] : x \in S}
  <1>1. g \in Surjection(S, R)
    BY DEF Surjection
  <1> HIDE DEF g, R
  <1>2. IsFiniteSet(R)
    BY <1>1, FS_Surjection
  <1> QED
    BY <1>2 DEF R

LEMMA MatchesFinite ==
  ASSUME OwnersHeld, NEW e \in owners
  PROVE  IsFiniteSet(Matches(e))
  <1>1. IsFiniteSet(Near(e))
    <2> DEFINE F == [p \in owners |-> [peer |-> p, candidate |-> FALSE, shared |-> Shared(e, p)]]
               P == {q \in Endpoints(e.key) \ {e} : Shared(e, q) => IsFirst(e) \/ IsFirst(q)}
    <2>1. P \in SUBSET owners
      BY DEF Endpoints
    <2>2. Near(e) = {F[p] : p \in P}
      BY <2>1, Zenon DEF Near
    <2> HIDE DEF F, P
    <2> QED
      BY <2>1, <2>2, OwnersFinite, RangeFinite
  <1>2. IsFiniteSet(Far(e))
    <2>1. CASE e.key \notin Sockets \cap DOMAIN infos
      BY <2>1, FS_EmptySet DEF Far
    <2>2. CASE e.key \in Sockets \cap DOMAIN infos
      <3> DEFINE known == infos[e.key].peer # None
                 keys == IF known THEN {infos[e.key].peer} ELSE Reversed(e.key)
                 F == [p \in owners |-> [peer |-> p, candidate |-> ~known, shared |-> FALSE]]
                 P == {q \in owners : q.key \in keys}
      <3>1. Far(e) = {[peer |-> p, candidate |-> ~known, shared |-> FALSE] : p \in P}
        BY <2>2 DEF Far
      <3>2. P \in SUBSET owners
        OBVIOUS
      <3> HIDE DEF known, P
      <3>3. Far(e) = {F[p] : p \in P}
        BY <3>1, <3>2, Zenon
      <3> HIDE DEF F
      <3> QED
        BY <3>2, <3>3, OwnersFinite, RangeFinite
    <2> QED
      BY <2>1, <2>2
  <1> QED
    BY <1>1, <1>2, FS_Union DEF Matches

\* An endpoint gets all its relations, or the result says that it is cut short.
LEMMA AddWhole ==
  ASSUME NumbersAssumed, PeersAssumed, SystemType, OwnersHeld, InfosTrue, NEW e \in owners, NEW out,
         \A r \in out.relations : RelationGood(r), IsFiniteSet(out.relations),
         ~out.truncated => Cardinality(out.relations) < RelationLimit
  PROVE  LET o == AddEndpoint(out, e)
         IN /\ IsFiniteSet(o.relations)
            /\ ~o.truncated => /\ ~out.truncated /\ Cardinality(o.relations) < RelationLimit
                               /\ Related(e, o.relations)
  <1> DEFINE all == Matches(e)
             kept == {m \in all : Cardinality({n \in all : Sooner(n, m)}) < PeerLimit}
             alone == [ends |-> {e}, candidate |-> FALSE, shared |-> FALSE]
             new == {Relation(e, m) : m \in kept} \cup (IF External(e) THEN {alone} ELSE {})
             sum == out.relations \cup {r \in new : \A q \in out.relations : q.ends # r.ends}
             o == AddEndpoint(out, e)
  <1>0. Cardinality(out.relations) \in Nat /\ RelationLimit \in Nat /\ PeerLimit \in Nat
    BY FS_CardinalityType DEF PeersAssumed
  <1>1. CASE Cardinality(out.relations) >= RelationLimit
    <2>1. o = out
      BY <1>1 DEF AddEndpoint
    <2>2. out.truncated
      BY <1>0, <1>1
    <2> HIDE DEF o
    <2> QED
      BY <2>1, <2>2 DEF o
  <1>2. CASE ~(Cardinality(out.relations) >= RelationLimit)
    <2>1. o = [relations |-> sum, truncated |-> out.truncated \/ TooMany(all, sum)]
      BY <1>2, Zenon DEF AddEndpoint, Relation
    <2>2. IsFiniteSet(all) /\ Cardinality(all) \in Nat
      BY MatchesFinite, FS_CardinalityType
    <2>3. IsFiniteSet(sum) /\ Cardinality(sum) \in Nat
      <3> DEFINE F == [m \in all |-> Relation(e, m)]
                 R == {F[m] : m \in all}
      <3>1. IsFiniteSet(R)
        <4> HIDE DEF F, all
        <4> QED
          BY <2>2, RangeFinite
      <3>2. IsFiniteSet(R \cup {alone})
        <4> HIDE DEF R, alone
        <4> QED
          BY <3>1, FS_AddElement
      <3>3. new \subseteq R \cup {alone}
        <4> HIDE DEF alone, all
        <4> QED
          BY Zenon
      <3>4. {r \in new : \A q \in out.relations : q.ends # r.ends} \in SUBSET (R \cup {alone})
        <4> HIDE DEF R, alone, new
        <4> QED
          BY <3>3
      <3> HIDE DEF R, alone, new
      <3>5. IsFiniteSet(sum)
        BY <3>2, <3>4, FS_Subset, FS_Union
      <3> QED
        BY <3>5, FS_CardinalityType
    <2>4. ASSUME ~TooMany(all, sum)
          PROVE  Cardinality(sum) < RelationLimit /\ Related(e, sum)
      <3>1. Cardinality(all) <= PeerLimit /\ Cardinality(sum) < RelationLimit
        <4> HIDE DEF all, sum
        <4> QED
          BY <1>0, <2>2, <2>3, <2>4 DEF TooMany
      <3>2. ASSUME NEW m \in all PROVE m \in kept
        <4> DEFINE S == {n \in all : Sooner(n, m)}
        <4>1. ~Before(m.peer, m.peer)
          BY MatchGood, InOrder
        <4>2. S \in SUBSET (all \ {m})
          <5> HIDE DEF all
          <5> QED
            BY <4>1 DEF Sooner
        <4>3. IsFiniteSet(all \ {m}) /\ Cardinality(all \ {m}) = Cardinality(all) - 1
          <5> HIDE DEF all
          <5> QED
            BY <2>2, <3>2, FS_RemoveElement
        <4>4. IsFiniteSet(S) /\ Cardinality(S) <= Cardinality(all) - 1 /\ Cardinality(S) \in Nat
          <5> HIDE DEF S, all
          <5> QED
            BY <4>2, <4>3, FS_Subset, FS_CardinalityType
        <4>5. Cardinality(S) < PeerLimit
          <5> HIDE DEF S, all
          <5> QED
            BY <1>0, <2>2, <3>1, <4>4
        <4> HIDE DEF all
        <4> QED
          BY <4>5
      <3>3. ASSUME NEW m \in all PROVE \E r \in sum : r.ends = {e, m.peer}
        <4>1. Relation(e, m) \in new /\ Relation(e, m).ends = {e, m.peer}
          <5> HIDE DEF all
          <5> QED
            BY <3>2, <3>3 DEF Relation
        <4> HIDE DEF new
        <4> QED
          BY <4>1
      <3> QED
        BY <3>1, <3>3 DEF Related
    <2>5. o.relations = sum /\ (o.truncated <=> out.truncated \/ TooMany(all, sum))
      <3> HIDE DEF o, sum, all
      <3> QED
        BY <2>1
    <2> HIDE DEF o, sum, all
    <2> QED
      BY <2>3, <2>4, <2>5 DEF o
  <1> QED
    BY <1>1, <1>2

LEMMA RelateWhole ==
  ASSUME NumbersAssumed, PeersAssumed, SystemInv, IsFiniteSet(relations), NEW key,
         ~truncated => Cardinality(relations) < RelationLimit
  PROVE  LET o == LoopOut([relations |-> relations, truncated |-> truncated], key)
         IN /\ IsFiniteSet(o.relations)
            /\ ~o.truncated =>
                 /\ ~truncated /\ Cardinality(o.relations) < RelationLimit
                 /\ relations \subseteq o.relations
                 /\ \A e \in Endpoints(key) : Related(e, o.relations)
  <1> DEFINE base == [relations |-> relations, truncated |-> truncated]
             S == Endpoints(key)
             s == Sorted(S)
  <1>1. S \in SUBSET owners
    BY DEF Endpoints
  <1>2. /\ Len(s) \in Nat /\ \A i \in 1..Len(s) : s[i] \in owners
        /\ \A e \in S : \E i \in 1..Len(s) : s[i] = e
    BY <1>1, SortedAll DEF SystemInv
  <1>3. PICK g : /\ g[0] = base
                 /\ \A n \in 1..Len(s) : g[n] = AddEndpoint(g[n - 1], s[n])
                 /\ LoopOut(base, key) = g[Len(s)]
    BY RelateLoop DEF SystemInv
  <1> DEFINE Good(n) ==
               /\ \A r \in g[n].relations : RelationGood(r)
               /\ IsFiniteSet(g[n].relations)
               /\ ~g[n].truncated =>
                    /\ ~truncated /\ Cardinality(g[n].relations) < RelationLimit
                    /\ relations \subseteq g[n].relations
                    /\ \A i \in 1..n : Related(s[i], g[n].relations)
             T == {n \in 0..Len(s) : Good(n)}
  <1> HIDE DEF s
  <1>4. 0 \in T
    BY <1>2, <1>3 DEF SystemInv, RelationsGood
  <1>5. ASSUME NEW n \in 1..Len(s), n - 1 \in T PROVE n \in T
    <2> DEFINE out == g[n - 1]
               o == g[n]
    <2>1. Good(n - 1)
      BY <1>5
    <2>2. o = AddEndpoint(out, s[n]) /\ s[n] \in owners
      BY <1>2, <1>3
    <2>3. /\ \A r \in out.relations : RelationGood(r)
          /\ IsFiniteSet(out.relations)
          /\ ~out.truncated => Cardinality(out.relations) < RelationLimit
      BY <2>1
    <2>4. /\ \A r \in o.relations : RelationGood(r)
          /\ out.relations \subseteq o.relations
      <3> HIDE DEF o, out
      <3> QED
        BY <2>2, <2>3, AddGood DEF SystemInv
    <2>5. /\ IsFiniteSet(o.relations)
          /\ ~o.truncated => /\ ~out.truncated /\ Cardinality(o.relations) < RelationLimit
                             /\ Related(s[n], o.relations)
      <3> HIDE DEF o, out
      <3> QED
        BY <2>2, <2>3, AddWhole DEF SystemInv
    <2>6. ASSUME ~o.truncated, NEW i \in 1..n PROVE Related(s[i], o.relations)
      <3>1. CASE i = n
        BY <2>5, <2>6, <3>1
      <3>2. CASE i # n
        <4>1. i \in 1..(n - 1)
          BY <3>2
        <4>2. Related(s[i], out.relations)
          BY <2>1, <2>5, <2>6, <4>1
        <4> HIDE DEF o, out
        <4> QED
          BY <2>4, <4>2 DEF Related
      <3> QED
        BY <3>1, <3>2
    <2>7. Good(n)
      BY <2>1, <2>4, <2>5, <2>6
    <2> HIDE DEF Good
    <2> QED
      BY <2>7
  <1>6. \A n \in 0..Len(s) : n \in T
    <2> HIDE DEF T
    <2> QED
      BY <1>2, <1>4, <1>5, Relates!Reaches
  <1>7. Good(Len(s))
    BY <1>2, <1>6
  <1>8. ASSUME ~g[Len(s)].truncated, NEW e \in S PROVE Related(e, g[Len(s)].relations)
    BY <1>2, <1>7, <1>8
  <1> QED
    BY <1>3, <1>7, <1>8

\* What the relations of an endpoint should be depends on the endpoints and on what is
\* known of the sockets.
LEMMA MatchesSame ==
  ASSUME UNCHANGED <<owners, infos>>
  PROVE  \A e : Matches(e)' = Matches(e)
  <1>1. owners' = owners /\ infos' = infos
    OBVIOUS
  <1>2. \A e : Near(e)' = Near(e)
    <2>1. \A c : Endpoints(c)' = Endpoints(c)
      BY <1>1, Zenon DEF Endpoints
    <2>2. \A e : IsFirst(e)' <=> IsFirst(e)
      BY <2>1, Zenon DEF IsFirst
    <2> QED
      BY <2>1, <2>2 DEF Near
  <1>3. \A s : Reversed(s)' = Reversed(s)
    BY <1>1 DEF Reversed, Tuple
  <1>4. \A e : Far(e)' = Far(e)
    BY <1>1, <1>3, Zenon DEF Far
  <1> QED
    BY <1>2, <1>4 DEF Matches

\* A step that touches none of what the invariant is about.
LEMMA SystemIdle ==
  ASSUME WholeSystem,
         UNCHANGED <<start, file, ns, home, link, phase, todo, cur, owners, infos, seenNs, pinned,
                     truncated, warnings, left, relations, changes, held, unreadable>>
  PROVE  WholeSystem'
  <1>1. AsBegun'
    BY DEF WholeSystem, AsBegun, Id, Holding
  <1>2. ASSUME Quiet PROVE ScanWhole' /\ TablesRead' /\ PeersFound' /\ AllRelated'
    <2>1. ScanWhole /\ TablesRead /\ PeersFound /\ AllRelated
      BY <1>2 DEF WholeSystem
    <2>2. ScanWhole'
      BY <2>1 DEF ScanWhole, BeingRead, Represented, ReadOf, Id
    <2>3. TablesRead'
      BY <2>1 DEF TablesRead, Alive, SocketInfo
    <2>4. PeersFound'
      <3>1. \A s : Reversed(s)' = Reversed(s)
        BY DEF Reversed, Tuple
      <3>2. \A x, y : Talk(x, y)' <=> Talk(x, y)
        BY DEF Talk
      <3> QED
        BY <2>1, <3>1, <3>2 DEF PeersFound
    <2>5. AllRelated'
      BY <2>1, MatchesSame DEF AllRelated, Related
    <2> QED
      BY <2>2, <2>3, <2>4, <2>5
  <1>3. Quiet' => Quiet
    BY DEF Quiet
  <1> QED
    BY <1>1, <1>2, <1>3 DEF WholeSystem

\* Once something has changed nothing is claimed.
LEMMA ChangedWhole ==
  ASSUME SystemInv, WholeSystem, NEW starts, NEW files, Changed(starts, files)
  PROVE  WholeSystem'
  <1>1. /\ phase = "scan" /\ changes' = changes + 1
        /\ UNCHANGED <<link, phase, seenNs, truncated, warnings, left, relations>>
    BY DEF Changed, Disturbable, scan, result
  <1>2. changes' # 0
    BY <1>1 DEF SystemInv, SystemType
  <1>3. AsBegun' /\ ~Quiet'
    BY <1>2 DEF AsBegun, Quiet
  <1> QED
    BY <1>1, <1>3 DEF WholeSystem

LEMMA BeginWhole ==
  ASSUME SystemInv, WholeSystem, Begin
  PROVE  WholeSystem'
  <1>1. /\ phase = "idle" /\ phase' = "scan" /\ todo' = {Id(p) : p \in Pids}
        /\ held' = Holding(start, file)
        /\ UNCHANGED <<start, file, ns, home, link, cur, owners, infos, seenNs, pinned, truncated,
                       warnings, relations, changes, unreadable>>
    BY DEF Begin, world, result
  <1>2. owners = {} /\ cur = None /\ seenNs = {}
    BY <1>1 DEF SystemInv, OwnersHeld, ReadHeld, WholeSystem
  <1>3. AsBegun'
    <2>1. held' = Holding(start, file)'
      BY <1>1 DEF Holding
    <2>2. \A id \in todo' : id = Id(id.pid)'
      BY <1>1 DEF Id
    <2> QED
      BY <1>1, <1>2, <2>1, <2>2 DEF AsBegun
  <1>4. ASSUME Quiet' PROVE ScanWhole' /\ TablesRead' /\ PeersFound' /\ AllRelated'
    <2>1. TablesRead
      BY <1>1, <1>4 DEF WholeSystem, Quiet
    <2>2. ScanWhole'
      BY <1>1 DEF ScanWhole, Id
    <2>3. TablesRead'
      BY <1>1, <1>2, <2>1 DEF TablesRead
    <2> QED
      BY <1>1, <2>2, <2>3 DEF PeersFound, AllRelated
  <1> QED
    BY <1>1, <1>3, <1>4 DEF WholeSystem

\* The first process of a namespace brings the namespace's tables with it.
LEMMA OpenWhole ==
  ASSUME NumbersAssumed, SystemInv, WholeSystem, NEW id \in todo, OpenProcess(id)
  PROVE  WholeSystem'
  <1>1. /\ phase = "scan" /\ cur = None /\ todo' = todo \ {id}
        /\ UNCHANGED <<start, file, ns, home, link, phase, owners, left, relations, changes, held>>
    BY DEF OpenProcess, world
  <1>2. id \in ProcSet /\ id.pid \in Pids
    BY DEF SystemInv, SystemType, ProcSet
  <1>3. CASE late
    <2>1. truncated' = TRUE /\ UNCHANGED <<cur, seenNs>>
      BY <1>3 DEF OpenProcess
    <2>2. AsBegun' /\ ~Quiet'
      BY <1>1, <2>1 DEF WholeSystem, AsBegun, Id, Holding, Quiet
    <2> QED
      BY <1>1, <2>1, <2>2 DEF WholeSystem
  <1>4. CASE ~late
    <2> DEFINE n == ns[id.pid]
               tables == [s \in DOMAIN infos \cup Alive(n) |->
                            IF s \in Alive(n) THEN SocketInfo(s, n) ELSE infos[s]]
    <2>1. UNCHANGED <<processes, truncated>> /\ ReadNamespace(id)
      BY <1>4 DEF OpenProcess
    <2>2. PICK allowed \in BOOLEAN :
            cur' = [id |-> id, left |-> {d \in Fds : file[id.pid][d] # None}, got |-> {},
                    ask |-> allowed]
      BY <1>4 DEF OpenProcess
    <2>3. /\ cur'.id = id /\ cur'.left = {d \in Fds : file[id.pid][d] # None}
          /\ cur' \in ScanSet
      BY <2>2 DEF ScanSet, GotSet, SystemInv, SystemType
    <2>4. AsBegun'
      BY <1>1, <2>3 DEF WholeSystem, AsBegun, Id, Holding
    <2>5. ASSUME Quiet' PROVE ScanWhole' /\ TablesRead' /\ PeersFound' /\ AllRelated'
      <3>1. warnings = {} /\ ~unreadable
        BY <2>1, <2>5 DEF ReadNamespace, Quiet
      <3>2. Quiet
        BY <1>1, <2>1, <2>5, <3>1 DEF Quiet
      <3>3. ScanWhole /\ TablesRead
        BY <3>2 DEF WholeSystem
      <3>4. id = Id(id.pid) /\ Valid(id)
        BY <1>2, <3>2 DEF WholeSystem, AsBegun, Quiet, Id, Valid
      <3>5. /\ seenNs' = seenNs \cup {n} /\ pinned' = pinned \cup {n}
            /\ n \in seenNs => UNCHANGED infos
            /\ n \notin seenNs => infos' = tables
        <4>1. CASE n \in seenNs
          BY <2>1, <3>3, <4>1 DEF ReadNamespace, TablesRead
        <4>2. CASE n \notin seenNs
          <5>1. ~unreadable'
            BY <2>5 DEF Quiet
          <5> QED
            BY <2>1, <3>4, <4>2, <5>1 DEF ReadNamespace
        <4> QED
          BY <4>1, <4>2
      <3>6. ASSUME NEW m \in seenNs', NEW s \in Alive(m)
            PROVE  s \in DOMAIN infos' /\ infos'[s] = SocketInfo(s, m)
        <4>1. CASE n \in seenNs
          BY <1>1, <3>3, <3>5, <4>1 DEF TablesRead
        <4>2. CASE n \notin seenNs /\ m = n
          BY <3>5, <4>2
        <4>3. CASE n \notin seenNs /\ m # n
          <5>1. s \in DOMAIN infos /\ infos[s] = SocketInfo(s, m)
            BY <1>1, <3>3, <3>5, <4>3 DEF TablesRead
          <5>2. s \notin Alive(n)
            BY <4>3 DEF Alive
          <5> QED
            BY <3>5, <4>3, <5>1, <5>2
        <4> QED
          BY <4>1, <4>2, <4>3
      <3>7. TablesRead'
        <4>1. \A m \in seenNs' : \A s \in Alive(m)' : s \in DOMAIN infos' /\ infos'[s] = SocketInfo(s, m)'
          BY <1>1, <3>6 DEF Alive, SocketInfo
        <4> QED
          BY <3>3, <3>5, <4>1 DEF TablesRead
      <3>8. ASSUME NEW p \in Pids
            PROVE  Id(p)' \in todo' \/ (ns'[p] \in seenNs' /\ (BeingRead(p)' \/ Represented(p)'))
        <4>1. Id(p)' = Id(p)
          BY <1>1 DEF Id
        <4>2. CASE Id(p) = id
          <5>1. id.pid = p
            BY <4>2 DEF Id
          <5>2. cur' # None
            BY <2>3 DEF NumbersAssumed
          <5>3. BeingRead(p)'
            BY <1>1, <2>3, <4>1, <4>2, <5>1, <5>2 DEF BeingRead
          <5> QED
            BY <1>1, <3>5, <5>1, <5>3
        <4>3. CASE Id(p) # id
          <5>1. Represented(p) => Represented(p)'
            BY <1>1, <4>1 DEF Represented
          <5> QED
            BY <1>1, <3>3, <3>5, <4>1, <4>3, <5>1 DEF ScanWhole, BeingRead
        <4> QED
          BY <4>2, <4>3
      <3>9. ScanWhole'
        BY <3>8 DEF ScanWhole
      <3> QED
        BY <1>1, <3>7, <3>9 DEF PeersFound, AllRelated
    <2> QED
      BY <1>1, <2>1, <2>4, <2>5 DEF WholeSystem
  <1> QED
    BY <1>3, <1>4

LEMMA ReadWhole ==
  ASSUME NumbersAssumed, SystemInv, WholeSystem, NEW d \in Fds, ReadFd(d)
  PROVE  WholeSystem'
  <1>1. /\ phase = "scan" /\ cur # None /\ d \in cur.left
        /\ UNCHANGED <<start, file, ns, home, link, phase, todo, owners, infos, seenNs, pinned,
                       warnings, left, relations, changes, held, unreadable>>
    BY DEF ReadFd, world
  <1>2. cur \in ScanSet /\ cur.id \in ProcSet /\ cur.id.pid \in Pids
    BY <1>1 DEF SystemInv, SystemType, ScanSet, ProcSet
  <1>3. CASE late \/ inspected >= FdLimit
    <2>1. truncated' = TRUE /\ cur' = [cur EXCEPT !.left = {}]
      BY <1>3 DEF ReadFd
    <2>2. cur'.id = cur.id
      BY <1>2, <2>1 DEF ScanSet
    <2>3. AsBegun' /\ ~Quiet'
      BY <1>1, <2>1, <2>2 DEF WholeSystem, AsBegun, Id, Holding, Quiet
    <2> QED
      BY <1>1, <2>1, <2>3 DEF WholeSystem
  <1>4. CASE ~(late \/ inspected >= FdLimit)
    <2> DEFINE f == file[cur.id.pid][d]
               more == {[fd |-> d, key |-> g.key, access |-> g.access] : g \in {f} \ {None}}
    <2>1. /\ UNCHANGED truncated
          /\ cur' = [cur EXCEPT !.left = @ \ {d}, !.got = @ \cup more]
      BY <1>4 DEF ReadFd
    <2>2. /\ cur'.id = cur.id /\ cur'.left = cur.left \ {d} /\ cur'.got = cur.got \cup more
      <3> HIDE DEF more
      <3> QED
        BY <1>2, <2>1 DEF ScanSet
    <2>3. cur' # None
      <3>1. f \in Files \cup {None} /\ more \subseteq GotSet
        BY <1>2, FileIs DEF SystemInv, SystemType, GotSet
      <3> HIDE DEF more, f
      <3>2. cur' \in ScanSet
        BY <1>2, <2>1, <3>1 DEF ScanSet
      <3> QED
        BY <3>2 DEF NumbersAssumed
    <2>4. AsBegun'
      BY <1>1, <2>2 DEF WholeSystem, AsBegun, Id, Holding
    <2>5. ASSUME Quiet PROVE ScanWhole' /\ TablesRead' /\ PeersFound' /\ AllRelated'
      <3>1. ScanWhole /\ TablesRead
        BY <2>5 DEF WholeSystem
      <3>2. ASSUME NEW p \in Pids, BeingRead(p) PROVE BeingRead(p)'
        <4>1. cur.id = Id(p) /\ cur.id.pid = p
          BY <3>2 DEF BeingRead, Id
        <4>2. file[p][d] # None => ReadOf(p, d) \in more
          BY <4>1 DEF ReadOf
        <4>3. \A c \in Fds : file[p][c] # None => c \in cur'.left \/ ReadOf(p, c) \in cur'.got
          <5> HIDE DEF more
          <5> QED
            BY <2>2, <3>2, <4>2 DEF BeingRead
        <4> QED
          BY <1>1, <2>2, <2>3, <4>1, <4>3 DEF BeingRead, ReadOf, Id
      <3>3. \A p \in Pids : Represented(p) => Represented(p)'
        BY <1>1 DEF Represented, Id
      <3>4. ScanWhole'
        BY <1>1, <3>1, <3>2, <3>3 DEF ScanWhole, Id
      <3>5. TablesRead'
        BY <1>1, <3>1 DEF TablesRead, Alive, SocketInfo
      <3> QED
        BY <1>1, <3>4, <3>5 DEF PeersFound, AllRelated
    <2>6. Quiet' => Quiet
      BY <1>1, <2>1 DEF Quiet
    <2> QED
      BY <1>1, <2>1, <2>4, <2>5, <2>6 DEF WholeSystem
  <1> QED
    BY <1>3, <1>4

LEMMA DeniedWhole ==
  ASSUME SystemInv, WholeSystem, AccessDenied
  PROVE  WholeSystem'
  <1>1. /\ phase = "scan" /\ cur # None /\ cur' = [cur EXCEPT !.left = {}]
        /\ "denied" \in warnings'
        /\ UNCHANGED <<start, file, link, phase, todo, owners, seenNs, truncated, left, relations,
                       changes, held>>
    BY DEF AccessDenied, Disturbable, world
  <1>2. cur'.id = cur.id
    BY <1>1 DEF SystemInv, SystemType, ScanSet
  <1>3. AsBegun' /\ ~Quiet'
    BY <1>1, <1>2 DEF WholeSystem, AsBegun, Id, Holding, Quiet
  <1> QED
    BY <1>1, <1>3 DEF WholeSystem

\* Coalescing loses no file: of the descriptors for it the lowest stays.
LEMMA CoalescedWhole ==
  ASSUME NumbersAssumed, NEW id, NEW got \in SUBSET GotSet, NEW g \in got
  PROVE  \E e \in Coalesced(id, got) : e.id = id /\ e.key = g.key /\ e.access = g.access
  <1> DEFINE same == {x \in got : x.key = g.key /\ x.access = g.access}
             S == {x.fd : x \in same}
  <1>1. S \subseteq Nat /\ S # {}
    BY DEF GotSet, NumbersAssumed
  <1>2. PICK c \in S : \A y \in S : c <= y
    <2> HIDE DEF S
    <2> QED
      BY <1>1, LeastNumber
  <1>3. PICK h \in same : h.fd = c
    BY <1>2
  <1>4. \A y \in got : y.key = h.key /\ y.access = h.access => h.fd <= y.fd
    BY <1>2, <1>3
  <1>5. [id |-> id, key |-> h.key, access |-> h.access, fd |-> h.fd] \in Coalesced(id, got)
    BY <1>3, <1>4, Zenon DEF Coalesced
  <1> QED
    BY <1>3, <1>5

LEMMA CloseWhole ==
  ASSUME NumbersAssumed, SystemInv, WholeSystem, CloseProcess
  PROVE  WholeSystem'
  <1>1. /\ phase = "scan" /\ cur # None /\ cur' = None /\ cur.left = {}
        /\ UNCHANGED <<start, file, ns, home, link, phase, todo, infos, seenNs, pinned, truncated,
                       warnings, left, relations, changes, held, unreadable>>
    BY DEF CloseProcess, world
  <1>2. cur.id \in ProcSet /\ cur.got \subseteq GotSet
    BY <1>1 DEF SystemInv, SystemType, ScanSet
  <1> DEFINE new == Coalesced(cur.id, cur.got)
  <1>3. /\ owners' = owners \/ owners' = owners \cup new
        /\ Valid(cur.id) => owners' = owners \cup new
    BY DEF CloseProcess, StillThere
  <1>4. \A e \in new : e.id = cur.id
    BY DEF Coalesced
  <1> HIDE DEF new
  <1>5. AsBegun'
    BY <1>1, <1>3, <1>4 DEF WholeSystem, AsBegun, Id, Holding
  <1>6. ASSUME Quiet PROVE ScanWhole' /\ TablesRead' /\ PeersFound' /\ AllRelated'
    <2>1. ScanWhole /\ TablesRead
      BY <1>6 DEF WholeSystem
    <2>2. cur.id = Id(cur.id.pid) /\ Valid(cur.id)
      BY <1>1, <1>6 DEF WholeSystem, AsBegun, Quiet, Id, Valid
    <2>3. owners' = owners \cup new
      BY <1>3, <2>2
    <2>4. ASSUME NEW p \in Pids, BeingRead(p) PROVE Represented(p)'
      <3>1. ASSUME NEW d \in Fds, file[p][d] # None
            PROVE  \E e \in owners' : e.id = Id(p) /\ e.key = file[p][d].key
                                      /\ e.access = file[p][d].access
        <4>1. ReadOf(p, d) \in cur.got /\ cur.id = Id(p)
          BY <1>1, <2>4, <3>1 DEF BeingRead
        <4>2. ReadOf(p, d).key = file[p][d].key /\ ReadOf(p, d).access = file[p][d].access
          BY DEF ReadOf
        <4>3. PICK e \in new : /\ e.id = cur.id /\ e.key = ReadOf(p, d).key
                               /\ e.access = ReadOf(p, d).access
          BY <1>2, <4>1, CoalescedWhole DEF new
        <4> QED
          BY <2>3, <4>1, <4>2, <4>3
      <3> QED
        BY <1>1, <3>1 DEF Represented, Id
    <2>5. \A p \in Pids : Represented(p) => Represented(p)'
      BY <1>1, <2>3 DEF Represented, Id
    <2>6. ScanWhole'
      BY <1>1, <2>1, <2>4, <2>5 DEF ScanWhole, Id
    <2>7. TablesRead'
      BY <1>1, <2>1 DEF TablesRead, Alive, SocketInfo
    <2> QED
      BY <1>1, <2>6, <2>7 DEF PeersFound, AllRelated
  <1>7. Quiet' => Quiet
    BY <1>1 DEF Quiet
  <1> QED
    BY <1>1, <1>5, <1>6, <1>7 DEF WholeSystem

\* What the tables and the diagnostics say of a socket that someone holds leads to the
\* other end of its connection.
LEMMA DiagnoseWhole ==
  ASSUME NumbersAssumed, PeersAssumed, SystemInv, WholeSystem, Diagnose
  PROVE  WholeSystem'
  <1>1. /\ phase = "scan" /\ phase' = "relate" /\ cur = None /\ todo = {}
        /\ left' = {e.key : e \in owners} /\ warnings \subseteq warnings'
        /\ UNCHANGED <<start, file, ns, home, link, todo, cur, seenNs, pinned, owners, truncated,
                       relations, changes, held, unreadable>>
    BY DEF Diagnose, world, scan
  <1>2. PICK ok \in SUBSET pinned :
          LET diag == IF link = "unix" THEN UNION {Alive(n) : n \in ok} ELSE {}
              old(s) == IF s \in DOMAIN infos THEN infos[s] ELSE NoPeer
              peer(s) == IF home[s] = home[PeerOf(s)] THEN PeerOf(s) ELSE None
          IN /\ infos' = [s \in DOMAIN infos \cup diag \cup metadata |->
                            IF s \in diag THEN [old(s) EXCEPT !.peer = peer(s)] ELSE old(s)]
             /\ warnings' = warnings \cup (IF ok = pinned THEN {} ELSE {"diag"})
                                     \cup (IF truncated THEN {"truncated"} ELSE {})
    BY DEF Diagnose
  <1>3. AsBegun'
    BY <1>1 DEF WholeSystem, AsBegun, Id, Holding
  <1>4. ASSUME Quiet' PROVE ScanWhole' /\ TablesRead' /\ PeersFound' /\ AllRelated'
    <2>1. Quiet /\ ok = pinned
      BY <1>1, <1>2, <1>4 DEF Quiet
    <2>2. ScanWhole /\ TablesRead
      BY <2>1 DEF WholeSystem
    <2>3. ScanWhole'
      BY <1>1, <2>2 DEF ScanWhole, BeingRead, Represented, ReadOf, Id
    <2>4. TablesRead'
      BY <1>1, <2>2 DEF TablesRead
    <2>5. ASSUME NEW e \in owners, NEW n \in pinned, e.key \in Sockets, home[e.key] = n
          PROVE  /\ e.key \in Alive(n) /\ e.key \in DOMAIN infos
                 /\ infos[e.key] = SocketInfo(e.key, n)
      <3>1. [id |-> e.id, key |-> e.key, fd |-> e.fd] \in Holding(start, file)
        BY <1>1, <2>1 DEF SystemInv, OwnersHeld, HeldBy, WholeSystem, AsBegun, Quiet
      <3>2. PICK p \in Pids, d \in Fds :
              /\ file[p][d] # None
              /\ [id |-> e.id, key |-> e.key, fd |-> e.fd]
                   = [id |-> [pid |-> p, start |-> start[p]], key |-> file[p][d].key, fd |-> d]
        BY <3>1, HoldingIs
      <3>3. file[p][d].key = e.key
        BY <3>2
      <3>4. e.key \in Alive(n)
        BY <2>5, <3>2, <3>3 DEF Alive
      <3> QED
        BY <1>1, <2>2, <3>4 DEF TablesRead
    <2>6. ASSUME NEW x \in owners, NEW y \in owners, Talk(x, y), x.key # y.key
          PROVE  /\ x.key \in DOMAIN infos'
                 /\ y.key \in (IF infos[x.key].peer # None THEN {infos[x.key].peer}
                                                           ELSE Reversed(x.key))'
      <3> DEFINE n == home[x.key]
                 s == x.key
                 t == y.key
                 diag == IF link = "unix" THEN UNION {Alive(m) : m \in ok} ELSE {}
      <3>1. /\ s \in Sockets /\ t \in Sockets /\ s # t /\ home[t] = n
            /\ n \in {ns[p] : p \in Pids}
        BY <2>6 DEF Talk
      <3>2. n \in pinned
        BY <1>1, <2>2, <3>1 DEF ScanWhole, TablesRead
      <3>3. /\ s \in Alive(n) /\ s \in DOMAIN infos /\ infos[s] = SocketInfo(s, n)
            /\ t \in Alive(n) /\ t \in DOMAIN infos /\ infos[t] = SocketInfo(t, n)
        BY <2>5, <3>1, <3>2
      <3>4. PeerOf(s) = t /\ PeerOf(t) = s /\ t # None /\ s # None
        BY <3>1, OtherEnd DEF PeersAssumed
      <3>5. s \in DOMAIN infos' /\ t \in DOMAIN infos'
        BY <1>2, <3>3
      <3>6. CASE link = "unix"
        <4>1. s \in diag
          BY <2>1, <3>2, <3>3, <3>6
        <4>2. infos'[s] = [infos[s] EXCEPT !.peer = t]
          BY <1>2, <3>1, <3>3, <3>4, <4>1
        <4>3. infos'[s].peer = t
          BY <3>3, <4>2 DEF SocketInfo
        <4> QED
          BY <3>4, <3>5, <4>3
      <3>7. CASE link = "tcp"
        <4>1. diag = {}
          BY <3>7
        <4>2. infos'[s] = infos[s] /\ infos'[t] = infos[t]
          BY <1>2, <3>3, <4>1
        <4>3. /\ infos'[s] = [ns |-> n, peer |-> None, local |-> s, remote |-> t]
              /\ infos'[t] = [ns |-> n, peer |-> None, local |-> t, remote |-> s]
          BY <3>3, <3>4, <3>7, <4>2 DEF SocketInfo
        <4>4. t \in Reversed(s)'
          BY <3>1, <3>4, <3>5, <4>3 DEF Reversed, Tuple
        <4> QED
          BY <3>5, <4>3, <4>4
      <3> QED
        BY <3>6, <3>7 DEF WholeSystem
    <2>7. PeersFound'
      <3>1. \A x, y : Talk(x, y)' <=> Talk(x, y)
        BY <1>1 DEF Talk
      <3> QED
        BY <1>1, <2>6, <3>1 DEF PeersFound
    <2>8. AllRelated'
      BY <1>1 DEF AllRelated
    <2> QED
      BY <2>3, <2>4, <2>7, <2>8
  <1> QED
    BY <1>1, <1>3, <1>4 DEF WholeSystem

LEMMA RelatingWhole ==
  ASSUME NumbersAssumed, PeersAssumed, SystemInv, WholeSystem, NEW key \in left, Relate(key)
  PROVE  WholeSystem'
  <1>1. /\ phase = "relate" /\ left' = left \ {key}
        /\ UNCHANGED <<start, file, ns, home, link, phase, todo, cur, seenNs, pinned, owners, infos,
                       warnings, changes, held, unreadable>>
    BY DEF Relate, world, scan
  <1>2. /\ IsFiniteSet(relations')
        /\ ~truncated' => /\ ~truncated /\ Cardinality(relations') < RelationLimit
                          /\ relations \subseteq relations'
                          /\ \A e \in Endpoints(key) : Related(e, relations')
    BY RelateIs, RelateWhole DEF WholeSystem
  <1>3. AsBegun'
    BY <1>1 DEF WholeSystem, AsBegun, Id, Holding
  <1>4. ASSUME Quiet' PROVE ScanWhole' /\ TablesRead' /\ PeersFound' /\ AllRelated'
    <2>1. Quiet /\ ~truncated'
      BY <1>1, <1>2, <1>4 DEF Quiet
    <2>2. ScanWhole /\ TablesRead /\ PeersFound /\ AllRelated
      BY <2>1 DEF WholeSystem
    <2>3. ScanWhole'
      BY <1>1, <2>2 DEF ScanWhole, BeingRead, Represented, ReadOf, Id
    <2>4. TablesRead'
      BY <1>1, <2>2 DEF TablesRead
    <2>5. PeersFound'
      <3>1. \A s : Reversed(s)' = Reversed(s)
        BY <1>1 DEF Reversed, Tuple
      <3>2. \A x, y : Talk(x, y)' <=> Talk(x, y)
        BY <1>1 DEF Talk
      <3> QED
        BY <1>1, <2>2, <3>1, <3>2 DEF PeersFound
    <2>6. ASSUME NEW e \in owners PROVE e.key \in left' \/ Related(e, relations')
      <3>1. CASE e.key = key
        BY <1>2, <2>1, <3>1 DEF Endpoints
      <3>2. CASE e.key # key
        BY <1>1, <1>2, <2>1, <2>2, <3>2 DEF AllRelated, Related
      <3> QED
        BY <3>1, <3>2
    <2>7. \A e : Matches(e)' = Matches(e)
      BY <1>1, MatchesSame
    <2>8. AllRelated'
      BY <1>1, <2>6, <2>7 DEF AllRelated, Related
    <2> QED
      BY <2>3, <2>4, <2>5, <2>8
  <1> QED
    BY <1>1, <1>2, <1>3, <1>4 DEF WholeSystem

LEMMA FinishWhole ==
  ASSUME WholeSystem, Finish
  PROVE  WholeSystem'
  <1>1. /\ phase = "relate" /\ phase' = "done" /\ left = {}
        /\ warnings \subseteq warnings' /\ (truncated => "truncated" \in warnings')
        /\ UNCHANGED <<start, file, ns, home, link, todo, cur, seenNs, pinned, owners, infos,
                       truncated, left, relations, changes, held, unreadable>>
    BY DEF Finish, world, scan
  <1>2. AsBegun'
    BY <1>1 DEF WholeSystem, AsBegun, Id, Holding
  <1>3. ASSUME Quiet' PROVE ScanWhole' /\ TablesRead' /\ PeersFound' /\ AllRelated'
    <2>1. Quiet
      BY <1>1, <1>3 DEF Quiet
    <2>2. ScanWhole /\ TablesRead /\ PeersFound /\ AllRelated
      BY <2>1 DEF WholeSystem
    <2>3. ScanWhole'
      BY <1>1, <2>2 DEF ScanWhole, BeingRead, Represented, ReadOf, Id
    <2>4. TablesRead'
      BY <1>1, <2>2 DEF TablesRead
    <2>5. PeersFound'
      <3>1. \A s : Reversed(s)' = Reversed(s)
        BY <1>1 DEF Reversed, Tuple
      <3>2. \A x, y : Talk(x, y)' <=> Talk(x, y)
        BY <1>1 DEF Talk
      <3> QED
        BY <1>1, <2>2, <3>1, <3>2 DEF PeersFound
    <2>6. AllRelated'
      BY <1>1, <2>2, MatchesSame DEF AllRelated, Related
    <2> QED
      BY <2>3, <2>4, <2>5, <2>6
  <1> QED
    BY <1>1, <1>2, <1>3 DEF WholeSystem

LEMMA WholeSystemHolds ==
  ASSUME NumbersAssumed, PeersAssumed
  PROVE  /\ Init => WholeSystem
         /\ SystemInv /\ WholeSystem /\ [Next]_vars => WholeSystem'
  <1>1. ASSUME Init PROVE WholeSystem
    <2> USE <1>1 DEF Init
    <2>1. AsBegun
      BY DEF AsBegun
    <2>2. IsFiniteSet(relations) /\ Cardinality(relations) < RelationLimit
      BY FS_EmptySet DEF PeersAssumed
    <2>3. ScanWhole /\ TablesRead /\ PeersFound /\ AllRelated
      BY DEF ScanWhole, TablesRead, PeersFound, AllRelated
    <2> QED
      BY <2>1, <2>2, <2>3 DEF WholeSystem
  <1>2. ASSUME SystemInv, WholeSystem, [Next]_vars PROVE WholeSystem'
    <2>1. CASE UNCHANGED vars \/ DeadlinePasses
      BY <1>2, <2>1, SystemIdle DEF DeadlinePasses, vars, world, scan, result
    <2>2. ASSUME NEW p \in Pids, NEW f \in Files \cup {None},
                 ReusePid(p, f) \/ \E d \in Fds : ChangeFile(p, d, f)
          PROVE  WholeSystem'
      BY <1>2, <2>2, ChangedWhole DEF ReusePid, ChangeFile
    <2> QED
      BY <1>2, <2>1, <2>2, BeginWhole, OpenWhole, ReadWhole, DeniedWhole, CloseWhole, DiagnoseWhole,
         RelatingWhole, FinishWhole DEF Next
  <1> QED
    BY <1>1, <1>2

\* The invariants make the finished snapshot complete.
LEMMA QuietIsComplete ==
  ASSUME NumbersAssumed, PeersAssumed, SystemInv, WholeSystem
  PROVE  CompleteOrWarned
  <1> SUFFICES ASSUME phase = "done", changes = 0, ~unreadable, warnings = {} PROVE Complete
    BY DEF CompleteOrWarned
  <1>1. Quiet /\ left = {} /\ todo = {} /\ cur = None
    BY DEF WholeSystem, Quiet, SystemInv, ReadHeld
  <1>2. ScanWhole /\ PeersFound /\ \A e \in owners : Related(e, relations)
    BY <1>1 DEF WholeSystem, AllRelated
  <1>3. \A p \in Pids : Represented(p)
    BY <1>1, <1>2 DEF ScanWhole, BeingRead
  <1>4. ASSUME NEW x \in owners, NEW y \in owners, x # y, Talk(x, y)
        PROVE  \E r \in relations : r.ends = {x, y} /\ ~r.shared
    <2>1. \E m \in Matches(x) : m.peer = y
      <3>1. CASE x.key = y.key /\ x.key \in Pipes /\ AccessOpposite(x.access, y.access)
        <4>1. ~Shared(x, y) /\ y \in Endpoints(x.key) \ {x}
          BY <1>4, <3>1 DEF Shared, PeersAssumed, Endpoints
        <4>2. [peer |-> y, candidate |-> FALSE, shared |-> Shared(x, y)] \in Near(x)
          BY <4>1, Zenon DEF Near
        <4> QED
          BY <4>2 DEF Matches
      <3>2. CASE x.key \in Sockets /\ y.key \in Sockets \ {x.key}
        <4> DEFINE known == infos[x.key].peer # None
                   keys == IF known THEN {infos[x.key].peer} ELSE Reversed(x.key)
        <4>1. x.key \in Sockets \cap DOMAIN infos /\ y.key \in keys
          BY <1>2, <1>4, <3>2 DEF PeersFound, SystemInv, SystemType
        <4>2. y \in {q \in owners : q.key \in keys}
          BY <4>1
        <4>3. Far(x) = {[peer |-> p, candidate |-> ~known, shared |-> FALSE] :
                          p \in {q \in owners : q.key \in keys}}
          BY <4>1, Zenon DEF Far
        <4> HIDE DEF known, keys
        <4>4. [peer |-> y, candidate |-> ~known, shared |-> FALSE] \in Far(x)
          BY <4>2, <4>3, Zenon
        <4> QED
          BY <4>4 DEF Matches
      <3> QED
        BY <1>4, <3>1, <3>2 DEF Talk
    <2>2. PICK r \in relations : r.ends = {x, y}
      BY <1>2, <2>1 DEF Related
    <2>3. ASSUME r.shared PROVE FALSE
      <3>1. PICK u \in owners, v \in owners :
              u # v /\ r.ends = {u, v} /\ u.key = v.key /\ Shared(u, v)
        BY <2>3 DEF SystemInv, RelationsGood, RelationGood
      <3>2. (u = x /\ v = y) \/ (u = y /\ v = x)
        BY <2>2, <3>1
      <3>3. x.key = y.key /\ x.key \in Pipes /\ AccessOpposite(x.access, y.access)
        BY <1>4, <3>1, <3>2 DEF Talk
      <3>4. AccessOpposite(y.access, x.access)
        <4>1. {x.access, y.access} = {y.access, x.access}
          OBVIOUS
        <4> QED
          BY <3>3, <4>1, Zenon DEF AccessOpposite
      <3> QED
        BY <3>1, <3>2, <3>3, <3>4 DEF Shared, PeersAssumed
    <2> QED
      BY <2>2, <2>3
  <1>5. ASSUME NEW x \in owners, NEW y \in owners, x # y, x.key = y.key
        PROVE  \E z \in owners : \A e \in {x, y} : e = z \/ \E r \in relations : r.ends = {e, z}
    <2>1. PICK z \in Endpoints(x.key) : \A e \in Endpoints(x.key) \ {z} : Before(z, e)
      <3>1. Endpoints(x.key) \in SUBSET owners /\ Endpoints(x.key) # {}
        BY DEF Endpoints
      <3> QED
        BY <3>1, SortedAll DEF SystemInv
    <2>2. z \in owners /\ z.key = x.key /\ IsFirst(z)
      BY <2>1 DEF Endpoints, IsFirst
    <2>3. ASSUME NEW e \in {x, y}, e # z PROVE \E r \in relations : r.ends = {e, z}
      <3>1. e \in owners /\ z \in Endpoints(e.key) \ {e}
        BY <1>5, <2>2, <2>3 DEF Endpoints
      <3>2. [peer |-> z, candidate |-> FALSE, shared |-> Shared(e, z)] \in Near(e)
        BY <2>2, <3>1, Zenon DEF Near
      <3>3. \E m \in Matches(e) : m.peer = z
        BY <3>2 DEF Matches
      <3> QED
        BY <1>2, <3>1, <3>3 DEF Related
    <2> QED
      BY <2>2, <2>3
  <1> QED
    BY <1>3, <1>4, <1>5 DEF Complete, Represented

\* A snapshot of a system at rest that comes without a warning has every relation: the
\* ends of each pipe and of each connection in a namespace that has a process, and
\* each group of holders of one file (collect_system_snapshot_from_sources,
\* build_ipc_relations; whatever the limits are).
THEOREM SystemComplete ==
  ASSUME NumbersAssumed, PeersAssumed
  PROVE  /\ Spec => []CompleteOrWarned
         /\ MCSpec => []SystemCompleteOrWarned
  <1> DEFINE Both == SystemInv /\ WholeSystem
             Checked == which = "system" => Both
  <1>1. (Init => Both) /\ (Both /\ [Next]_vars => Both')
    BY SystemInvHolds, WholeSystemHolds
  <1>2. Both => CompleteOrWarned
    BY QuietIsComplete
  <1> HIDE DEF Both
  <1>3. MCInit => Checked
    BY <1>1, AboutSystem
  <1>4. Checked /\ [MCNext]_allVars => Checked'
    BY <1>1, AboutSystem
  <1>5. Checked => SystemCompleteOrWarned
    BY <1>2 DEF SystemCompleteOrWarned
  <1> HIDE DEF Checked
  <1> QED
    BY <1>1, <1>2, <1>3, <1>4, <1>5, PTL DEF Spec, MCSpec

=============================================================================
