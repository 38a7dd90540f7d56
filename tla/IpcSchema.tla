----------------------------- MODULE IpcSchema -----------------------------
(***************************************************************************)
(* The native binary values of the private connection between the HTTP     *)
(* server and its helper: the codec (src/ipc/codec.rs) and the types that  *)
(* requests and replies are made of.  A type is a descriptor; Write gives  *)
(* the bytes of a value and Read takes a value from bytes, both following  *)
(* the descriptor.  A descriptor gives the fields in wire order, as the    *)
(* wire_struct and wire_enum macros do; the types whose write and read are *)
(* written out by hand give the two orders separately.                     *)
(*                                                                         *)
(* Values: numbers are naturals (a float stands for its bit pattern), text *)
(* and blobs are sequences of bytes, a struct is the sequence of its       *)
(* fields, an enum is <<tag, fields>>.                                     *)
(***************************************************************************)
EXTENDS Integers, Sequences, SequencesExt, TLC

CONSTANTS MaxReadSize,    \* elf.rs MAX_READ_SIZE
          RegisterCount   \* RegisterSet::COUNT

-----------------------------------------------------------------------------
(* Descriptors. *)

Num(w) == [k |-> "num", w |-> w]
U8 == Num(1)
U16 == Num(2)
U32 == Num(4)
U64 == Num(8)
I32 == U32
I64 == U64
F64 == U64
Usize == U64
Text == [k |-> "text"]
Blob(max) == [k |-> "blob", max |-> max]
Vec(t) == [k |-> "vec", of |-> t]
Struct(ts) == [k |-> "struct", of |-> ts]
Array(n, t) == Struct([i \in 1 .. n |-> t])
Hand(types, w, r) == [k |-> "hand", of |-> types, write |-> w, read |-> r]
Checked(t, n) == [k |-> "checked", of |-> t, n |-> n]

\* The tag and the fields of each variant.
Enum(variants) == [k |-> "enum", of |-> variants]

\* An enum of n variants without fields, tagged from 0.
Plain(n) == [tag \in 0 .. n - 1 |-> <<>>]

\* Such an enum with a last variant that carries an unknown kernel code.
Coded(n, t) == Enum(Plain(n) @@ (n :> <<t>>))

Bool == Enum(Plain(2))
Option(t) == Enum((0 :> <<>>) @@ (1 :> <<t>>))
Outcome(t, e) == Enum((0 :> <<t>>) @@ (1 :> <<e>>))
IpAddr == Enum((4 :> <<Array(4, U8)>>) @@ (6 :> <<Array(16, U8)>>))
SocketAddr == Enum((4 :> <<Array(4, U8), U16>>)
                   @@ (6 :> <<Array(16, U8), U16, U32, U32>>))

-----------------------------------------------------------------------------
(* Writing and reading. *)

RECURSIVE NumberBytes(_, _), Write(_, _), WriteFrom(_, _, _)
RECURSIVE NumberAt(_, _, _), Read(_, _, _), ReadFrom(_, _, _, _)

\* to_ne_bytes on a little-endian machine.
NumberBytes(n, w) ==
  IF w = 0 THEN <<>> ELSE <<n % 256>> \o NumberBytes(n \div 256, w - 1)

NumberAt(b, at, w) ==
  IF w = 0 THEN 0 ELSE b[at] + 256 * NumberAt(b, at + 1, w - 1)

\* Several values one after the other, from the i-th.
WriteFrom(i, ts, vs) ==
  IF i > Len(ts) THEN <<>> ELSE Write(ts[i], vs[i]) \o WriteFrom(i + 1, ts, vs)

WriteFields(ts, vs) == WriteFrom(1, ts, vs)

Write(t, v) ==
  CASE t.k = "num" -> NumberBytes(v, t.w)
    [] t.k \in {"text", "blob"} -> NumberBytes(Len(v), 4) \o v
    [] t.k = "vec" -> NumberBytes(Len(v), 4)
                      \o WriteFields([i \in DOMAIN v |-> t.of], v)
    [] t.k = "struct" -> WriteFields(t.of, v)
    [] t.k = "enum" -> <<v[1]>> \o WriteFields(t.of[v[1]], v[2])
    [] t.k = "hand" -> WriteFields([i \in DOMAIN t.write |-> t.of[t.write[i]]],
                                   [i \in DOMAIN t.write |-> v[t.write[i]]])
    [] t.k = "checked" -> Write(t.of, v)

\* A value and the position after it; a failed read has no value.
Failed == [ok |-> FALSE]
Got(v, at) == [ok |-> TRUE, v |-> v, at |-> at]

\* Decoder::take leaves enough bytes for the read.
Holds(b, at, n) == at + n <= Len(b) + 1

\* The rest of a read, unless it has failed already (the ? operator).
Then(r, Rest(_)) ==
  CHOOSE z \in {IF x.ok THEN Rest(x) ELSE Failed : x \in {r}} : TRUE

ReadFrom(i, ts, b, at) ==
  IF i > Len(ts) THEN Got(<<>>, at)
  ELSE Then(Read(ts[i], b, at),
            LAMBDA first : Then(ReadFrom(i + 1, ts, b, first.at),
                                LAMBDA rest : Got(<<first.v>> \o rest.v, rest.at)))

ReadFields(ts, b, at) == ReadFrom(1, ts, b, at)

\* A number of w bytes (Decoder::take and from_ne_bytes).
ReadNumber(b, at, w) ==
  IF Holds(b, at, w) THEN Got(NumberAt(b, at, w), at + w) ELSE Failed

\* A length and the check that so many bytes are left (Decoder::length).
ReadLength(b, at) ==
  Then(ReadNumber(b, at, 4), LAMBDA n : IF Holds(b, n.at, n.v) THEN n ELSE Failed)

\* str::from_utf8 on the ASCII texts of the model.
Utf8(b) == \A i \in DOMAIN b : b[i] < 128

ReadBytes(t, b, at) ==
  Then(ReadLength(b, at),
       LAMBDA n : LET bytes == SubSeq(b, n.at, n.at + n.v - 1)
                  IN IF \/ t.k = "text" /\ ~Utf8(bytes)
                        \/ t.k = "blob" /\ n.v > t.max
                     THEN Failed
                     ELSE Got(bytes, n.at + n.v))

ReadVec(t, b, at) ==
  Then(ReadLength(b, at), LAMBDA n : ReadFields([i \in 1 .. n.v |-> t.of], b, n.at))

ReadEnum(t, b, at) ==
  Then(ReadNumber(b, at, 1),
       LAMBDA tag : IF tag.v \notin DOMAIN t.of THEN Failed
                    ELSE Then(ReadFields(t.of[tag.v], b, tag.at),
                              LAMBDA r : Got(<<tag.v, r.v>>, r.at)))

ReadHand(t, b, at) ==
  LET place(f) == CHOOSE i \in DOMAIN t.read : t.read[i] = f
  IN Then(ReadFields([i \in DOMAIN t.read |-> t.of[t.read[i]]], b, at),
          LAMBDA r : Got([f \in DOMAIN t.of |-> r.v[place(f)]], r.at))

\* RegisterSet::validate after its fields are read.
ReadChecked(t, b, at) ==
  Then(Read(t.of, b, at), LAMBDA r : IF Len(r.v[1]) = t.n THEN r ELSE Failed)

Read(t, b, at) ==
  CASE t.k = "num" -> ReadNumber(b, at, t.w)
    [] t.k \in {"text", "blob"} -> ReadBytes(t, b, at)
    [] t.k = "vec" -> ReadVec(t, b, at)
    [] t.k = "struct" -> ReadFields(t.of, b, at)
    [] t.k = "enum" -> ReadEnum(t, b, at)
    [] t.k = "hand" -> ReadHand(t, b, at)
    [] t.k = "checked" -> ReadChecked(t, b, at)

\* decode: one value that takes all the bytes.
Decode(t, b) ==
  Then(Got(b, 1), LAMBDA all :
    Then(Read(t, all.v, 1), LAMBDA r : IF r.at = Len(all.v) + 1 THEN r ELSE Failed))

\* The bytes fit (Encoder::append never exceeds the limit).
Fits(b, limit) == Len(b) <= limit

-----------------------------------------------------------------------------
(* Identities, processes and their memory. *)

ProcessId == Struct(<<I32, U64>>)
DeviceId == Struct(<<U32, U32>>)
IpcKind == Enum(Plain(2))
IpcIdentity == Struct(<<IpcKind, DeviceId, U64>>)
FileIdentity == Struct(<<DeviceId, U64, U32>>)

MemoryMap == Struct(<<U64, U64, Bool, Bool, Bool, Bool, U64, DeviceId, U64, Option(Text)>>)
SmapsEntry == Struct(<<MemoryMap, Option(U64), Option(U64)>>)
MappingSnapshot == Struct(<<U64, Vec(MemoryMap)>>)
MemoryKind == Enum(Plain(7))
MemoryRollup == Struct(<<Option(U64), Option(U64), Option(U64)>>)
MemoryMaps == Struct(<<ProcessId, Vec(SmapsEntry), Option(Text), Option(U64),
                       Option(MemoryRollup)>>)

ProcessSummary ==
  Struct(<<ProcessId, I32, Text, Option(Text), Option(Vec(Text)), Option(U32),
           Option(Text), Option(U32), Option(Text), Text, Option(U64),
           Option(F64), U64, U32, U64, U64>>)
IoStats == Struct(<<U64, U64>>)
SchedulerPolicy == Coded(7, U32)
CpuRange == Struct(<<U32, U32>>)
ThreadSample ==
  Struct(<<I32, Text, Text, I32, I64, I64, SchedulerPolicy,
           Option(Vec(CpuRange)), Option(U64), Option(U64), U64, U64>>)
ProcessSample ==
  Struct(<<U64, ProcessId, U64, U64, U64, U64, Option(U64), Option(U64),
           Option(IoStats), Vec(ThreadSample), I32, I64, I64, U64, U64>>)
ObservationData == Struct(<<ProcessSample, Bool>>)
EnvironmentData == Struct(<<ProcessId, U64, Vec(U8)>>)
AuxData == Struct(<<ProcessId, U64, Usize, Vec(U8),
                    Vec(Struct(<<U64, Option(Text), Option(Text)>>))>>)

-----------------------------------------------------------------------------
(* Thread samples; the context of a sample is not sent. *)

RegisterRole == Enum(Plain(6))
RegisterMapping == Struct(<<Option(Text), Bool, Bool, Bool, Bool>>)
Register == Struct(<<Text, RegisterRole, U64, Text, MemoryKind,
                     Option(RegisterMapping), Option(U64)>>)
RegisterSet == Checked(Struct(<<Vec(U64), Bool, Option(U64)>>), RegisterCount)
SourceFrame == Struct(<<Option(Text), Option(Text), Option(U32)>>)
StackFrame == Struct(<<U64, Option(Text), Option(Text), Option(Text),
                       Option(U32), Vec(SourceFrame)>>)
InstructionBytes == Struct(<<U64, Vec(U8), Option(Text)>>)

LiveSampleFields ==
  [tid |-> I32, executable_header |-> Option(Array(20, U8)),
   sampled_at |-> Option(U64), sample_time_ns |-> Option(U64),
   sample_age_ms |-> Option(U64), cpu |-> Option(U32), lost_samples |-> U64,
   registers |-> Vec(Register), raw_registers |-> Option(RegisterSet),
   stack_bytes |-> Vec(U8), map_epoch |-> Option(U64),
   call_stack |-> Vec(StackFrame), disassembly |-> Option(InstructionBytes),
   unwind_stop |-> Text, error |-> Option(Text)]
LiveSampleWrites ==
  <<"tid", "executable_header", "sampled_at", "sample_time_ns", "sample_age_ms",
    "cpu", "lost_samples", "registers", "raw_registers", "stack_bytes",
    "map_epoch", "call_stack", "disassembly", "unwind_stop", "error">>

\* sampled_at and sample_time_ns the other way round: the same type, so only
\* the values tell.
LiveSampleReads_Swapped ==
  <<"tid", "executable_header", "sample_time_ns", "sampled_at", "sample_age_ms",
    "cpu", "lost_samples", "registers", "raw_registers", "stack_bytes",
    "map_epoch", "call_stack", "disassembly", "unwind_stop", "error">>
LiveSampleReads ==
  <<"tid", "executable_header", "sampled_at", "sample_time_ns", "sample_age_ms",
    "cpu", "lost_samples", "registers", "raw_registers", "stack_bytes",
    "map_epoch", "call_stack", "disassembly", "unwind_stop", "error">>
LiveSample == Hand(LiveSampleFields, LiveSampleWrites, LiveSampleReads)

ProcessDetailFields ==
  [summary |-> ProcessSummary, exited |-> Bool, error |-> Option(Text),
   process_sample |-> ProcessSample, maps |-> Vec(SmapsEntry),
   maps_error |-> Option(Text), maps_captured_at |-> Option(U64),
   rollup |-> Option(MemoryRollup), live_samples |-> Vec(LiveSample),
   mapping_snapshots |-> Vec(MappingSnapshot), sampling_error |-> Option(Text)]
ProcessDetailWrites ==
  <<"summary", "exited", "error", "process_sample", "maps", "maps_error",
    "maps_captured_at", "rollup", "live_samples", "mapping_snapshots",
    "sampling_error">>
ProcessDetailReads ==
  <<"summary", "exited", "error", "process_sample", "maps", "maps_error",
    "maps_captured_at", "rollup", "live_samples", "mapping_snapshots",
    "sampling_error">>
ProcessDetailSnapshot ==
  Hand(ProcessDetailFields, ProcessDetailWrites, ProcessDetailReads)

-----------------------------------------------------------------------------
(* Activity. *)

SignalSample == Struct(<<U64, U64, U64, U32, U32, I32>>)
IpcEvent == Struct(<<U64, U64, U64, U64, U32, U32, Bool, Bool>>)
FileActivity == Struct(<<ProcessId, FileIdentity, Option(Text), Bool, U64, U64>>)
CpuCounters == Struct(<<U64, Vec(Vec(U8)),
                        Vec(Struct(<<Vec(U8), Vec(Array(2, U64))>>))>>)
RawActivity == Struct(<<Vec(FileActivity), Vec(IpcEvent), Vec(SignalSample), CpuCounters>>)
CpuActivity == Struct(<<ProcessId, U64, U64, Usize, Vec(Usize)>>)
IpcActivity == Struct(<<ProcessId, IpcIdentity, Bool, U64, U64>>)
SignalEvent == Struct(<<U64, U32, U32, I32, ProcessId, ProcessId>>)
SensorState == Enum((0 :> <<>>) @@ (1 :> <<>>) @@ (2 :> <<Text>>) @@ (3 :> <<Text>>))
SystemMonitorStatus ==
  Struct(<<Bool, SensorState, SensorState, SensorState, SensorState, Option(U64),
           Option(Text), Option(Text), Option(U64), Option(U64), Option(U64)>>)
SystemActivity ==
  Struct(<<U64, U64, Vec(FileActivity), Vec(IpcActivity), Vec(CpuActivity),
           Vec(SignalEvent), SystemMonitorStatus, Option(RawActivity)>>)

-----------------------------------------------------------------------------
(* Descriptors and sockets. *)

SocketType == Coded(7, U32)
SocketProtocol == LET family == Enum(Plain(2))
                  IN Enum((0 :> <<family>>) @@ (1 :> <<family>>) @@ (2 :> <<SocketType>>)
                          @@ (3 :> <<U32, Option(SocketType), U32>>))
SocketConnectionStatus == Enum(Plain(4))
SocketState == Enum(Plain(16) @@ (16 :> <<U32>>) @@ (17 :> <<U32>>))
FdKind == Enum(Plain(3))
FdAccess == Enum(Plain(4))
InetAddress == Struct(<<IpAddr, U16>>)
SocketInfo == Struct(<<SocketProtocol, Option(SocketState), Option(SocketAddr),
                       Option(SocketAddr), Option(Text), Option(U64)>>)
Key == Struct(<<FdKind, U64, U64>>)
Endpoint == Struct(<<ProcessId, Text, U32, FdAccess, Text>>)
Owner == Struct(<<Endpoint, Option(U32)>>)
FileDescriptorInfo ==
  Struct(<<U32, FdKind, U64, Text, FdAccess, Option(SocketProtocol),
           Option(SocketState), Option(SocketConnectionStatus),
           Option(InetAddress), Option(InetAddress), Option(Text), Option(U64),
           Vec(Endpoint), Vec(Endpoint), Text, Key, Option(U32), Option(U64)>>)
FileDescriptors ==
  Struct(<<ProcessId, U64, Vec(FileDescriptorInfo), Vec(Text),
           Vec(Struct(<<Key, Vec(Owner)>>)), Vec(Struct(<<U32, Vec(Key)>>))>>)

-----------------------------------------------------------------------------
(* InfiniBand.  The variants are numbered on the wire in the order of their *)
(* declaration, not by the kernel's codes.                                  *)

RdmaQpType == Coded(11, U8)
RdmaQpState == Coded(7, U8)
RdmaCmState == Coded(11, U8)
RdmaPortSpace == Coded(4, U32)
IbGid == Array(16, U8)
RdmaAddress == Enum((0 :> <<IpAddr, U16>>) @@ (1 :> <<IbGid, U64, U16>>) @@ (2 :> <<U16>>))
RdmaPortInfo == Struct(<<Text, U32, Option(Text), Option(Text), Option(U32),
                         Option(IbGid), Option(Text)>>)
RdmaEndpointOwner == Enum((0 :> <<ProcessId>>) @@ (1 :> <<Text>>) @@ (2 :> <<Option(U32)>>))
RdmaEndpoint == Struct(<<RdmaEndpointOwner, Text, Option(U32), U32, RdmaQpType, RdmaQpState>>)
RdmaCmInfo == Struct(<<Option(U32), RdmaEndpointOwner, RdmaCmState, RdmaPortSpace,
                       Option(RdmaAddress), Option(RdmaAddress)>>)
RdmaRelation == Struct(<<Text, RdmaEndpoint, Option(RdmaEndpoint), Option(U32),
                         Option(RdmaCmInfo), Option(IbGid), Option(Text), Text>>)

-----------------------------------------------------------------------------
(* The system snapshot: what the helper acquires, and the relations, device *)
(* list and paths that only the HTTP server fills in.                       *)

ProcessSnapshot ==
  Struct(<<ProcessId, Option(ProcessId), Text, Option(Vec(Text)), Option(U32),
           Option(Text), Option(U32), Option(Text), Vec(MemoryMap), U64, Option(Text)>>)
FdEndpoint == Struct(<<ProcessId, U32, Usize, IpcIdentity, FdKind, FdAccess,
                       Option(SocketConnectionStatus)>>)
SocketEndpoint ==
  Struct(<<SocketProtocol, Option(SocketState), Option(InetAddress),
           Option(InetAddress), Option(Text), Bool, Option(Text), Option(Text)>>)
FdRelation == Struct(<<Text, FdEndpoint, Option(FdEndpoint), Text,
                       Option(SocketEndpoint), Bool, Bool>>)
PcieLink == Struct(<<F64, U32>>)
PcieLinkInfo == Struct(<<Option(PcieLink), Option(PcieLink)>>)
BarInfo == Struct(<<U32, U64, Bool>>)
GpuInfo == Struct(<<Text, Option(Text), Option(Text), Option(U32), Vec(Text)>>)
RdmaDeviceInfo == Struct(<<Text, Option(Text), Option(Text)>>)
HardwareDevice ==
  Struct(<<Text, Option(Text), Enum(Plain(4)), Option(Enum(Plain(4))), Text,
           Option(Text), Option(Text), Option(Text), Option(Text), Option(U32),
           Option(PcieLinkInfo), Option(Text), Option(Text), Option(U32),
           Vec(BarInfo), Option(GpuInfo), Vec(RdmaDeviceInfo), Vec(Text)>>)
HardwarePath == Struct(<<Text, Text, Text, Enum(Plain(5)), Vec(Text), Option(PcieLink)>>)
DeviceHandle == Struct(<<Text, ProcessId, Text, Enum(Plain(6)), U32, Usize>>)
HardwareFiles == Struct(<<Bool, Vec(Struct(<<Text, Text>>)),
                          Vec(Struct(<<Text, Vec(Text)>>)), Vec(Struct(<<Text, Text>>))>>)
NeighborSnapshot == Struct(<<Vec(Struct(<<IpAddr, Text>>)), Struct(<<U64, U64>>)>>)
SystemSnapshot ==
  Struct(<<U64, Vec(ProcessSnapshot), Vec(FdRelation), Vec(RdmaPortInfo),
           Vec(RdmaRelation), Vec(HardwareDevice), Vec(HardwarePath),
           Vec(DeviceHandle), Vec(Text), Usize, Usize,
           Vec(Struct(<<IpcIdentity, Vec(FdEndpoint)>>)),
           Vec(Struct(<<U64, SocketInfo>>)),
           Vec(Struct(<<U64, Struct(<<U64, U64>>)>>)),
           Vec(Struct(<<IpcIdentity, SocketConnectionStatus>>)),
           Vec(Struct(<<ProcessId, U32, U64>>)), Option(NeighborSnapshot),
           HardwareFiles, Vec(Struct(<<IpAddr, Text>>))>>)

-----------------------------------------------------------------------------
(* Requests and replies (src/ipc/schema.rs). *)

FileRange == Struct(<<U64, U64>>)
FileChunk == Struct(<<U64, Blob(MaxReadSize)>>)
MappedFileData == Struct(<<Struct(<<U64, U64, U64, I64, I64>>), Vec(FileChunk)>>)
ProcessResource == Enum(Plain(6))
MonitorRequest ==
  Enum((0 :> <<>>) @@ (1 :> <<ProcessId, ProcessResource>>)
       @@ (2 :> <<ProcessId, U64, Vec(FileRange)>>) @@ (3 :> <<ProcessId>>)
       @@ (4 :> <<>>) @@ (5 :> <<U64>>) @@ (6 :> <<U64>>))
MonitorEvent ==
  Enum((0 :> <<ProcessDetailSnapshot>>) @@ (1 :> <<SystemSnapshot>>)
       @@ (2 :> <<U64, SystemSnapshot>>) @@ (3 :> <<SystemActivity>>))
AcquiredData ==
  Enum((0 :> <<Vec(ProcessSummary)>>) @@ (1 :> <<ObservationData>>)
       @@ (2 :> <<MemoryMaps>>) @@ (3 :> <<EnvironmentData>>) @@ (4 :> <<AuxData>>)
       @@ (5 :> <<FileDescriptors>>))
MonitorResponse ==
  Enum((0 :> <<AcquiredData>>) @@ (1 :> <<Option(MappedFileData)>>)
       @@ (3 :> <<U64, MonitorEvent>>) @@ (4 :> <<Option(MonitorEvent), Bool>>)
       @@ (5 :> <<>>))
WireResponse == Outcome(MonitorResponse, Text)
=============================================================================
