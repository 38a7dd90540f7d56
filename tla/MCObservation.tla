--------------------------- MODULE MCObservation ----------------------------
(* What an observed process and the activity of the system come to, for     *)
(* TLC: the sessions of the server's processor, and what is sampled,        *)
(* symbolized, counted and laid out for them.  `which` says which of them a *)
(* behaviour is about; the variables of the others stay Off, those of the   *)
(* sessions as they start.                                                  *)
EXTENDS ObservationState, Sequences, TLC

CONSTANTS
  Tids, Cpus, Layouts, ThreadLimit, RingCapacity, MaxTime, MaxStart, MaxEpoch,
  Processes, Files, Image, MapSets, Stacks, Page, HeaderLen, MaxRanges, MaxReadSize,
  MaxFileSize, MaxSection, MaxExpanded, MaxSymbols, MaxUnits, MaxFiles, MaxCacheBytes,
  MaxUnwinders, MaxLoaded, MaxFrames, MaxCaptured, MaxObserved,
  Pids, Resources, MaxEvents, PollLimit, FilesLimit, IpcLimit, SignalsLimit, AggregateLimit,
  Procs,
  Bridges, Functions, MaxBytes,
  None, Off

VARIABLES
  which,
  start, born, cpu, sampled, tracee, signal, gone, threads, context, timer, stat,
  guard, calm,
  version, epochs, captured, entries, mappings, failures, loaded, unwinders, work,
  acq, reading, observed,
  sensor, state, owner, ring, lost, queue, drops, sent, skipped, unresolved, batch,
  lostShown, emitted, delivered,
  slot, totals, current, previous, running, done, twice, first, until, whole,
  parent, interest, numa, present, opened, climbing, links, texts, truncated, raw,
  live, view,
  now,
  phase, todo,
  shown,
  known,
  alive

Sampler == INSTANCE StackSampler WITH MapSets <- Layouts
Symbol == INSTANCE Symbols
Events == INSTANCE ActivityEvents
Cpu == INSTANCE CpuActivity
Hardware == INSTANCE HardwareView

\* The variables of one component alone, and those that several share.
stackOnly == <<start, born, cpu, sampled, tracee, signal, gone, threads, context,
               timer, stat, guard, calm>>
symbolOnly == <<version, epochs, captured, entries, mappings, failures, loaded,
                unwinders, work, acq, reading, observed>>
eventOnly == <<sensor, state, owner, ring, lost, queue, drops, sent, skipped,
               unresolved, batch, lostShown, emitted, delivered>>
cpuOnly == <<slot, totals, current, previous, running, done, twice, first, until,
             whole>>
hardwareOnly == <<parent, interest, numa, present, opened, climbing, links, texts,
                  truncated, raw, live, view>>
stackCpu == <<now>>
stackHardware == <<phase, todo>>
symbolCpu == <<shown>>
eventCpu == <<known>>
stackSymbolHardware == <<alive>>
allVars == <<which, vars, stackOnly, symbolOnly, eventOnly, cpuOnly, hardwareOnly, stackCpu,
             stackHardware, symbolCpu, eventCpu, stackSymbolHardware>>

NoStackOnly ==
  /\ start = Off /\ born = Off /\ cpu = Off /\ sampled = Off /\ tracee = Off
  /\ signal = Off /\ gone = Off /\ threads = Off /\ context = Off /\ timer = Off
  /\ stat = Off /\ guard = Off /\ calm = Off
NoSymbolOnly ==
  /\ version = Off /\ epochs = Off /\ captured = Off /\ entries = Off
  /\ mappings = Off /\ failures = Off /\ loaded = Off /\ unwinders = Off
  /\ work = Off /\ acq = Off /\ reading = Off /\ observed = Off
NoEventOnly ==
  /\ sensor = Off /\ state = Off /\ owner = Off /\ ring = Off /\ lost = Off
  /\ queue = Off /\ drops = Off /\ sent = Off /\ skipped = Off /\ unresolved = Off
  /\ batch = Off /\ lostShown = Off /\ emitted = Off /\ delivered = Off
NoCpuOnly ==
  /\ slot = Off /\ totals = Off /\ current = Off /\ previous = Off /\ running = Off
  /\ done = Off /\ twice = Off /\ first = Off /\ until = Off /\ whole = Off
NoHardwareOnly ==
  /\ parent = Off /\ interest = Off /\ numa = Off /\ present = Off /\ opened = Off
  /\ climbing = Off /\ links = Off /\ texts = Off /\ truncated = Off /\ raw = Off
  /\ live = Off /\ view = Off
NoStackCpu == now = Off
NoStackHardware == phase = Off /\ todo = Off
NoSymbolCpu == shown = Off
NoEventCpu == known = Off
NoStackSymbolHardware == alive = Off

-----------------------------------------------------------------------------
(* ELF files and mappings for the symbols.                                 *)

Bytes(o, l) == [offset |-> o, length |-> l]
Sec(o, l, needed) == [at |-> Bytes(o, l), needed |-> needed, nobits |-> FALSE,
                      compression |-> "none", expanded |-> l]
Sym(f, v, a, s) == [address |-> a, size |-> s, name |-> <<f, v, a>>]
Elf(f, v, size, sections, comp) ==
  [size |-> size, supported |-> TRUE, table |-> Bytes(size - 1, 1),
   programs |-> Bytes(1, 1), names |-> Bytes(size - 2, 1),
   sections |-> [i \in DOMAIN sections |-> [sections[i] EXCEPT !.compression = comp]],
   segments |-> << [offset |-> 0, size |-> 4, address |-> 0] >>,
   symbols |-> << Sym(f, v, 2, 2), Sym(f, v, 0, 1) >>, units |-> 1, frames |-> TRUE]
\* Data and code segments that follow one another in the file and share a page.
Adjacent ==
  << [offset |-> 0, size |-> 1, address |-> 0], [offset |-> 1, size |-> 3, address |-> 3] >>
\* File 1: a section within another; then, rewritten, two read in two requests.
\* File 2: first rejected for its compression, then rewritten.
MCImage ==
  << << Elf(1, 1, 8, <<Sec(2, 3, TRUE), Sec(3, 1, TRUE), Sec(5, 1, FALSE)>>, "none"),
        [Elf(1, 2, 7, <<Sec(2, 1, TRUE), Sec(4, 1, TRUE)>>, "none")
           EXCEPT !.segments = Adjacent] >>,
     << Elf(2, 1, 6, <<Sec(2, 1, TRUE)>>, "zstd"),
        Elf(2, 2, 6, <<Sec(2, 1, TRUE)>>, "zlib") >> >>
Map(from, file) ==
  [start |-> from, end |-> from + 4, offset |-> 0, file |-> file, executable |-> TRUE]
MCMapSets == { <<Map(4, 1), Map(8, 2)>>, <<Map(4, 2), Map(8, 0)>> }
MCStacks == { [addresses |-> <<6, 8, 20>>, mapped |-> TRUE] }
SymbolInit == Symbol!Init /\ \A p \in Processes : epochs[p] = << <<Map(4, 1), Map(8, 2)>> >>

\* A signal is sent, or the tid is reused, or the mappings change.
Reduced ==
  which = "stacks" =>
    /\ context.epoch > 1 => \A t \in Tids : signal[t] = None /\ born[t] = 1
    /\ \A t \in Tids : signal[t] = None \/ born[t] = 1

\* The process uses the last device, a GPU; the first bridge is on NUMA node 1.
HardwareInit ==
  /\ Hardware!Init
  /\ 6 \in interest /\ \A p \in Processes : opened[p] = 6
  /\ numa[1] = 1 /\ numa[2] < 2

-----------------------------------------------------------------------------
MCInit ==
  /\ Init
  /\ \/ /\ which = "sessions"
        /\ NoStackOnly /\ NoSymbolOnly /\ NoEventOnly /\ NoCpuOnly /\ NoHardwareOnly
        /\ NoStackCpu /\ NoStackHardware /\ NoSymbolCpu /\ NoEventCpu
        /\ NoStackSymbolHardware
     \/ /\ which = "stacks" /\ Sampler!Init
        /\ NoSymbolOnly /\ NoEventOnly /\ NoCpuOnly /\ NoHardwareOnly /\ NoSymbolCpu
        /\ NoEventCpu
     \/ /\ which = "symbols" /\ SymbolInit
        /\ NoStackOnly /\ NoEventOnly /\ NoCpuOnly /\ NoHardwareOnly /\ NoStackCpu
        /\ NoStackHardware /\ NoEventCpu
     \/ /\ which = "events" /\ Events!Init
        /\ NoStackOnly /\ NoSymbolOnly /\ NoCpuOnly /\ NoHardwareOnly /\ NoStackCpu
        /\ NoStackHardware /\ NoSymbolCpu /\ NoStackSymbolHardware
     \/ /\ which = "cpu" /\ Cpu!Init
        /\ NoStackOnly /\ NoSymbolOnly /\ NoEventOnly /\ NoHardwareOnly /\ NoStackHardware
        /\ NoStackSymbolHardware
     \/ /\ which = "hardware" /\ HardwareInit
        /\ NoStackOnly /\ NoSymbolOnly /\ NoEventOnly /\ NoCpuOnly /\ NoStackCpu
        /\ NoSymbolCpu /\ NoEventCpu

MCNext ==
  /\ UNCHANGED which
  /\ \/ /\ which = "sessions" /\ Next
        /\ UNCHANGED <<stackOnly, symbolOnly, eventOnly, cpuOnly, hardwareOnly, stackCpu,
                       stackHardware, symbolCpu, eventCpu, stackSymbolHardware>>
     \/ /\ which = "stacks" /\ Sampler!Next
        /\ UNCHANGED <<vars, symbolOnly, eventOnly, cpuOnly, hardwareOnly, symbolCpu,
                       eventCpu>>
     \/ /\ which = "symbols" /\ Symbol!Next
        /\ UNCHANGED <<vars, stackOnly, eventOnly, cpuOnly, hardwareOnly, stackCpu,
                       stackHardware, eventCpu>>
     \/ /\ which = "events" /\ Events!Next
        /\ UNCHANGED <<vars, stackOnly, symbolOnly, cpuOnly, hardwareOnly, stackCpu,
                       stackHardware, symbolCpu, stackSymbolHardware>>
     \/ /\ which = "cpu" /\ Cpu!Next
        /\ UNCHANGED <<vars, stackOnly, symbolOnly, eventOnly, hardwareOnly, stackHardware,
                       stackSymbolHardware>>
     \/ /\ which = "hardware" /\ Hardware!Next
        /\ UNCHANGED <<vars, stackOnly, symbolOnly, eventOnly, cpuOnly, stackCpu, symbolCpu,
                       eventCpu>>

MCSpec == MCInit /\ [][MCNext]_allVars

\* The symbols alone.
SymbolSpec == MCInit /\ which = "symbols" /\ [][MCNext]_allVars

-----------------------------------------------------------------------------
(* Properties                                                              *)

\* A stack shown for a thread is of that thread, not of an earlier owner of its tid;
\* one called a context switch was taken at that switch; and its mapping epoch names
\* the mappings it was taken under (snapshot/capture.rs, perf.rs).
SamplesOfOwner ==
  which = "stacks" => Sampler!SwitchIsOwn /\ Sampler!SamplesOfOwner /\ Sampler!EpochNamesMaps

\* A capture leaves no thread stopped or attached and gives every signal back, also
\* when the thread dies at any step of it (PtraceGuard in snapshot/ptrace.rs).
TraceesReleased == which = "stacks" => Sampler!TraceesReleased

\* While a thread lives its stack never goes back in time, whichever of two rings and
\* ptrace gave it, and a loss that was counted stays counted (Sampler::poll).
SamplesAdvance == [][which = "stacks" => Sampler!Advances]_allVars

\* Frames are named from the file that was mapped when the stack was taken, with
\* symbols of one version of it that were all read, although files are rewritten and
\* mappings replaced while they are acquired (snapshot/symbol/, process/elf.rs).
FramesOfMappedFile ==
  which = "symbols" =>
    Symbol!FramesOfMappedFile /\ Symbol!ImagesOfOneVersion /\ Symbol!NeededRead

\* Every file and IPC event of the kernel is on its way, shown or counted as lost,
\* once; and an event is shown for the process that caused it although its pid is
\* reused (system/files.rs, ipc.rs, signals.rs, analysis/activity.rs).
EventsAccounted == which = "events" => Events!EventsAccounted /\ Events!ShownOfCause

\* The run time shown for a process is what it ran, and all of it while its counters
\* were read and kept, but for an interval that ended between the two reads of the
\* sensor (system/sched.rs, ActivityProcessor::cpu).
RuntimeOfCpus == which = "cpu" => Cpu!RuntimeReal /\ Cpu!RuntimeWhole

\* Every path and handle of the hardware view ends at nodes of the view, devices in
\* use are in it, and paths follow the PCI tree, although devices are unplugged and
\* processes end while they are acquired (analysis/hardware/).
ViewClosed ==
  which = "hardware" => Hardware!ViewClosed /\ Hardware!DevicesShown /\ Hardware!PathsOfTree

\* "Convert a corrected runtime address into an ELF address, accounting for the mapping
\* offset, PIE/ASLR load bias, and page-aligned segment mappings." (resolve.rs)
AddressesTranslated == which = "symbols" => Symbol!AddressesTranslated
=============================================================================
