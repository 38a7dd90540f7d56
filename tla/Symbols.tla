------------------------------ MODULE Symbols -------------------------------
(***************************************************************************)
(* How stack frames get their names: the unprivileged server asks the      *)
(* helper for ranges of mapped ELF files (elf_reader.rs, process/elf.rs),  *)
(* puts them together (symbol/image.rs), parses them into a bounded cache  *)
(* (symbol/cache.rs) and resolves the frames of every sample with the maps *)
(* of the sample's own epoch (processing.rs, unwind.rs, symbol/resolve.rs).*)
(* Between any two of these steps files are rewritten, processes map other *)
(* files and exit.                                                         *)
(* A file is its device and inode; a version stands for its length and     *)
(* modification time; a byte is the version it was read from.              *)
(***************************************************************************)
EXTENDS Naturals, Integers, Sequences, FiniteSets, SequencesExt

CONSTANTS
  Processes,      \* process identities
  Files,          \* devices and inodes, positive numbers; 0: an anonymous mapping
  Image,          \* Image[file][version]: what a parser finds in the file
  MapSets,        \* the mappings a process may have, each a sequence
  Stacks,         \* the return addresses a stack may hold
  Page,           \* the page size
  HeaderLen,      \* 64 in the code
  MaxRanges,      \* 60: ranges of one request
  MaxReadSize,    \* 64 MiB
  MaxFileSize,    \* 128 MiB
  MaxSection,     \* 32 MiB
  MaxExpanded,    \* 64 MiB
  MaxSymbols,     \* 262,144
  MaxUnits,       \* 16,384
  MaxFiles,       \* 64: parsed and rejected versions
  MaxCacheBytes,  \* 128 MiB
  MaxUnwinders,   \* 64
  MaxLoaded,      \* 65,536
  MaxFrames,      \* 256
  MaxEpoch,       \* bound on the mapping epochs of a process
  MaxCaptured,    \* bound on maps_captured_at
  MaxObserved,    \* bound on the observations processed
  None            \* an absent value

VARIABLES
  version,    \* the version of each file on disk
  alive,      \* the processes that run
  epochs,     \* their mappings by epoch; the last one is current
  captured,   \* maps_captured_at: when the current mappings were last read
  entries,    \* ElfCache.entries: by identity, what was parsed
  mappings,   \* ElfCache.mappings
  failures,   \* ElfCache.failures
  loaded,     \* ObservationProcessor.loaded
  unwinders,  \* ObservationProcessor.unwinders
  work,       \* the observation under way: what is left to load; None
  acq,        \* acquire_mapped_elf_image under way; None
  reading,    \* the helper's read under way; None
  shown,      \* the samples of the last response
  observed    \* how many observations were processed

worldVars == <<version, alive, epochs, captured>>
cacheVars == <<entries, mappings, failures>>
vars == <<worldVars, cacheVars, loaded, unwinders, work, acq, reading, shown, observed>>

Range2(o, l) == [offset |-> o, length |-> l]
SumOf(s, F(_)) == FoldLeft(LAMBDA t, x : t + F(x), 0, s)
ByOffset(a, b) == a.offset < b.offset
Sorted(s) == IF s = <<>> THEN s ELSE SortSeq(s, ByOffset)
Size(id) == Image[id[1]][id[2]].size
Covers(map, address) == map.start <= address /\ address < map.end
First(s, P(_)) == LET at == {i \in DOMAIN s : P(s[i])}
                  IN  IF at = {} THEN None ELSE s[CHOOSE i \in at : \A j \in at : i <= j]

-----------------------------------------------------------------------------
(* Sparse images: ElfImage                                                 *)

\* A chunk or range continues or overlaps the one before it, or stands alone.
Joins(last, item, length) == item.offset <= last.offset + length
JoinChunk(merged, chunk) ==
  IF merged # <<>> /\ Joins(Last(merged), chunk, Len(Last(merged).bytes))
  THEN LET last    == Last(merged)
           overlap == last.offset + Len(last.bytes) - chunk.offset
       IN  Append(Front(merged),
                  [last EXCEPT !.bytes = IF overlap < Len(chunk.bytes)
                                         THEN @ \o SubSeq(chunk.bytes, overlap + 1, Len(chunk.bytes))
                                         ELSE @])
  ELSE Append(merged, chunk)

\* Mutant: bytes of any version extend the image.
MutantSameVersion(image, data) == TRUE

\* extend: more bytes of the same version, within the file and the limit.
SameVersion(image, data) == data.identity = image.identity
Extend(image, data) ==
  LET merged == FoldLeft(JoinChunk, <<>>, Sorted(image.chunks \o data.chunks))
  IN  IF /\ SameVersion(image, data)
         /\ \A i \in DOMAIN merged : merged[i].offset + Len(merged[i].bytes) <= Size(image.identity)
         /\ SumOf(merged, LAMBDA c : Len(c.bytes)) <= MaxReadSize
      THEN [image EXCEPT !.chunks = merged]
      ELSE None
NewImage(data) == IF Size(data.identity) > MaxFileSize THEN None
                  ELSE Extend([identity |-> data.identity, chunks |-> <<>>], data)

\* A range can be read when one chunk holds all of it.
Readable(image, range) ==
  /\ range.offset <= Size(image.identity)
  /\ \/ range.length = 0
     \/ \E i \in DOMAIN image.chunks :
          LET c == image.chunks[i]
          IN  c.offset <= range.offset /\ range.offset + range.length <= c.offset + Len(c.bytes)

\* ranges: what has still to be asked for, adjacent ranges joined.
JoinRange(merged, range) ==
  IF merged # <<>> /\ Joins(Last(merged), range, Last(merged).length)
  THEN LET last == Last(merged)
           upto == range.offset + range.length - last.offset
       IN  Append(Front(merged), [last EXCEPT !.length = IF upto > @ THEN upto ELSE @])
  ELSE Append(merged, range)
Ranges(image, wanted) ==
  LET left   == SelectSeq(wanted, LAMBDA r : r.length # 0 /\ ~Readable(image, r))
      merged == FoldLeft(JoinRange, <<>>, Sorted(left))
  IN  IF /\ \A i \in DOMAIN left : left[i].offset + left[i].length <= Size(image.identity)
         /\ SumOf(merged, LAMBDA r : r.length) <= MaxReadSize
      THEN merged
      ELSE None

\* The three stages: the section and program tables, the section names and
\* the sections that hold symbols, DWARF and unwind rules.
Parsed(image) == Image[image.identity[1]][image.identity[2]]
SectionTable(image) == Readable(image, Range2(0, HeaderLen)) /\ Parsed(image).supported
Tables(image) == IF SectionTable(image)
                 THEN Ranges(image, <<Parsed(image).table, Parsed(image).programs>>)
                 ELSE None
Section(image) == SectionTable(image) /\ Readable(image, Parsed(image).table)
Names(image) == IF Section(image) THEN Ranges(image, <<Parsed(image).names>>) ELSE None
Filed(section) == ~section.nobits /\ section.at.length # 0
Wanted(image) == SelectSeq(Parsed(image).sections, LAMBDA s : Filed(s) /\ s.needed)
Sections(image) ==
  IF /\ Section(image)
     /\ Readable(image, Parsed(image).names)
     /\ \A i \in DOMAIN Wanted(image) : Wanted(image)[i].at.length <= MaxSection
  THEN Ranges(image, [i \in DOMAIN Wanted(image) |-> Wanted(image)[i].at])
  ELSE None
Stage(n, image) == CASE n = 0 -> Tables(image) [] n = 1 -> Names(image) [] OTHER -> Sections(image)

\* Vec::chunks: the ranges in requests of at most MaxRanges.
Batches(ranges) ==
  [b \in 1 .. (Len(ranges) + MaxRanges - 1) \div MaxRanges |->
     SubSeq(ranges, (b - 1) * MaxRanges + 1,
            IF b * MaxRanges < Len(ranges) THEN b * MaxRanges ELSE Len(ranges))]

-----------------------------------------------------------------------------
(* The cache: ElfSymbols, ElfCache                                         *)

\* parse_reader: an oversized file, an unsupported compression, too large
\* sections and too many symbols are rejected; too much DWARF is left out.
ParseReader(image) ==
  LET file     == Parsed(image)
      needed   == SelectSeq(file.sections, LAMBDA s : s.needed)
      rejected == \/ file.size > MaxFileSize
                  \/ ~Section(image)
                  \/ \E i \in DOMAIN needed : \/ needed[i].compression \notin {"none", "zlib"}
                                              \/ needed[i].expanded > MaxSection
                  \/ SumOf(needed, LAMBDA s : s.expanded) > MaxExpanded
                  \/ Len(file.symbols) > MaxSymbols
  IN  IF rejected THEN None
      ELSE [segments |-> file.segments,
            symbols  |-> SortSeq(file.symbols, LAMBDA a, b : a.address < b.address),
            dwarf    |-> file.units <= MaxUnits,
            unwind   |-> file.frames,
            read     |-> UNION {ToSet(image.chunks[i].bytes) : i \in DOMAIN image.chunks}]

\* The identity must be the mapping's file.
OfMapping(map, id) == id[1] = map.file
Full(id) == \/ Cardinality(DOMAIN entries) >= MaxFiles
            \/ SumOf(SetToSeq(DOMAIN entries), Size) + Size(id) > MaxCacheBytes
Without(f, x) == [y \in DOMAIN f \ {x} |-> f[y]]
With(f, x, y) == [z \in DOMAIN f \cup {x} |-> IF z = x THEN y ELSE f[z]]
Empty == [x \in {} |-> x]

InsertImage(map, image) ==
  LET id  == image.identity
      elf == ParseReader(image)
  IN  CASE ~OfMapping(map, id) -> UNCHANGED cacheVars
        [] OfMapping(map, id) /\ id \in DOMAIN entries ->
             /\ mappings' = With(mappings, map.file, id)
             /\ UNCHANGED <<entries, failures>>
        [] OfMapping(map, id) /\ id \notin DOMAIN entries /\ elf = None ->
             /\ mappings' = Without(mappings, map.file)
             /\ failures' = With(IF Cardinality(DOMAIN failures) >= MaxFiles THEN Empty ELSE failures,
                                 map.file, id)
             /\ UNCHANGED entries
        [] OTHER ->
             /\ failures' = Without(failures, map.file)
             /\ entries' = With(IF Full(id) THEN Empty ELSE entries, id, elf)
             /\ mappings' = With(IF Full(id) THEN Empty ELSE mappings, map.file, id)

\* identity: the version known, a rejected one too.
Known(map) ==
  IF map.file \in DOMAIN mappings /\ mappings[map.file] \in DOMAIN entries THEN mappings[map.file]
  ELSE IF map.file \in DOMAIN failures THEN failures[map.file]
  ELSE None
\* get
Lookup(map) == IF map.file \in DOMAIN mappings /\ mappings[map.file] \in DOMAIN entries
               THEN mappings[map.file] ELSE None

-----------------------------------------------------------------------------
(* Addresses and names: resolve.rs, unwind.rs                              *)

\* elf_address: the first segment whose pages hold the mapped file offset.
Up(n) == ((n + Page - 1) \div Page) * Page
Down(n) == (n \div Page) * Page
ElfAddress(address, map, segments) ==
  LET offset  == address - map.start + map.offset
      segment == First(segments, LAMBDA s : Down(s.offset) <= offset /\ offset < Up(s.offset + s.size))
  IN  IF ~Covers(map, address) \/ segment = None \/ offset + segment.address < segment.offset
      THEN None
      ELSE offset + segment.address - segment.offset

\* resolve_frame: the last symbol at or below the address that reaches it.
Covering(address, symbols) ==
  First(Reverse(symbols), LAMBDA s : s.address <= address /\ (s.size = 0 \/ address < s.address + s.size))
ResolveFrame(address, symbols) ==
  LET s == IF address = None THEN None ELSE Covering(address, symbols)
  IN  IF s = None THEN None ELSE s.name

\* instruction_address: a return address is looked up one byte earlier.
InstructionAddress(address, index) == IF index > 1 /\ address > 0 THEN address - 1 ELSE address

\* StackUnwinder::refresh: rebuilt when the executable mappings change.
Executable(maps) == SelectSeq(maps, LAMBDA m : m.executable)
Module(map) ==
  LET id == Lookup(map)
      svma == IF id = None THEN None ELSE ElfAddress(map.start, map, entries[id].segments)
  IN  IF svma = None THEN None
      ELSE IF svma > map.start THEN None
      ELSE [start |-> map.start, end |-> map.end, of |-> id, metadata |-> entries[id].unwind]
Modules(maps) == SelectSeq([i \in DOMAIN maps |-> Module(maps[i])], LAMBDA m : m # None)
Refresh(unwinder, maps) ==
  IF unwinder.mappings = Executable(maps) THEN unwinder
  ELSE [mappings |-> Executable(maps), modules |-> Modules(Executable(maps))]
NoUnwinder == [mappings |-> <<>>, modules |-> <<>>]

\* walk: the frames up to the first address outside executable mappings; the
\* first one is always shown.  An address without a module is told apart.
InCode(maps, address) == \E i \in DOMAIN maps : maps[i].executable /\ Covers(maps[i], address)
Walk(unwinder, maps, sample) ==
  LET at(i) == InstructionAddress(sample.stack[i], i)
      last  == CHOOSE n \in 0 .. Len(sample.stack) :
                 /\ \A i \in 1 .. n : InCode(maps, at(i))
                 /\ n = Len(sample.stack) \/ ~InCode(maps, at(n + 1))
      shownTo == IF ~sample.onStack \/ maps = <<>> \/ last = 0 THEN 1
                 ELSE IF last > MaxFrames THEN MaxFrames ELSE last
  IN  [i \in 1 .. shownTo |->
         [address |-> sample.stack[i],
          module  |-> LET m == First(unwinder.modules, LAMBDA x : x.start <= at(i) /\ at(i) < x.end)
                      IN  IF m = None THEN None ELSE m.of]]

\* The maps a sample is resolved with: those of its own epoch, if sent.
MapsOf(contexts, epoch) == IF epoch \in DOMAIN contexts THEN contexts[epoch] ELSE <<>>

\* The name of a frame, found through the first file mapping that holds it.
NameOf(maps, address) ==
  LET map == First(maps, LAMBDA m : Covers(m, address) /\ m.file # 0)
      id  == IF map = None THEN None ELSE Lookup(map)
  IN  IF id = None THEN None
      ELSE ResolveFrame(ElfAddress(address, map, entries[id].segments), entries[id].symbols)

Resolved(unwinder, contexts, sample) ==
  LET maps   == MapsOf(contexts, sample.epoch)
      frames == Walk(unwinder, maps, sample)
  IN  [epoch  |-> sample.epoch,
       frames |-> [i \in DOMAIN frames |->
                     [address |-> frames[i].address, module |-> frames[i].module,
                      name |-> NameOf(maps, InstructionAddress(frames[i].address, i))]]]

-----------------------------------------------------------------------------
(* The world outside                                                       *)

Rewrite(f) == /\ version[f] < Len(Image[f])
              /\ version' = [version EXCEPT ![f] = @ + 1]
              /\ UNCHANGED <<alive, epochs, captured, cacheVars, loaded, unwinders, work, acq, reading,
                             shown, observed>>

Remap(p) == /\ p \in alive /\ Len(epochs[p]) < MaxEpoch
            /\ \E maps \in MapSets : /\ maps # Last(epochs[p])
                                     /\ epochs' = [epochs EXCEPT ![p] = Append(@, maps)]
            /\ UNCHANGED <<version, alive, captured, cacheVars, loaded, unwinders, work, acq, reading,
                           shown, observed>>

Exits(p) == /\ p \in alive
            /\ alive' = alive \ {p}
            /\ UNCHANGED <<version, epochs, captured, cacheVars, loaded, unwinders, work, acq, reading,
                           shown, observed>>

-----------------------------------------------------------------------------
(* The helper: acquire_process_elf_ranges, read_mapped_file_ranges         *)

Identity(f) == <<f, version[f]>>
MapAt(p, start) == First(Last(epochs[p]), LAMBDA m : m.start = start /\ m.executable /\ m.file # 0)

\* matching_file: the first of map_files, exe and the path below root that
\* leads to a regular file with the mapping's device and inode.
MatchingFile(map, candidates) == First(candidates, LAMBDA f : f = map.file)
Candidates == {<<0, 0, f>> : f \in Files \cup {0}}

\* The requests' ranges lie within the file and the limits.
RangesAllowed(f, ranges) ==
  /\ Len(ranges) <= MaxRanges
  /\ \A i \in DOMAIN ranges : ranges[i].offset + ranges[i].length <= Size(Identity(f))
  /\ SumOf(ranges, LAMBDA r : r.length) <= MaxReadSize

Fails == /\ acq' = [acq EXCEPT !.phase = "failed"]
         /\ reading' = None

\* The process is the one asked for, and its mapping is a file.
Opens ==
  /\ acq # None /\ acq.phase = "ask" /\ reading = None
  /\ LET map == IF acq.process \in alive THEN MapAt(acq.process, acq.map.start) ELSE None
     IN  \E candidates \in Candidates :
           IF map = None \/ MatchingFile(map, candidates) = None
              \/ Size(Identity(map.file)) > MaxFileSize \/ ~RangesAllowed(map.file, acq.batches[1])
           THEN Fails
           ELSE /\ reading' = [file |-> map.file, identity |-> Identity(map.file), chunks |-> None]
                /\ UNCHANGED acq
  /\ UNCHANGED <<worldVars, cacheVars, loaded, unwinders, work, shown, observed>>

\* read_exact_at: a file cut short since fails the read.
Reads ==
  /\ reading # None /\ reading.chunks = None
  /\ LET ranges == acq.batches[1]
         f      == reading.file
         bytes(r) == [n \in 1 .. r.length |-> version[f]]
     IN  IF \A i \in DOMAIN ranges : ranges[i].offset + ranges[i].length <= Size(Identity(f))
         THEN /\ reading' = [reading EXCEPT !.chunks = [i \in DOMAIN ranges |->
                               [offset |-> ranges[i].offset, bytes |-> bytes(ranges[i])]]]
              /\ UNCHANGED acq
         ELSE Fails
  /\ UNCHANGED <<worldVars, cacheVars, loaded, unwinders, work, shown, observed>>

\* The version is the one the read began with, and the process still there.
StillSame == Identity(reading.file) = reading.identity
Replies ==
  /\ reading # None /\ reading.chunks # None
  /\ IF StillSame /\ acq.process \in alive
     THEN /\ acq' = [acq EXCEPT !.phase = "got",
                     !.data = [identity |-> reading.identity, chunks |-> reading.chunks]]
          /\ reading' = None
     ELSE Fails
  /\ UNCHANGED <<worldVars, cacheVars, loaded, unwinders, work, shown, observed>>

-----------------------------------------------------------------------------
(* The processor                                                           *)

\* process: a response with samples.  The maps of all its epochs that are
\* executable and of a file are loaded, one acquisition for each capture.
Contexts(p, from) == [e \in from .. Len(epochs[p]) |-> epochs[p][e]]
AllMaps(contexts) ==
  LET all == UNION {ToSet(Executable(contexts[e])) : e \in DOMAIN contexts}
      one(m) == CHOOSE x \in all : x.start = m.start /\ x.file = m.file
  IN  {one(m) : m \in {x \in all : x.file # 0}}
Observe(p) ==
  /\ work = None /\ observed < MaxObserved /\ p \in alive
  /\ \E from \in 1 .. Len(epochs[p]), old \in BOOLEAN, recaptured \in BOOLEAN, stack \in Stacks :
       /\ recaptured => captured[p] < MaxCaptured
       /\ captured' = IF recaptured THEN [captured EXCEPT ![p] = @ + 1] ELSE captured
       /\ work' = [process |-> p, captured |-> captured'[p], contexts |-> Contexts(p, from),
                   maps |-> AllMaps(Contexts(p, from)),
                   samples |-> [i \in 1 .. Len(epochs[p]) + 1 - (IF old THEN 1 ELSE from) |->
                                  [epoch |-> i - 1 + (IF old THEN 1 ELSE from),
                                   stack |-> stack.addresses, onStack |-> stack.mapped]]]
  /\ loaded' = IF Cardinality(loaded) > MaxLoaded THEN {} ELSE loaded
  /\ observed' = observed + 1
  /\ UNCHANGED <<version, alive, epochs, cacheVars, unwinders, acq, reading, shown>>

Acquisition(map) ==
  [process |-> work.process, map |-> map, known |-> Known(map), phase |-> "ask", stage |-> 0,
   batches |-> << <<Range2(0, HeaderLen)>> >>, image |-> None, data |-> None]

\* The next mapping; one that was tried at this capture is passed over.
Load ==
  /\ work # None /\ acq = None /\ work.maps # {}
  /\ LET map == CHOOSE m \in work.maps : \A n \in work.maps : m.start <= n.start
         key == <<work.process, work.captured, map.start, map.file>>
     IN  /\ loaded' = loaded \cup {key}
         /\ acq' = IF key \in loaded THEN None ELSE Acquisition(map)
         /\ work' = IF key \in loaded THEN [work EXCEPT !.maps = @ \ {map}] ELSE work
  /\ UNCHANGED <<worldVars, cacheVars, unwinders, reading, shown, observed>>

\* The next stage that has something left to ask for.
AtStage(a, n) ==
  LET ranges == Stage(n, a.image)
  IN  IF ranges = None THEN [a EXCEPT !.phase = "failed"]
      ELSE [a EXCEPT !.phase = IF ranges = <<>> THEN "next" ELSE "ask", !.stage = n,
                     !.batches = Batches(ranges)]
NextStage(a) == IF a.stage = 3 THEN [a EXCEPT !.phase = "done"]
                ELSE LET b == AtStage(a, a.stage) IN [b EXCEPT !.stage = a.stage + 1]

\* The header: a known version is not read again.
Header(a) ==
  LET image == NewImage(a.data)
  IN  IF a.data.identity = a.known \/ image = None
      THEN [a EXCEPT !.phase = "failed"]
      ELSE NextStage([a EXCEPT !.image = image, !.stage = 0])
More(a) ==
  LET image == Extend(a.image, a.data)
      rest  == Tail(a.batches)
  IN  IF image = None THEN [a EXCEPT !.phase = "failed"]
      ELSE IF rest # <<>> THEN [a EXCEPT !.phase = "ask", !.image = image, !.batches = rest]
      ELSE NextStage([a EXCEPT !.image = image])
Extends ==
  /\ acq # None
  /\ \/ acq.phase = "got" /\ acq' = IF acq.image = None THEN Header(acq) ELSE More(acq)
     \/ acq.phase = "next" /\ acq' = NextStage(acq)
  /\ UNCHANGED <<worldVars, cacheVars, loaded, unwinders, work, reading, shown, observed>>

\* The acquisition ended: with an image, or without one.
Loaded ==
  /\ acq # None /\ acq.phase \in {"done", "failed"}
  /\ IF acq.phase = "done" THEN InsertImage(acq.map, acq.image) ELSE UNCHANGED cacheVars
  /\ work' = [work EXCEPT !.maps = @ \ {acq.map}]
  /\ acq' = None
  /\ UNCHANGED <<worldVars, loaded, unwinders, reading, shown, observed>>

\* All is loaded: every sample is unwound and named.
UnwinderOf(p) == IF p \in DOMAIN unwinders THEN unwinders[p] ELSE NoUnwinder
Unwound(n) ==
  LET w == work
      u[i \in 0 .. n] == IF i = 0 THEN UnwinderOf(w.process)
                         ELSE Refresh(u[i - 1], MapsOf(w.contexts, w.samples[i].epoch))
  IN  u
Finish ==
  /\ work # None /\ acq = None /\ work.maps = {}
  /\ LET kept == IF Cardinality(DOMAIN unwinders) >= MaxUnwinders /\ work.process \notin DOMAIN unwinders
                 THEN Empty ELSE unwinders
         n == Len(work.samples)
     IN  /\ unwinders' = With(kept, work.process, Unwound(n)[n])
         /\ shown' = [process |-> work.process,
                      samples |-> [i \in 1 .. n |-> Resolved(Unwound(n)[i], work.contexts, work.samples[i])]]
  /\ work' = None
  /\ UNCHANGED <<worldVars, cacheVars, loaded, acq, reading, observed>>

\* close: the last viewer of the process left.
Close(p) ==
  /\ work = None /\ p \in DOMAIN unwinders
  /\ unwinders' = Without(unwinders, p)
  /\ loaded' = {k \in loaded : k[1] # p}
  /\ UNCHANGED <<worldVars, cacheVars, work, acq, reading, shown, observed>>

-----------------------------------------------------------------------------
Init ==
  /\ version = [f \in Files |-> 1]
  /\ alive = Processes
  /\ epochs \in [Processes -> {<<maps>> : maps \in MapSets}]
  /\ captured = [p \in Processes |-> 1]
  /\ entries = Empty /\ mappings = Empty /\ failures = Empty
  /\ loaded = {} /\ unwinders = Empty
  /\ work = None /\ acq = None /\ reading = None /\ shown = None /\ observed = 0

Next == \/ \E f \in Files : Rewrite(f)
        \/ \E p \in Processes : Remap(p) \/ Exits(p) \/ Observe(p) \/ Close(p)
        \/ Opens \/ Reads \/ Replies \/ Load \/ Extends \/ Loaded \/ Finish

Spec == Init /\ [][Next]_vars

-----------------------------------------------------------------------------
(* Properties                                                              *)

\* A frame is named and unwound with the file that was mapped at its address
\* when the sample was taken, whatever the process maps there now and however
\* the helper's answers raced the change (processing.rs process,
\* cache.rs insert_reader, unwind.rs refresh).
FileAt(p, epoch, address) ==
  LET map == First(epochs[p][epoch], LAMBDA m : Covers(m, address))
  IN  IF map = None THEN 0 ELSE map.file
FramesOfMappedFile ==
  shown # None =>
    \A i \in DOMAIN shown.samples : \A n \in DOMAIN shown.samples[i].frames :
      LET frame == shown.samples[i].frames[n]
          file  == FileAt(shown.process, shown.samples[i].epoch, InstructionAddress(frame.address, n))
      IN  /\ frame.name # None => frame.name[1] = file
          /\ frame.module # None => frame.module[1] = file

\* What the cache holds for a version was parsed from bytes of that version
\* only, and the image under way holds bytes of one version, though a file may be rewritten between and during the reads
\* (elf.rs read_mapped_file_ranges, image.rs extend).
ImagesOfOneVersion ==
  /\ \A id \in DOMAIN entries : entries[id].read = {id[2]}
  /\ acq # None => (acq.image # None =>
       \A i \in DOMAIN acq.image.chunks :
         ToSet(acq.image.chunks[i].bytes) \subseteq {acq.image.identity[2]})

\* When the acquisition ends with an image, every section the parser needs
\* can be read from it: what was asked for in pieces, adjacent, overlapping or
\* split over requests, was put together again (image.rs ranges and extend).
NeededRead ==
  acq # None => (acq.phase = "done" =>
    \A i \in DOMAIN Wanted(acq.image) : Readable(acq.image, Wanted(acq.image)[i].at))

\* elf_address "accounts for page-aligned segment mappings": a segment mapped
\* by the loader, its file offset and address rounded down to pages, gives
\* every address of it back (resolve.rs elf_address).
Mapped(segment, base) ==
  [start |-> base + Down(segment.address), end |-> base + Up(segment.address + segment.size),
   offset |-> Down(segment.offset)]
AddressesTranslated ==
  \A id \in DOMAIN entries : \A i \in DOMAIN entries[id].segments :
    LET segment == entries[id].segments[i]
        base    == 8 * Page
    IN  \A a \in segment.address .. segment.address + segment.size - 1 :
          ElfAddress(base + a, Mapped(segment, base), entries[id].segments) = a

=============================================================================
