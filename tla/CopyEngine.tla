----------------------------- MODULE CopyEngine -----------------------------
(***************************************************************************)
(* The copy of snapshots to and from a protection store: the copy program  *)
(* (cmd/copy), its end points (pkg/endpoint), the metadata files they      *)
(* write (pkg/metadata) and the operations of the daemons that run it      *)
(* (pkg/pstore).                                                           *)
(*                                                                         *)
(* A backup reads the differences between two points in time from the      *)
(* storage process, stores every changed chunk under the hash of its data  *)
(* (unless an object of that name exists) and writes a metadata file with  *)
(* one line per chunk; a clean chunk takes the line of the base snapshot.  *)
(* One goroutine produces chunks, several workers move them, one collects  *)
(* the lines in the order of the offsets.  A restore is the same engine    *)
(* with a store as source and a zeroed volume as destination.              *)
(*                                                                         *)
(* A chunk's data is a small number, 0 a chunk of zeros, and stands for    *)
(* its hash as well; encryption (of names and of data) is deterministic    *)
(* per domain and left out.                                                *)
(***************************************************************************)
EXTENDS Naturals, Sequences, FiniteSets, SequencesExt

CONSTANTS
    Kinds,         \* the kinds of protection store considered
    Worker,        \* the workers of a copy
    Data,          \* what a chunk can hold, 0 included
    StartSize,     \* chunks of the volume at first
    MaxSize,       \* bound on its growth
    MaxSnaps,      \* bound on the snapshots taken
    MaxRestores,   \* bound on the restores
    MaxFaults,     \* bound on failing calls and on restarts
    Whole,         \* does the storage process answer at once and mark only what changed?
    TrailingGaps,  \* may an answer of the storage process end with unreported chunks?
    SharedDomains  \* may the catalog be kept in the domain and store of the snapshots?

VARIABLES
    kind,      \* the kind of store
    shared,    \* is the catalog in its domain?
    vol,       \* the volume: a sequence of data
    pits,      \* the contents of every snapshot taken
    objs,      \* the data objects of the store, by hash: "none", "part" or "whole"
    files,     \* the object named after each snapshot
    recorded,  \* the snapshots with a Snapshot object
    request,   \* the VOL_SNAPSHOT_CREATE request: [state, snap, base]
    job,       \* the running copy: [op, snap, base, state]
    differ,    \* its producer: [off, reply, next, size, ended]
    work,      \* the channel to the workers
    worker,    \* per worker [pc, chunk, buf]
    err,       \* the copy's error is set
    md,        \* the channel to the collector of metadata
    handler,   \* that collector: [state, map, lines]
    target,    \* the volume a restore writes to
    restored,  \* the last restore: [snap, result], and whether it was synced (history)
    gapped,    \* the snapshots of which chunks were not reported (history)
    restores, faults

volumeVars == <<kind, shared, vol, pits>>
storeVars == <<objs, files, recorded>>
copyVars == <<differ, work, worker, err, md, handler>>
vars == <<kind, shared, vol, pits, objs, files, recorded, request, job, differ, work, worker,
          err, md, handler, target, restored, gapped, restores, faults>>

Zero == 0
Unset == 99     \* a metadata entry without an object id

-----------------------------------------------------------------------------
(* What tells the kinds of store apart.                                    *)

\* Setup of a destination: S3 alone refuses a snapshot that is already there.
S3Setup == [incrMustBeNew |-> TRUE]
GoogleSetup == [incrMustBeNew |-> FALSE]
AzureSetup == [incrMustBeNew |-> FALSE]
DirSetup == [incrMustBeNew |-> FALSE]

\* FetchAt: a directory takes an object of any size for the chunk.
S3Data == [sizeChecked |-> TRUE]
GoogleData == [sizeChecked |-> TRUE]
AzureData == [sizeChecked |-> TRUE]
DirData == [sizeChecked |-> FALSE]

\* Objects: the Google writer reports a failed upload when it is closed, where
\* nobody looks; a file of a directory exists before it is written.
S3Objects == [putReported |-> TRUE, putAtomic |-> TRUE]
GoogleObjects == [putReported |-> FALSE, putAtomic |-> TRUE]
AzureObjects == [putReported |-> TRUE, putAtomic |-> TRUE]
DirObjects == [putReported |-> TRUE, putAtomic |-> FALSE]

\* The collector: past the end of the base's metadata a directory's loop goes on
\* reading the end of the file; its failed rename is printed, not reported.
S3Handler == [stopsAtEnd |-> TRUE, fileReported |-> TRUE]
GoogleHandler == [stopsAtEnd |-> TRUE, fileReported |-> FALSE]
AzureHandler == [stopsAtEnd |-> TRUE, fileReported |-> TRUE]
DirHandler == [stopsAtEnd |-> FALSE, fileReported |-> FALSE]

\* SetupEndpoint: the end point of a kind.
Endpoint(k) ==
    CASE k = "S3" -> <<S3Setup, S3Data, S3Objects, S3Handler>>
      [] k = "Google" -> <<GoogleSetup, GoogleData, GoogleObjects, GoogleHandler>>
      [] k = "Azure" -> <<AzureSetup, AzureData, AzureObjects, AzureHandler>>
      [] k = "Dir" -> <<DirSetup, DirData, DirObjects, DirHandler>>

SetupOf == Endpoint(kind)[1]
DataOf == Endpoint(kind)[2]
ObjectsOf == Endpoint(kind)[3]
HandlerOf == Endpoint(kind)[4]

-----------------------------------------------------------------------------
NoFile == [type |-> "none", lines |-> <<>>]
Metadata(lines) == [type |-> "lines", lines |-> lines]
CatalogEntry == [type |-> "catalog", lines |-> <<>>]

Idle == [state |-> "idle", snap |-> 0, base |-> 0]
NoJob == [op |-> "none", snap |-> 0, base |-> 0, state |-> "none"]
NoWork == [pc |-> "gone", chunk |-> [off |-> 0, dirty |-> FALSE, hash |-> Unset], buf |-> Zero]
NoDiffer == [off |-> 0, reply |-> <<>>, next |-> 0, size |-> 0, ended |-> TRUE]
NoHandler == [state |-> "none", map |-> {}, lines |-> <<>>]

Init ==
    /\ kind \in Kinds /\ shared \in SharedDomains
    /\ vol = [i \in 1..StartSize |-> Zero]
    /\ pits = <<>>
    /\ objs = [d \in Data |-> "none"]
    /\ files = [s \in 1..MaxSnaps |-> NoFile]
    /\ recorded = {}
    /\ request = Idle
    /\ job = NoJob
    /\ differ = NoDiffer
    /\ work = <<>>
    /\ worker = [w \in Worker |-> NoWork]
    /\ err = FALSE
    /\ md = <<>>
    /\ handler = NoHandler
    /\ target = <<>>
    /\ restored = [snap |-> 0, result |-> "none", synced |-> TRUE]
    /\ gapped = {}
    /\ restores = 0
    /\ faults = 0

\* A call fails.
Fault == faults < MaxFaults /\ faults' = faults + 1
NoFault == UNCHANGED faults

-----------------------------------------------------------------------------
(* The volume and the request.                                             *)

\* The volume is in use until its point in time is taken.
Write(i, d) ==
    /\ request.state = "idle" /\ job.op = "none" /\ Len(pits) < MaxSnaps
    /\ vol[i] # d
    /\ vol' = [vol EXCEPT ![i] = d]
    /\ UNCHANGED <<kind, shared, pits, storeVars, request, job, copyVars, target, restored, gapped, restores, faults>>

Grow ==
    /\ request.state = "idle" /\ job.op = "none" /\ Len(pits) < MaxSnaps
    /\ Len(vol) < MaxSize
    /\ vol' = Append(vol, Zero)
    /\ UNCHANGED <<kind, shared, pits, storeVars, request, job, copyVars, target, restored, gapped, restores, faults>>

\* The request has its point in time and uploads it against the last snapshot.
TakeSnapshot ==
    /\ request.state = "idle" /\ job.op = "none" /\ Len(pits) < MaxSnaps
    /\ pits' = Append(pits, vol)
    /\ request' = [state |-> "uploading", snap |-> Len(pits) + 1,
                   base |-> IF recorded = {} THEN 0 ELSE CHOOSE s \in recorded : \A t \in recorded : t <= s]
    /\ UNCHANGED <<kind, shared, vol, storeVars, job, copyVars, target, restored, gapped, restores, faults>>

-----------------------------------------------------------------------------
(* doCopy: set up both end points, start the workers.                      *)

StartWorkers == worker' = [w \in Worker |-> [NoWork EXCEPT !.pc = "idle"]]

\* Destination.Setup: the base's metadata must be there.
SetupDestination ==
    /\ request.base # 0 => files[request.base].type = "lines"
    /\ SetupOf.incrMustBeNew => files[request.snap].type = "none"

\* A copy that ends with an error fails its request.
Failed == request' = [request EXCEPT !.state = "failed"]

SnapshotBackup ==
    /\ request.state = "uploading" /\ job.op = "none"
    /\ \/ /\ SetupDestination
          /\ job' = [op |-> "backup", snap |-> request.snap, base |-> request.base, state |-> "copying"]
          /\ differ' = [NoDiffer EXCEPT !.size = Len(pits[request.snap]), !.ended = FALSE]
          /\ gapped' = IF request.base \in gapped THEN gapped \cup {request.snap} ELSE gapped \ {request.snap}
          /\ StartWorkers
          /\ handler' = [NoHandler EXCEPT !.state = "run"]
          /\ NoFault /\ UNCHANGED request
       \/ /\ \/ ~SetupDestination /\ NoFault
             \/ Fault
          /\ Failed
          /\ UNCHANGED <<gapped, job, differ, worker, handler>>
    /\ work' = <<>> /\ md' = <<>> /\ err' = FALSE
    /\ UNCHANGED <<volumeVars, storeVars, target, restored, restores>>

\* Source.Setup reads the metadata; Differ then sends every line as dirty, as
\* there is no base, with its object's name.
SnapshotRestore(s) ==
    /\ request.state = "idle" /\ job.op = "none"
    /\ s \in recorded /\ restores < MaxRestores
    /\ restores' = restores + 1
    /\ \/ /\ files[s].type = "lines" /\ NoFault
          /\ target' = [i \in 1..Len(pits[s]) |-> Zero]
          /\ job' = [op |-> "restore", snap |-> s, base |-> 0, state |-> "copying"]
          /\ differ' = [off |-> 0, next |-> Len(files[s].lines), size |-> Len(files[s].lines), ended |-> FALSE,
                        reply |-> [i \in 1..Len(files[s].lines) |->
                                      [off |-> i - 1, dirty |-> TRUE, hash |-> files[s].lines[i]]]]
          /\ StartWorkers
          /\ UNCHANGED restored
       \/ /\ \/ files[s].type # "lines" /\ NoFault
             \/ Fault
          /\ restored' = [snap |-> s, result |-> "failed", synced |-> TRUE]
          /\ UNCHANGED <<target, job, differ, worker>>
    /\ work' = <<>> /\ md' = <<>> /\ err' = FALSE
    /\ UNCHANGED <<volumeVars, storeVars, request, handler, gapped>>

-----------------------------------------------------------------------------
(* Differ.                                                                 *)

Copying == job.op # "none" /\ job.state = "copying"

\* What the storage process must report: the chunks written since the base, or
\* those ever written; a chunk beyond the base's end counts as written if it was.
Changed(off) ==
    LET new == pits[job.snap][off + 1]
    IN  IF job.base = 0 \/ off >= Len(pits[job.base]) THEN new # Zero
        ELSE new # pits[job.base][off + 1]

\* getNextDiffs: an answer covers the chunks up to progress; the chunks up to
\* its last entry become dirty or clean ones, unreported ones between two
\* entries are clean.
GetNextDiffs ==
    /\ Copying /\ job.op = "backup"
    /\ ~differ.ended /\ differ.reply = <<>> /\ differ.off < differ.size
    /\ \E progress \in differ.off + 1..differ.size :
       \E end \in IF TrailingGaps THEN differ.off..progress ELSE {progress} :
       \E dirty \in SUBSET (differ.off..(IF end = 0 THEN 0 ELSE end - 1)) :
          /\ end = differ.off => dirty = {}
          /\ Whole => progress = differ.size /\ \A o \in dirty : Changed(o)
          /\ \A o \in differ.off..progress - 1 : Changed(o) => o \in dirty
          /\ differ' = [differ EXCEPT
                 !.reply = [i \in 1..(end - differ.off) |->
                               [off |-> differ.off + i - 1, dirty |-> differ.off + i - 1 \in dirty, hash |-> Unset]],
                 !.next = progress,
                 !.off = IF end = differ.off THEN progress ELSE @]
          /\ gapped' = IF end < progress THEN gapped \cup {job.snap} ELSE gapped
    /\ NoFault
    /\ UNCHANGED <<volumeVars, storeVars, request, job, work, worker, err, md, handler, target, restored, restores>>

\* A temporary error of every try: the loop ends without an error and without
\* an answer, and the producer goes on at the progress 0 it did not get.
StorageBusy ==
    /\ Copying /\ job.op = "backup"
    /\ ~differ.ended /\ differ.reply = <<>> /\ differ.off < differ.size
    /\ Fault
    /\ differ' = [differ EXCEPT !.off = 0]
    /\ UNCHANGED <<volumeVars, storeVars, request, job, work, worker, err, md, handler, target, restored, gapped, restores>>

\* Any other error ends the producer, which closes the channel.
StorageError ==
    /\ Copying /\ job.op = "backup"
    /\ ~differ.ended /\ differ.reply = <<>> /\ differ.off < differ.size
    /\ Fault
    /\ differ' = [differ EXCEPT !.ended = TRUE]
    /\ err' = TRUE
    /\ UNCHANGED <<volumeVars, storeVars, request, job, work, worker, md, handler, target, restored, gapped, restores>>

\* A chunk is sent when there is room; the producer polls, and stops on an error.
DifferSend ==
    /\ Copying /\ ~differ.ended /\ differ.reply # <<>>
    /\ IF err
       THEN differ' = [differ EXCEPT !.ended = TRUE] /\ UNCHANGED work
       ELSE /\ Len(work) < 4 * Cardinality(Worker)
            /\ work' = Append(work, Head(differ.reply))
            /\ differ' = [differ EXCEPT !.reply = Tail(@),
                                        !.off = IF Len(differ.reply) = 1 THEN differ.next ELSE @]
    /\ NoFault
    /\ UNCHANGED <<volumeVars, storeVars, request, job, worker, err, md, handler, target, restored, gapped, restores>>

DifferEnd ==
    /\ Copying /\ ~differ.ended /\ differ.reply = <<>> /\ differ.off >= differ.size
    /\ differ' = [differ EXCEPT !.ended = TRUE]
    /\ NoFault
    /\ UNCHANGED <<volumeVars, storeVars, request, job, work, worker, err, md, handler, target, restored, gapped, restores>>

-----------------------------------------------------------------------------
(* The workers.                                                            *)

Goto(w, pc) == worker' = [worker EXCEPT ![w].pc = pc]

\* The first error wins and the worker leaves its loop.
WorkerError(w) ==
    /\ err' = TRUE
    /\ Goto(w, "gone")

\* The next chunk: a dirty one is fetched, a clean one goes to the collector
\* (SkipAt), or leaves the volume as it is.
TakeChunk(w) ==
    /\ Copying /\ worker[w].pc = "idle" /\ work # <<>>
    /\ worker' = [worker EXCEPT ![w] = [@ EXCEPT
            !.chunk = Head(work),
            !.pc = IF Head(work).dirty THEN "fetch" ELSE "entry"]]
    /\ work' = Tail(work)
    /\ NoFault
    /\ UNCHANGED <<volumeVars, storeVars, request, job, differ, err, md, handler, target, restored, gapped, restores>>

\* FetchAt of the exported point in time.
FetchLun(w) ==
    /\ Copying /\ job.op = "backup" /\ worker[w].pc = "fetch"
    /\ \/ /\ worker' = [worker EXCEPT ![w] = [@ EXCEPT !.pc = "fill",
                                                       !.buf = pits[job.snap][worker[w].chunk.off + 1]]]
          /\ NoFault /\ UNCHANGED err
       \/ Fault /\ WorkerError(w)
    /\ UNCHANGED <<volumeVars, storeVars, request, job, differ, work, md, handler, target, restored, gapped, restores>>

\* FetchAt of a store: the name of zeros is not read; the rest of a short
\* object's buffer holds what was in it before.
FetchObject(w) ==
    /\ Copying /\ job.op = "restore" /\ worker[w].pc = "fetch"
    /\ LET hash == worker[w].chunk.hash
           there == hash = Zero \/ objs[hash] = "whole"
           short == hash # Zero /\ objs[hash] = "part" /\ ~DataOf.sizeChecked
       IN  \/ /\ there \/ short
              /\ worker' = [worker EXCEPT ![w] = [@ EXCEPT !.pc = "fill", !.buf = IF short THEN Unset ELSE hash]]
              /\ NoFault /\ UNCHANGED err
           \/ /\ \/ ~there /\ ~short /\ NoFault
                 \/ Fault
              /\ WorkerError(w)
    /\ UNCHANGED <<volumeVars, storeVars, request, job, differ, work, md, handler, target, restored, gapped, restores>>

\* FillAt of a store, first half: is there an object of that name?
ObjExists(w) ==
    /\ Copying /\ job.op = "backup" /\ worker[w].pc = "fill"
    /\ \/ /\ Goto(w, IF objs[worker[w].buf] # "none" THEN "entry" ELSE "put")
          /\ NoFault /\ UNCHANGED err
       \/ Fault /\ WorkerError(w)
    /\ UNCHANGED <<volumeVars, storeVars, request, job, differ, work, md, handler, target, restored, gapped, restores>>

\* Second half: the object is put.
PutObject(w) ==
    /\ Copying /\ job.op = "backup" /\ worker[w].pc = "put"
    /\ \/ /\ objs' = [objs EXCEPT ![worker[w].buf] = "whole"]
          /\ Goto(w, "entry")
          /\ NoFault /\ UNCHANGED err
       \/ /\ Fault
          /\ \/ objs' = objs
             \/ ~ObjectsOf.putAtomic /\ objs' = [objs EXCEPT ![worker[w].buf] = "part"]
          /\ IF ObjectsOf.putReported THEN WorkerError(w) ELSE Goto(w, "entry") /\ UNCHANGED err
    /\ UNCHANGED <<volumeVars, files, recorded, request, job, differ, work, md, handler, target, restored, gapped, restores>>

\* The chunk's entry goes to the collector when there is room.
SendEntry(w) ==
    /\ Copying /\ worker[w].pc = "entry"
    /\ Len(md) < 2 * Cardinality(Worker)
    /\ md' = Append(md, [off |-> worker[w].chunk.off,
                         hash |-> IF worker[w].chunk.dirty THEN worker[w].buf ELSE worker[w].chunk.hash])
    /\ Goto(w, "idle")
    /\ NoFault
    /\ UNCHANGED <<volumeVars, storeVars, request, job, differ, work, err, handler, target, restored, gapped, restores>>

FillVolume_NoOffset(w) ==
    /\ Copying /\ job.op = "restore" /\ worker[w].pc = "fill"
    /\ target' = IF worker[w].chunk.hash = Zero THEN target ELSE [target EXCEPT ![1] = worker[w].buf]
    /\ Goto(w, "idle")
    /\ NoFault
    /\ UNCHANGED <<volumeVars, storeVars, request, job, differ, work, err, md, handler, restored, gapped, restores>>

\* FillAt of a volume that was zeroed.
FillVolume(w) ==
    /\ Copying /\ job.op = "restore" /\ worker[w].pc = "fill"
    /\ \/ /\ target' = IF worker[w].chunk.hash = Zero THEN target
                       ELSE [target EXCEPT ![worker[w].chunk.off + 1] = worker[w].buf]
          /\ Goto(w, "idle")
          /\ NoFault /\ UNCHANGED err
       \/ Fault /\ WorkerError(w) /\ UNCHANGED target
    /\ UNCHANGED <<volumeVars, storeVars, request, job, differ, work, md, handler, restored, gapped, restores>>

\* The channel is closed and empty.
WorkerEnd(w) ==
    /\ Copying /\ worker[w].pc = "idle" /\ work = <<>> /\ differ.ended
    /\ Goto(w, "gone")
    /\ NoFault
    /\ UNCHANGED <<volumeVars, storeVars, request, job, differ, work, err, md, handler, target, restored, gapped, restores>>

-----------------------------------------------------------------------------
(* The collector of metadata.                                              *)

\* The line of a clean chunk: the base's, or zeros where the base has none.
BaseLine(off) ==
    IF job.base = 0 \/ off >= Len(files[job.base].lines) THEN Zero ELSE files[job.base].lines[off + 1]

Spins(e) ==
    /\ e.hash = Unset /\ job.base # 0 /\ ~HandlerOf.stopsAtEnd
    /\ e.off >= Len(files[job.base].lines)

\* The pending entries that can be written once e is there: as many as follow
\* the lines without a hole.
Ready(map, from) ==
    {e \in map : e.off >= from /\ \A o \in from..e.off : \E f \in map : f.off = o}

HandlerReceive_AsReceived ==
    /\ handler.state = "run" /\ md # <<>>
    /\ handler' = [handler EXCEPT !.lines = Append(@, IF Head(md).hash = Unset THEN BaseLine(Len(@)) ELSE Head(md).hash)]
    /\ md' = Tail(md)
    /\ NoFault
    /\ UNCHANGED <<volumeVars, storeVars, request, job, differ, work, worker, err, target, restored, gapped, restores>>

HandlerReceive ==
    /\ handler.state = "run" /\ md # <<>>
    /\ md' = Tail(md)
    /\ LET entry == Head(md)
           map == {e \in handler.map : e.off # entry.off} \cup {entry}
           from == Len(handler.lines)
           ready == Ready(map, from)
           lineOf(o) == LET e == CHOOSE f \in ready : f.off = o
                        IN  IF e.hash = Unset THEN BaseLine(o) ELSE e.hash
       IN  \/ /\ \A e \in ready : ~Spins(e)
              /\ handler' = [handler EXCEPT
                     !.map = map \ ready,
                     !.lines = @ \o [i \in 1..Cardinality(ready) |-> lineOf(from + i - 1)]]
              /\ NoFault
           \/ /\ \E e \in ready : Spins(e)
              /\ handler' = [handler EXCEPT !.state = "spins"]
              /\ NoFault
           \/ /\ Fault                 \* the temporary file cannot be written
              /\ handler' = [handler EXCEPT !.state = "failed"]
    /\ UNCHANGED <<volumeVars, storeVars, request, job, differ, work, worker, err, target, restored, gapped, restores>>

-----------------------------------------------------------------------------
(* The end of a copy.                                                      *)

\* The process is gone: its channels, workers and collector with it.
ProcessEnds ==
    /\ job' = NoJob
    /\ differ' = NoDiffer
    /\ worker' = [w \in Worker |-> NoWork]
    /\ work' = <<>> /\ md' = <<>> /\ err' = FALSE
    /\ handler' = NoHandler

\* ReadResult: the daemon learns how the copy ended.
ReadResult(ok) ==
    IF job.op = "backup"
    THEN /\ request' = [request EXCEPT !.state = IF ok THEN "finalizing" ELSE "failed"]
         /\ UNCHANGED restored
    ELSE /\ restored' = [snap |-> job.snap, result |-> IF ok THEN "ok" ELSE "failed", synced |-> TRUE]
         /\ UNCHANGED request

AllGone == \A w \in Worker : worker[w].pc = "gone"

\* workerwg.Wait, then Done of both sides: the collector's channel is closed.
CloseCopy ==
    /\ Copying /\ differ.ended /\ AllGone
    /\ job' = [job EXCEPT !.state = "closing"]
    /\ NoFault
    /\ UNCHANGED <<volumeVars, storeVars, request, copyVars, target, restored, gapped, restores>>

\* Done of a restore's destination.  An error of the Sync is dropped, whatever
\* had been written and was not yet stored.
DoneVolume ==
    /\ job.op = "restore" /\ job.state = "closing"
    /\ \/ /\ ReadResult(~err)
          /\ NoFault /\ UNCHANGED target
       \/ /\ Fault
          /\ restored' = [snap |-> job.snap, result |-> IF err THEN "failed" ELSE "ok", synced |-> FALSE]
          /\ \E lost \in SUBSET DOMAIN target : target' = [i \in DOMAIN target |-> IF i \in lost THEN Zero ELSE target[i]]
          /\ UNCHANGED request
    /\ ProcessEnds
    /\ UNCHANGED <<volumeVars, storeVars, gapped, restores>>

\* Done of a store: the collector puts the lines it has under the snapshot's
\* name, whether the copy succeeded or not.
DoneStore ==
    /\ job.op = "backup" /\ job.state = "closing"
    /\ \/ /\ handler.state = "run" /\ md = <<>>
          /\ \/ /\ files' = [files EXCEPT ![job.snap] = Metadata(handler.lines)]
                /\ ReadResult(~err)
                /\ NoFault
             \/ /\ Fault
                /\ ReadResult(~err /\ ~HandlerOf.fileReported)
                /\ UNCHANGED files
       \/ /\ handler.state = "failed"
          /\ ReadResult(FALSE)
          /\ NoFault /\ UNCHANGED files
    /\ ProcessEnds
    /\ UNCHANGED <<volumeVars, objs, recorded, target, gapped, restores>>

\* Nothing in the process can move: its collector has left or spins, so the
\* channel to it stays full, or its end is awaited for ever.
Stuck ==
    /\ job.op = "backup"
    /\ handler.state \in {"failed", "spins"}
    /\ \/ /\ job.state = "closing" /\ handler.state = "spins"
       \/ /\ Copying
          /\ Len(md) = 2 * Cardinality(Worker)
          /\ \A w \in Worker : worker[w].pc \in {"entry", "gone"}
          /\ \E w \in Worker : worker[w].pc = "entry"

\* progress: without progress for a while the process ends itself with an error;
\* a slow store looks the same.
Abort_Never ==
    /\ job.op # "none" /\ Fault
    /\ ReadResult(FALSE) /\ ProcessEnds
    /\ UNCHANGED <<volumeVars, storeVars, target, gapped, restores>>

Abort ==
    /\ job.op # "none"
    /\ \/ Stuck /\ NoFault
       \/ Fault
    /\ ReadResult(FALSE)
    /\ ProcessEnds
    /\ UNCHANGED <<volumeVars, storeVars, target, gapped, restores>>

\* agentd restarts: the copy dies with it, a put may be half done, and the
\* request is taken up where it was.
AgentRestarts ==
    /\ job.op # "none"
    /\ Fault
    /\ objs' = [d \in Data |->
                   IF /\ ~ObjectsOf.putAtomic /\ objs[d] = "none"
                      /\ \E w \in Worker : worker[w].pc = "put" /\ worker[w].buf = d
                   THEN "part" ELSE objs[d]]
    /\ ProcessEnds
    /\ IF job.op = "restore" THEN restored' = [snap |-> job.snap, result |-> "failed", synced |-> TRUE] ELSE UNCHANGED restored
    /\ UNCHANGED <<volumeVars, files, recorded, request, target, gapped, restores>>

-----------------------------------------------------------------------------
(* The end of the request.                                                 *)

\* SnapshotCatalogUpsert puts the entry under the snapshot's name in the
\* catalog's domain; the Snapshot object is created after it.
SnapshotCreate ==
    /\ request.state = "finalizing"
    /\ files' = IF shared THEN [files EXCEPT ![request.snap] = CatalogEntry] ELSE files
    /\ \/ /\ recorded' = recorded \cup {request.snap}
          /\ request' = Idle
          /\ NoFault
       \/ Fault /\ UNCHANGED <<recorded, request>>     \* tried again later
    /\ UNCHANGED <<volumeVars, objs, job, copyVars, target, restored, gapped, restores>>

\* UNDO_SNAPSHOT_UPLOADING: SnapshotDelete does nothing.
SnapshotDelete ==
    /\ request.state = "failed"
    /\ request' = Idle
    /\ NoFault
    /\ UNCHANGED <<volumeVars, storeVars, job, copyVars, target, restored, gapped, restores>>

-----------------------------------------------------------------------------
WorkerStep(w) ==
    \/ TakeChunk(w) \/ FetchLun(w) \/ FetchObject(w) \/ ObjExists(w)
    \/ PutObject(w) \/ SendEntry(w) \/ FillVolume(w) \/ WorkerEnd(w)

DifferStep == GetNextDiffs \/ DifferSend \/ DifferEnd

MainStep == CloseCopy \/ DoneVolume \/ DoneStore \/ Abort

Next ==
    \/ \E i \in 1..Len(vol), d \in Data : Write(i, d)
    \/ Grow \/ TakeSnapshot
    \/ SnapshotBackup
    \/ \E s \in recorded : SnapshotRestore(s)
    \/ DifferStep \/ StorageBusy \/ StorageError
    \/ \E w \in Worker : WorkerStep(w)
    \/ HandlerReceive
    \/ MainStep \/ AgentRestarts
    \/ SnapshotCreate \/ SnapshotDelete

\* Every goroutine of the copy that can move does.
Fairness ==
    /\ WF_vars(DifferStep) /\ WF_vars(HandlerReceive) /\ WF_vars(MainStep)
    /\ \A w \in Worker : WF_vars(WorkerStep(w))

Spec == Init /\ [][Next]_vars /\ Fairness

-----------------------------------------------------------------------------
(***************************************************************************)
(* Properties                                                              *)
(***************************************************************************)

\* A snapshot that has its Snapshot object can be restored: its metadata names,
\* chunk by chunk, what the volume held at its point in time, and every object
\* named is in the store.  The lines come from workers in any order, from the
\* base's metadata, from objects other snapshots stored, through a volume that
\* grew, failed calls, a producer that starts again and a restarted agent.
\* Three exceptions.  Chunks that an answer of the storage process leaves out at
\* its end are dropped (nuvoendpoint.go:218, although :140-142 expects "a Clean
\* diff on the end"), from the snapshot and from those based on it.  A catalog
\* in the domain of the snapshots takes the place of their metadata.  And the
\* kinds of store that do not report a failed put, or leave a part of a file.
Recoverable ==
    kind \in {"S3", "Azure"} =>
    \A s \in recorded :
        /\ s \in gapped \/ files[s] = Metadata(pits[s]) \/ (shared /\ files[s] = CatalogEntry)
        /\ s \in gapped \/ \A i \in 1..Len(pits[s]) : pits[s][i] # Zero => objs[pits[s][i]] = "whole"

\* A restore that reports success wrote the volume as it was: nothing reports
\* success while a worker still has a chunk, and no chunk lands elsewhere.  The
\* exceptions: the snapshot lacks chunks (Recoverable), or the Sync at the end
\* failed, whose error is dropped (nuvoendpoint.go:323).
RestoreIsTrue ==
    restored.result = "ok" /\ restored.synced /\ restored.snap \notin gapped
    => target = pits[restored.snap]

\* Every copy ends: the producer notices that the workers are gone, and when
\* the collector has given up and the workers wait for it the lack of progress
\* ends the process.
Copied == job.op = "none"
\* What was copied to the store, and what was restored from it.
SnapshotsAreTrue == Recoverable /\ RestoreIsTrue
=============================================================================
