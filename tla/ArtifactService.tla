-------------------------- MODULE ArtifactService --------------------------
(***************************************************************************)
(* The artifact store of oxidepdf-web and the HTTP handlers that share it: *)
(* uploads, downloads, deletes, executions and the background sweeper.     *)
(* Every action is one critical section under the store mutex or one await *)
(* between two of them, so requests interleave wherever the server lets    *)
(* them.                                                                   *)
(*                                                                         *)
(* Sizes are small numbers.  Time is the age of each artifact since its    *)
(* last access, in sweep-sized ticks, counted up to one past ArtifactTtl.  *)
(* A fresh UUID is the next number never issued before.                    *)
(***************************************************************************)
EXTENDS Integers, Sequences, FiniteSets, FiniteSetsExt

CONSTANTS
    Clients,          \* concurrent requests in progress, one per client
    Uploads,          \* the multipart uploads clients send: Seq of file sizes
    ResultSizes,      \* the sizes an execution's output can have
    MaxUploadBytes,   \* AppState.max_upload_bytes
    MaxTotalBytes,    \* Store.max_total_bytes
    MaxArtifacts,     \* MAX_ARTIFACTS
    MaxUploadFiles,   \* MAX_UPLOAD_FILES
    MaxInputs,        \* MAX_SINGLE_INPUTS
    ArtifactTtl,      \* ARTIFACT_TTL, in ticks
    MaxRequests,      \* bound: requests accepted in a behaviour
    MaxCrashes        \* bound: times the process dies in a behaviour

ASSUME ServiceAssumption ==
    /\ {MaxUploadBytes, MaxTotalBytes, MaxArtifacts, MaxUploadFiles,
        MaxInputs, ArtifactTtl} \subseteq Nat \ {0}
    /\ {MaxRequests, MaxCrashes} \subseteq Nat
    /\ ResultSizes \subseteq Nat
    /\ Uploads \subseteq Seq(Nat)

VARIABLES
    artifacts,     \* Store.artifacts: id -> [size, seq, age]
    total_bytes,   \* Store.total_bytes
    seq,           \* AppState.seq
    issued,        \* ids given out so far, over all lives of the process
    disk,          \* files under ./upload of the stored artifacts
    left,          \* files under ./upload left by an earlier process
    request,       \* per client: the request in progress
    reply,         \* per client: the last answer
    accepted, crashes

store == <<artifacts, total_bytes, seq, issued, disk>>
vars == <<store, left, request, reply, accepted, crashes>>

Idle == [op |-> "idle"]
Stored == DOMAIN artifacts
\* The sum of a function's values on S.
Total(size, S) == MapThenSumSet(LAMBDA x : size[x], S)
Sizes(all) == [id \in DOMAIN all |-> all[id].size]
SizeSum(S) == Total(Sizes(artifacts), S)
Saturated(n) == IF n < 0 THEN 0 ELSE n

Init ==
    /\ artifacts = <<>>
    /\ total_bytes = 0
    /\ seq = 0
    /\ issued = 0
    /\ disk = {}
    /\ left = {}
    /\ request = [c \in Clients |-> Idle]
    /\ reply = [c \in Clients |-> "none"]
    /\ accepted = 0
    /\ crashes = 0

-----------------------------------------------------------------------------
(* Store.                                                                   *)

Keep(S) == artifacts' = [id \in S |-> artifacts[id]]

\* Mutant: forgets the accounting.
RemoveUncounted(S) ==
    /\ Keep(Stored \ S)
    /\ disk' = disk \ S
    /\ UNCHANGED <<total_bytes, seq, issued>>
\* Mutant: loses track of the files.
RemoveRecordOnly(S) ==
    /\ Keep(Stored \ S)
    /\ total_bytes' = Saturated(total_bytes - SizeSum(S))
    /\ UNCHANGED <<disk, seq, issued>>
\* Store::remove of every id in S; dropping a NamedTempFile deletes the file.
Remove(S) ==
    /\ Keep(Stored \ S)
    /\ total_bytes' = Saturated(total_bytes - SizeSum(S))
    /\ disk' = disk \ S
    /\ UNCHANGED <<seq, issued>>

\* Mutant: drops by last access, all artifacts of an age together.
KeepsRecent(all) ==
    {{id \in DOMAIN all : all[id].age <= n} : n \in -1..(ArtifactTtl + 1)}
\* The sets the eviction loop can stop at: what is left after dropping the
\* oldest artifacts one by one.
EvictionStops(all) ==
    {{id \in DOMAIN all : all[id].seq >= n} : n \in 0..(seq + 1)}

\* total_bytes once all but `kept` have been taken off it; the loop trusts it.
BytesLeft(all, bytes, kept) == Saturated(bytes - Total(Sizes(all), DOMAIN all \ kept))
Fits(all, bytes, kept) ==
    Cardinality(kept) <= MaxArtifacts /\ BytesLeft(all, bytes, kept) <= MaxTotalBytes
\* What the loop leaves: it stops as soon as what is left fits.
Survivors(all, bytes) ==
    CHOOSE S \in EvictionStops(all) :
        \/ S = {} /\ \A T \in EvictionStops(all) : ~Fits(all, bytes, T)
        \/ Fits(all, bytes, S) /\ \A T \in EvictionStops(all) : Fits(all, bytes, T) => T \subseteq S
Fresh(size) == [size |-> size, seq |-> seq, age |-> 0]

\* Mutant: evicts before the insertion, not after.
InsertAfterEviction(id, size) ==
    LET kept == Survivors(artifacts, total_bytes)
    IN  /\ artifacts' = [i \in kept \cup {id} |-> IF i = id THEN Fresh(size) ELSE artifacts[i]]
        /\ total_bytes' = BytesLeft(artifacts, total_bytes, kept) + size
        /\ disk' = (disk \ (Stored \ kept)) \cup {id}
\* Store::insert of a fresh id: add, then evict the oldest while there are too
\* many artifacts or too many bytes.
Insert(id, size) ==
    LET all == [i \in Stored \cup {id} |-> IF i = id THEN Fresh(size) ELSE artifacts[i]]
        kept == Survivors(all, total_bytes + size)
    IN  /\ artifacts' = [i \in kept |-> all[i]]
        /\ total_bytes' = BytesLeft(all, total_bytes + size, kept)
        /\ disk' = (disk \cup {id}) \ (DOMAIN all \ kept)

\* AppState::store_file: a fresh id, inserted with the next sequence number
\* while the lock is held.
StoreFile(size) ==
    /\ Insert(issued + 1, size)
    /\ issued' = issued + 1
    /\ seq' = seq + 1

\* Both read paths refresh last_access under the lock.
Touch(id) ==
    /\ artifacts' = [artifacts EXCEPT ![id].age = 0]
    /\ UNCHANGED <<total_bytes, seq, issued, disk>>

-----------------------------------------------------------------------------
(* Requests.                                                                *)

Accept(c, req) ==
    /\ request[c] = Idle
    /\ accepted < MaxRequests
    /\ accepted' = accepted + 1
    /\ request' = [request EXCEPT ![c] = req]
    /\ reply' = [reply EXCEPT ![c] = "none"]
    /\ UNCHANGED <<store, left, crashes>>

Answer(c, status) ==
    /\ request' = [request EXCEPT ![c] = Idle]
    /\ reply' = [reply EXCEPT ![c] = status]
    /\ UNCHANGED <<left, accepted, crashes>>

Continue(c, req) ==
    /\ request' = [request EXCEPT ![c] = req]
    /\ UNCHANGED <<left, reply, accepted, crashes>>

\* Clients only know ids the server has issued; of the lists that are too long
\* one is enough.
IdLists ==
    (UNION {[1..n -> 1..issued] : n \in 0..MaxInputs})
    \cup {[i \in 1..(MaxInputs + 1) |-> issued]}
Requests ==
    [op : {"upload"}, files : Uploads, done : {0}, phase : {"receive"}]
    \cup [op : {"get"}, id : 1..issued, phase : {"find"}]
    \cup [op : {"head", "delete"}, id : 1..issued]
    \cup [op : {"execute"}, ids : IdLists, loaded : {0}, bytes : {0}, phase : {"check"}]

AcceptRequest(c) == \E req \in Requests : Accept(c, req)

\* api_upload, streaming one file to its temp file: the file-count and size
\* limits, and an I/O error at any point.  Files already stored stay.
ReceiveFile(c) ==
    LET req == request[c] IN
    /\ req.op = "upload" /\ req.phase = "receive"
    /\ UNCHANGED store
    /\ IF req.done = Len(req.files) THEN Answer(c, "ok")
       ELSE IF req.done >= MaxUploadFiles THEN Answer(c, "bad_request")
       ELSE IF req.files[req.done + 1] > MaxUploadBytes THEN Answer(c, "bad_request")
       ELSE \/ Continue(c, [req EXCEPT !.phase = "store"])
            \/ Answer(c, "internal")

StoreUpload(c) ==
    LET req == request[c] IN
    /\ req.op = "upload" /\ req.phase = "store"
    /\ StoreFile(req.files[req.done + 1])
    /\ Continue(c, [req EXCEPT !.done = @ + 1, !.phase = "receive"])

\* open_stored_stream: find the path under the lock ...
FindFile(c) ==
    LET req == request[c] IN
    /\ req.op = "get" /\ req.phase = "find"
    /\ IF req.id \in Stored
       THEN Touch(req.id) /\ Continue(c, [req EXCEPT !.phase = "open"])
       ELSE UNCHANGED store /\ Answer(c, "not_found")

\* ... and open it without.  An open file outlives its deletion.
OpenFile(c) ==
    LET req == request[c] IN
    /\ req.op = "get" /\ req.phase = "open"
    /\ Answer(c, IF req.id \in disk THEN "ok" ELSE "internal")
    /\ UNCHANGED store

HeadFile(c) ==
    LET req == request[c] IN
    /\ req.op = "head"
    /\ IF req.id \in Stored
       THEN Touch(req.id) /\ Answer(c, "ok")
       ELSE UNCHANGED store /\ Answer(c, "not_found")

DeleteFile(c) ==
    LET req == request[c] IN
    /\ req.op = "delete"
    /\ IF req.id \in Stored
       THEN Remove({req.id}) /\ Answer(c, "ok")
       ELSE UNCHANGED store /\ Answer(c, "not_found")

\* Mutant: counts an artifact listed twice once.
RequestedBytesDistinct(ids, n) ==
    SizeSum({ids[i] : i \in 1..n})
RequestedBytes(ids, n) ==
    Total([i \in 1..n |-> artifacts[ids[i]].size], 1..n)
\* api_execute_single: validate_single_request, then enforce_total_stored_size
\* in one critical section, going through the ids in order.
CheckInputs(c) ==
    LET req == request[c]
        n == Len(req.ids)
        missing == {i \in 1..n : req.ids[i] \notin Stored}
        present == IF missing = {} THEN n ELSE Min(missing) - 1
    IN  /\ req.op = "execute" /\ req.phase = "check"
        /\ UNCHANGED store
        /\ IF n = 0 \/ n > MaxInputs THEN Answer(c, "bad_request")
           ELSE IF RequestedBytes(req.ids, present) > MaxUploadBytes THEN Answer(c, "too_large")
           ELSE IF missing # {} THEN Answer(c, "not_found")
           ELSE Continue(c, [req EXCEPT !.phase = "find"])

\* read_stored of the next input, in the same two steps as a download.
FindInput(c) ==
    LET req == request[c]
        id == req.ids[req.loaded + 1]
    IN  /\ req.op = "execute" /\ req.phase = "find"
        /\ IF id \in Stored
           THEN Touch(id) /\ Continue(c, [req EXCEPT !.phase = "read",
                                                     !.bytes = @ + artifacts[id].size])
           ELSE UNCHANGED store /\ Answer(c, "not_found")

ReadInput(c) ==
    LET req == request[c]
        id == req.ids[req.loaded + 1]
        more == req.loaded + 1 < Len(req.ids)
    IN  /\ req.op = "execute" /\ req.phase = "read"
        /\ UNCHANGED store
        /\ IF id \in disk
           THEN Continue(c, [req EXCEPT !.loaded = @ + 1,
                                        !.phase = IF more THEN "find" ELSE "run"])
           ELSE Answer(c, "internal")

\* run_workflow, then the output written to a temp file under the output limit.
\* An output over the limit is an I/O error here, hence an internal error.
RunRequest(c) ==
    LET req == request[c] IN
    /\ req.op = "execute" /\ req.phase = "run"
    /\ UNCHANGED store
    /\ \/ \E size \in ResultSizes :
              IF size <= MaxUploadBytes
              THEN Continue(c, [op |-> "execute", phase |-> "store", size |-> size])
              ELSE Answer(c, "internal")
       \/ \E status \in {"bad_request", "too_large", "internal"} : Answer(c, status)

StoreResult(c) ==
    LET req == request[c] IN
    /\ req.op = "execute" /\ req.phase = "store"
    /\ StoreFile(req.size)
    /\ Answer(c, "ok")

Handle(c) ==
    \/ ReceiveFile(c) \/ StoreUpload(c)
    \/ FindFile(c) \/ OpenFile(c) \/ HeadFile(c) \/ DeleteFile(c)
    \/ CheckInputs(c) \/ FindInput(c) \/ ReadInput(c) \/ RunRequest(c) \/ StoreResult(c)

-----------------------------------------------------------------------------
(* Time, the sweeper and the process.                                       *)

Tick ==
    /\ \E id \in Stored : artifacts[id].age <= ArtifactTtl
    /\ artifacts' = [id \in Stored |->
           IF artifacts[id].age > ArtifactTtl THEN artifacts[id]
           ELSE [artifacts[id] EXCEPT !.age = @ + 1]]
    /\ UNCHANGED <<total_bytes, seq, issued, disk, left, request, reply, accepted, crashes>>

\* Store::sweep_expired, run by spawn_sweeper.
Stale == {id \in Stored : artifacts[id].age > ArtifactTtl}
Sweep ==
    /\ Stale # {}
    /\ Remove(Stale)
    /\ UNCHANGED <<left, request, reply, accepted, crashes>>

\* The process is killed and started again: main installs no shutdown handler,
\* so no NamedTempFile is dropped, and nothing looks at ./upload on start-up.
Crash ==
    /\ crashes < MaxCrashes
    /\ crashes' = crashes + 1
    /\ artifacts' = <<>>
    /\ total_bytes' = 0
    /\ seq' = 0
    /\ left' = left \cup disk
    /\ disk' = {}
    /\ request' = [c \in Clients |-> Idle]
    /\ reply' = [c \in Clients |-> "none"]
    /\ UNCHANGED <<issued, accepted>>

Next ==
    \/ \E c \in Clients : AcceptRequest(c) \/ Handle(c)
    \/ Tick
    \/ Sweep
    \/ Crash

Spec == Init /\ [][Next]_vars

\* The clock runs and the sweeper's interval fires; clients promise nothing.
FairSpec == Spec /\ WF_vars(Tick) /\ WF_vars(Sweep)

-----------------------------------------------------------------------------
(* Properties.                                                              *)

Replies == {"none", "ok", "not_found", "bad_request", "too_large", "internal"}

\* Types of the store, and what each artifact on record looks like.
TypeOK ==
    /\ Stored \subseteq 1..issued
    /\ \A id \in Stored :
           artifacts[id] \in [size : Nat, seq : 0..(seq - 1), age : 0..(ArtifactTtl + 1)]
    /\ {total_bytes, seq, issued, accepted, crashes} \subseteq Nat
    /\ disk \cup left \subseteq 1..issued
    /\ \A c \in Clients : request[c].op \in {"idle", "upload", "get", "head", "delete", "execute"}
    /\ reply \in [Clients -> Replies]

\* total_bytes is the size of what is stored, and the store is within both caps
\* whenever the lock is free, whatever mix of uploads, results, deletes and
\* sweeps went before.
AccountedWithinCaps ==
    /\ total_bytes = SizeSum(Stored)
    /\ total_bytes <= MaxTotalBytes
    /\ Cardinality(Stored) <= MaxArtifacts

\* Storing evicts the oldest and no more of them than the caps ask for: what
\* survives is newer than what goes, and with the youngest victim kept the
\* store would not have fitted.  Only a file larger than the whole store goes
\* itself, and takes everything with it.
EvictsOldestFirst ==
    [][issued' = issued + 1 =>
        LET gone == Stored \ DOMAIN artifacts'
            kept == DOMAIN artifacts' IN
        /\ \A x \in gone : \A y \in kept : artifacts[x].seq < artifacts'[y].seq
        /\ issued' \notin kept => kept = {}
        /\ \A x \in gone : (\A z \in gone : artifacts[z].seq <= artifacts[x].seq) =>
               \/ issued' \notin kept
               \/ Cardinality(kept) + 1 > MaxArtifacts
               \/ total_bytes' + artifacts[x].size > MaxTotalBytes]_vars

\* An execution never holds more input bytes than the limit, although the check
\* and each read take the lock separately and artifacts come and go between.
LoadedWithinLimit ==
    \A c \in Clients :
        request[c].op = "execute" /\ request[c].phase \in {"find", "read", "run"} =>
            request[c].bytes <= MaxUploadBytes

\* Records and files go together: a request past its lookup fails to open the
\* file only if the artifact has been removed since (read_stored's doc), and no
\* removed artifact leaves its file behind.
FilesMatchRecords == disk = Stored

\* README: uploaded and produced files are held under ./upload and evicted
\* automatically, oldest first past the file cap.
FilesWithinCap == Cardinality(disk \cup left) <= MaxArtifacts

\* Idle uploads do not linger: once the clients have gone quiet, the store and
\* the files this process wrote drain.
Drains == <>[](Stored = {} /\ disk = {})
=============================================================================
