------------------------------ MODULE Transfer ------------------------------
(***************************************************************************)
(* Blob transfer of a client, for one path of its directory:               *)
(*   internal/client/transfer/download.go   <rel>.partial, then renamed    *)
(*   internal/client/transfer/upload.go     hash, HEAD, PUT                *)
(*   internal/client/runner/app.go          a goroutine per fetch, uploads *)
(*                                          one after another              *)
(*   internal/watcher                       reports what changes           *)
(*   internal/clientfs/jail.go              Create, Rename, Remove         *)
(*   internal/server/http/blobs.go          the other end                  *)
(*                                                                         *)
(* The file system has names and inodes, since a file that is open can be  *)
(* renamed or unlinked.  A file is a sequence of blocks; a hash is the     *)
(* content it stands for.  The pair is rooted at the client's root, and    *)
(* suppressTTL does not end (FileSync has both).                           *)
(***************************************************************************)
EXTENDS Naturals, Sequences, FiniteSets

CONSTANTS
    Fetches,    \* the fetch commands of the path, a goroutine each
    Remote,     \* contents the server has: blocks of a content are equal
    Wanted,     \* the content that each command asks for
    Local,      \* contents the user may write
    Size,       \* blocks of a content
    Hole,       \* a block nobody has written
    Overlap,    \* two fetches of the path may run at the same time
    MaxEdits,   \* bound: edits of the user
    MaxFaults   \* bound: broken transfers, wrong bytes and crashes

ASSUME TransferAssumption ==
    /\ IsFiniteSet(Fetches) /\ IsFiniteSet(Remote) /\ IsFiniteSet(Local)
    /\ Wanted \in [Fetches -> Remote]
    /\ Remote \cap Local = {}
    /\ Hole \notin Remote \cup Local /\ "none" \notin Remote \cup Local
    /\ Size \in Nat \ {0} /\ Overlap \in BOOLEAN
    /\ MaxEdits \in Nat /\ MaxFaults \in Nat

VARIABLES
    name,      \* the inode of each name, 0 for none
    data,      \* the content of each inode
    fetch,     \* Download, per fetch: where it is, what it gets, its file
    up,        \* handleLocalChange and Upload
    dirty,     \* operations the watcher has not processed, per name
    hashes,    \* Watcher.fileHashes
    blobs,     \* contents in the blob store
    told,      \* history: the content of the last event sent for the file
    edits,     \* history: contents the user has written
    faults

local == <<name, data, dirty>>
server == <<blobs, told>>
vars == <<local, fetch, up, hashes, server, edits, faults>>

-----------------------------------------------------------------------------
Names == {"file", "partial"}
NoSha == <<"none">>
Empty == << >>
Whole(c) == [i \in 1..Size |-> c]

\* One inode for each name, each fetch and the upload are always enough.
Inodes == 1..(Cardinality(Fetches) + 3)
InUse == {name[n] : n \in Names} \cup {fetch[f].fd : f \in Fetches} \cup {up.fd}
FreeInode == CHOOSE i \in Inodes : i \notin InUse

Exists(n) == name[n] # 0
Content(n) == IF Exists(n) THEN data[name[n]] ELSE NoSha

\* The file with block b written at position p; a gap before p reads as Hole.
WriteAt(file, p, b) ==
    [i \in 1..(IF Len(file) > p THEN Len(file) ELSE p) |->
        IF i = p THEN b ELSE IF i <= Len(file) THEN file[i] ELSE Hole]

Active(f) == fetch[f].pc \notin {"idle", "ok", "failed"}

NoFetch == [pc |-> "idle", body |-> NoSha, fd |-> 0, pos |-> 0]
NoUpload == [pc |-> "idle", name |-> "file", ev |-> NoSha, sha |-> NoSha, fd |-> 0,
             stream |-> Empty]

Init ==
    /\ name = [n \in Names |-> 0]
    /\ data = [i \in Inodes |-> Empty]
    /\ fetch = [f \in Fetches |-> NoFetch]
    /\ up = NoUpload
    /\ dirty = [n \in Names |-> {}]
    /\ hashes = [n \in Names |-> NoSha]
    /\ blobs = {Whole(c) : c \in Remote}
    /\ told = NoSha
    /\ edits = {}
    /\ faults = 0

Fault == faults < MaxFaults /\ faults' = faults + 1

\* fsnotify reports an operation on n.
Notify(n, op) == dirty' = [dirty EXCEPT ![n] = @ \cup {op}]

-----------------------------------------------------------------------------
(* Download of fetch f.                                                    *)

Goto(f, pc) == fetch' = [fetch EXCEPT ![f].pc = pc]

\* Download ends; its file is closed.
Return(f, result) == fetch' = [fetch EXCEPT ![f] = [NoFetch EXCEPT !.pc = result]]

\* handleSyncCommand for a fetch, which also suppresses the hash.
Begin(f) ==
    /\ fetch[f].pc = "idle"
    /\ Overlap \/ \A g \in Fetches : ~Active(g)
    /\ Goto(f, "stat")
    /\ UNCHANGED <<local, up, hashes, server, edits, faults>>

\* Faulty variant: a file that is there belongs to a download that goes on.
StatPartialBusy(f) ==
    /\ fetch[f].pc = "stat"
    /\ IF Exists("partial") THEN Return(f, "failed") ELSE Goto(f, "get")
    /\ UNCHANGED <<local, up, hashes, server, edits, faults>>

StatPartial(f) ==
    /\ fetch[f].pc = "stat"
    /\ Goto(f, IF Exists("partial") THEN "remove" ELSE "get")
    /\ UNCHANGED <<local, up, hashes, server, edits, faults>>

\* A partial file that is gone meanwhile is an error.
RemovePartial(f) ==
    /\ fetch[f].pc = "remove"
    /\ IF Exists("partial")
       THEN /\ name' = [name EXCEPT !["partial"] = 0]
            /\ Notify("partial", "remove")
            /\ Goto(f, "get")
       ELSE Return(f, "failed") /\ UNCHANGED <<name, dirty>>
    /\ UNCHANGED <<data, up, hashes, server, edits, faults>>

\* The GET request: the blob, or wrong bytes.
Get(f) ==
    /\ fetch[f].pc = "get"
    /\ \E c \in Remote :
        /\ fetch' = [fetch EXCEPT ![f].pc = "create", ![f].body = Whole(c)]
        /\ IF c = Wanted[f] THEN UNCHANGED faults ELSE Fault
    /\ UNCHANGED <<local, up, hashes, server, edits>>

\* Faulty variant: the download writes to the file itself.
CreatePartialInPlace(f) ==
    LET i == IF Exists("file") THEN name["file"] ELSE FreeInode IN
    /\ fetch[f].pc = "create"
    /\ name' = [name EXCEPT !["file"] = i, !["partial"] = i]
    /\ data' = [data EXCEPT ![i] = Empty]
    /\ Notify("file", "write")
    /\ fetch' = [fetch EXCEPT ![f].pc = "copy", ![f].fd = i, ![f].pos = 0]
    /\ UNCHANGED <<up, hashes, server, edits, faults>>

\* Jail.Create: O_CREATE|O_TRUNC, so a file that is there is emptied.
CreatePartial(f) ==
    LET i == IF Exists("partial") THEN name["partial"] ELSE FreeInode IN
    /\ fetch[f].pc = "create"
    /\ name' = [name EXCEPT !["partial"] = i]
    /\ data' = [data EXCEPT ![i] = Empty]
    /\ Notify("partial", "write")
    /\ fetch' = [fetch EXCEPT ![f].pc = "copy", ![f].fd = i, ![f].pos = 0]
    /\ UNCHANGED <<up, hashes, server, edits, faults>>

\* The names that point to the file a fetch writes to.
NamesOf(i) == {n \in Names : name[n] = i}

\* io.Copy, block by block.
Copy(f) ==
    LET d == fetch[f] IN
    /\ d.pc = "copy" /\ d.pos < Len(d.body)
    /\ data' = [data EXCEPT ![d.fd] = WriteAt(@, d.pos + 1, d.body[d.pos + 1])]
    /\ dirty' = [n \in Names |->
                   IF n \in NamesOf(d.fd) THEN dirty[n] \cup {"write"} ELSE dirty[n]]
    /\ fetch' = [fetch EXCEPT ![f].pos = @ + 1]
    /\ UNCHANGED <<name, up, hashes, server, edits, faults>>

\* Faulty variant: the hash is not compared.
RenamePartialUnchecked(f) ==
    /\ fetch[f].pc = "copy" /\ fetch[f].pos = Len(fetch[f].body)
    /\ IF Exists("partial")
       THEN /\ name' = [name EXCEPT !["file"] = name["partial"], !["partial"] = 0]
            /\ dirty' = [file |-> dirty["file"] \cup {"write"},
                          partial |-> dirty["partial"] \cup {"remove"}]
            /\ Return(f, "ok")
       ELSE Return(f, "failed") /\ UNCHANGED <<name, dirty>>
    /\ UNCHANGED <<data, up, hashes, server, edits, faults>>

\* The hash of what was copied is compared, and the partial file renamed.
RenamePartial(f) ==
    /\ fetch[f].pc = "copy" /\ fetch[f].pos = Len(fetch[f].body)
    /\ IF fetch[f].body = Whole(Wanted[f]) /\ Exists("partial")
       THEN /\ name' = [name EXCEPT !["file"] = name["partial"], !["partial"] = 0]
            /\ dirty' = [file |-> dirty["file"] \cup {"write"},
                          partial |-> dirty["partial"] \cup {"remove"}]
            /\ Return(f, "ok")
       ELSE Return(f, "failed") /\ UNCHANGED <<name, dirty>>
    /\ UNCHANGED <<data, up, hashes, server, edits, faults>>

\* The transfer breaks; the partial file stays.
DownloadFails(f) ==
    /\ fetch[f].pc \in {"get", "copy"} /\ Fault
    /\ Return(f, "failed")
    /\ UNCHANGED <<local, up, hashes, server, edits>>

Download(f) ==
    \/ StatPartial(f) \/ RemovePartial(f) \/ CreatePartial(f) \/ Copy(f)
    \/ RenamePartial(f)

-----------------------------------------------------------------------------
(* The watcher, handleLocalChange and Upload.                              *)

\* HitWithSHA: a fetch has registered the hash, for the path itself only.
Suppressed(n, c) ==
    /\ n = "file"
    /\ \E f \in Fetches : fetch[f].pc # "idle" /\ Whole(Wanted[f]) = c

\* processEvent and the first part of handleLocalChange.  The upload starts
\* when the one before it is over; a removal (of the partial file) is sent at once.
Watch(n) ==
    /\ dirty[n] # {} /\ up.pc = "idle"
    /\ dirty' = [dirty EXCEPT ![n] = {}]
    /\ IF "write" \in dirty[n]
       THEN /\ hashes' = IF Exists(n) THEN [hashes EXCEPT ![n] = Content(n)] ELSE hashes
            /\ up' = IF Content(n) \in {NoSha, hashes[n]} \/ Suppressed(n, Content(n)) THEN up
                     ELSE [NoUpload EXCEPT !.pc = "hash", !.name = n, !.ev = Content(n)]
       ELSE hashes' = [hashes EXCEPT ![n] = NoSha] /\ UNCHANGED up
    /\ UNCHANGED <<name, data, fetch, server, edits, faults>>

\* Faulty variant: the watcher takes over the hash of the upload.
ComputeSHARemembers ==
    /\ up.pc = "hash"
    /\ up' = IF Exists(up.name) THEN [up EXCEPT !.pc = "head", !.sha = Content(up.name)]
             ELSE NoUpload
    /\ hashes' = [hashes EXCEPT ![up.name] = Content(up.name)]
    /\ UNCHANGED <<local, fetch, server, edits, faults>>

\* computeSHA; a file that is gone is an error.
ComputeSHA ==
    /\ up.pc = "hash"
    /\ up' = IF Exists(up.name) THEN [up EXCEPT !.pc = "head", !.sha = Content(up.name)]
             ELSE NoUpload
    /\ UNCHANGED <<local, fetch, hashes, server, edits, faults>>

\* headBlob: a content the server has is not sent again.
HeadBlob ==
    /\ up.pc = "head"
    /\ up' = [up EXCEPT !.pc = IF up.sha \in blobs THEN "send" ELSE "open"]
    /\ UNCHANGED <<local, fetch, hashes, server, edits, faults>>

Open ==
    /\ up.pc = "open"
    /\ up' = IF Exists(up.name) THEN [up EXCEPT !.pc = "put", !.fd = name[up.name]]
             ELSE NoUpload
    /\ UNCHANGED <<local, fetch, hashes, server, edits, faults>>

\* putBlob: as many blocks as the hash was computed of, or the end of the file.
PutBlock ==
    LET p == Len(up.stream) + 1 IN
    /\ up.pc = "put" /\ Len(up.stream) < Len(up.sha) /\ p <= Len(data[up.fd])
    /\ up' = [up EXCEPT !.stream = Append(@, data[up.fd][p])]
    /\ UNCHANGED <<local, fetch, hashes, server, edits, faults>>

\* What the server makes of it: a body without bytes has no length (411), one
\* that is too short breaks the request, another hash is refused (422).
Accepts == up.sha # Empty /\ up.stream = up.sha

\* Faulty variant: the file stays open.
PutBlobLeaks ==
    /\ up.pc = "put"
    /\ Len(up.stream) = Len(up.sha) \/ Len(up.stream) >= Len(data[up.fd])
    /\ blobs' = IF Accepts THEN blobs \cup {up.sha} ELSE blobs
    /\ up' = IF Accepts THEN [up EXCEPT !.pc = "send"] ELSE NoUpload
    /\ UNCHANGED <<local, fetch, hashes, told, edits, faults>>

PutBlob ==
    /\ up.pc = "put"
    /\ Len(up.stream) = Len(up.sha) \/ Len(up.stream) >= Len(data[up.fd])
    /\ blobs' = IF Accepts THEN blobs \cup {up.sha} ELSE blobs
    /\ up' = IF Accepts THEN [up EXCEPT !.pc = "send", !.fd = 0] ELSE NoUpload
    /\ UNCHANGED <<local, fetch, hashes, told, edits, faults>>

\* A request fails: no event.
UploadFails ==
    /\ up.pc \in {"head", "put"} /\ Fault
    /\ up' = NoUpload
    /\ UNCHANGED <<local, fetch, hashes, server, edits>>

\* The event has the hash that the watcher computed.
SendEvent ==
    /\ up.pc = "send"
    /\ told' = IF up.name = "file" THEN up.ev ELSE told
    /\ up' = NoUpload
    /\ UNCHANGED <<local, fetch, hashes, blobs, edits, faults>>

Upload == ComputeSHA \/ HeadBlob \/ Open \/ PutBlock \/ PutBlob \/ SendEvent

-----------------------------------------------------------------------------
\* The user writes the file, in place if it is there, or empties it.
Edit(c) ==
    LET i == IF Exists("file") THEN name["file"] ELSE FreeInode IN
    /\ Cardinality(edits) < MaxEdits /\ c \notin edits
    /\ name' = [name EXCEPT !["file"] = i]
    /\ data' = [data EXCEPT ![i] = c]
    /\ Notify("file", "write")
    /\ edits' = edits \cup {c}
    /\ UNCHANGED <<fetch, up, hashes, server, faults>>

\* The client process ends and starts again; files stay as they are.
Crash ==
    /\ Fault
    /\ fetch' = [f \in Fetches |->
                    IF Active(f) THEN [NoFetch EXCEPT !.pc = "failed"] ELSE fetch[f]]
    /\ up' = NoUpload
    /\ dirty' = [n \in Names |-> {}]
    /\ hashes' = [n \in Names |-> NoSha]
    /\ UNCHANGED <<name, data, server, edits>>

Edits == {Whole(c) : c \in Local} \cup {Empty}

Next ==
    \/ \E f \in Fetches : Download(f) \/ Get(f) \/ DownloadFails(f) \/ Begin(f)
    \/ \E n \in Names : Watch(n)
    \/ Upload \/ UploadFails \/ Crash
    \/ \E c \in Edits : Edit(c)

Spec == Init /\ [][Next]_vars

\* A download goes on, and the server answers.
FairSpec == Spec /\ \A f \in Fetches : WF_vars(Download(f) \/ Get(f))

-----------------------------------------------------------------------------
Block == Remote \cup Local \cup {Hole}
Contents == Seq(Block) \cup {NoSha}
DownloadState ==
    [pc : {"idle", "stat", "remove", "get", "create", "copy", "ok", "failed"},
     body : Contents, fd : Inodes \cup {0}, pos : 0..Size]
UploadState ==
    [pc : {"idle", "hash", "head", "open", "put", "send"}, name : Names,
     ev : Contents, sha : Contents, fd : Inodes \cup {0}, stream : Seq(Block)]

\* Type invariant; a file is open exactly while it is copied or uploaded.
TypeOK ==
    /\ name \in [Names -> Inodes \cup {0}]
    /\ data \in [Inodes -> Seq(Block)] /\ \A i \in Inodes : Len(data[i]) <= Size
    /\ fetch \in [Fetches -> DownloadState]
    /\ \A f \in Fetches : fetch[f].fd \in Inodes <=> fetch[f].pc = "copy"
    /\ up \in UploadState
    /\ up.fd \in Inodes <=> up.pc = "put"
    /\ dirty \in [Names -> SUBSET {"write", "remove"}]
    /\ hashes \in [Names -> Contents] /\ told \in Contents
    /\ edits \subseteq Edits /\ faults \in 0..MaxFaults

\* Nobody ever sees a torn file under its own name: it has the whole of a
\* content, or what the user wrote, whichever download breaks or is cut off by
\* a crash (download.go:17, spec.md:30).
FileWhole ==
    Exists("file") => Content("file") \in edits \cup {Whole(c) : c \in Remote}

\* A fetch that is acknowledged has left its own content in the file.
AckMeansWritten ==
    [][\A f \in Fetches : fetch[f].pc # "ok" /\ fetch'[f].pc = "ok"
           => Content("file")' = Whole(Wanted[f])]_vars

\* Once nothing of the file is left to process, the last event told of the
\* content that is in it and the server has that content, though the file may
\* change after the watcher's hash, after the upload's own hash and while it is
\* read (upload.go:21, runner/app.go:228).  It holds for contents of the user
\* that are new and not empty, and as long as nothing broke: a change whose
\* upload failed is not reported again.
SettledIsReported ==
    faults = 0 /\ dirty["file"] = {} /\ up.pc = "idle" /\ Content("file") \in edits \ {Empty}
        => told = Content("file") /\ told \in blobs

\* What earlier downloads left behind is no obstacle: a fetch that starts after
\* the last fault succeeds.
FetchSucceeds ==
    \A f \in Fetches : fetch[f].pc = "stat" /\ faults = MaxFaults ~> fetch[f].pc = "ok"

\* The client uploads and reports writes of the user only, and not what it
\* writes itself (spec.md:31).
OwnWritesSilent == up.pc = "send" => up.ev \in edits

-----------------------------------------------------------------------------
(* The inductive invariant behind the safety properties.                   *)

\* What a fetch has got is the whole of a content.
BodyInv ==
    \A f \in Fetches : fetch[f].pc \in {"create", "copy"} =>
        \E c \in Remote : fetch[f].body = Whole(c)

\* Fetches that do not overlap have the partial file to themselves.
SerialInv == \A f, g \in Fetches : Active(f) /\ Active(g) => f = g

\* The partial file is not the file, and holds what was copied so far.
PartialInv ==
    /\ Exists("file") => name["file"] # name["partial"]
    /\ \A f \in Fetches : fetch[f].pc = "copy" =>
        /\ fetch[f].fd = name["partial"]
        /\ Len(data[fetch[f].fd]) = fetch[f].pos
        /\ \A i \in 1..fetch[f].pos : data[fetch[f].fd][i] = fetch[f].body[i]

\* The upload of content c of the file, as far as it has come.
Reporting(c) ==
    /\ up.pc # "idle" /\ up.name = "file" /\ up.ev = c
    /\ up.pc # "hash" => up.sha = c
    /\ Len(up.stream) <= Len(c) /\ \A i \in 1..Len(up.stream) : up.stream[i] = c[i]
    /\ up.pc = "put" => up.fd = name["file"]
    /\ up.pc = "send" => c \in blobs

Reported(c) == told = c /\ c \in blobs /\ (up.pc = "idle" \/ up.name # "file")

\* What the user wrote is still to be watched, and then differs from the hash
\* that the watcher has, is being uploaded, or was reported.
ReportInv ==
    LET c == Content("file") IN
    /\ dirty["file"] \subseteq {"write"}
    /\ hashes["file"] \in Edits => hashes["file"] \in edits
    /\ c \in edits \ {Empty} =>
        IF dirty["file"] = {} THEN Reporting(c) \/ Reported(c) ELSE hashes["file"] # c

IInv ==
    /\ TypeOK /\ BodyInv
    /\ Overlap \/ (SerialInv /\ PartialInv /\ FileWhole /\ (faults = 0 => ReportInv))
=============================================================================
