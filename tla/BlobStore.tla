----------------------------- MODULE BlobStore -----------------------------
(***************************************************************************)
(* The content-addressed blob store (internal/server/blobstore), the PUT   *)
(* and HEAD handlers in front of it (internal/server/http/blobs.go), the   *)
(* upload a client makes before it reports a change                        *)
(* (internal/client/transfer/upload.go), and the garbage collector.        *)
(*                                                                         *)
(* A file is a sequence of chunks, each the right chunk of some blob at    *)
(* its place or Junk; a blob has Len chunks, and its hash matches exactly  *)
(* when all of them are its own.  A worker is the upload of one file by    *)
(* one client and the HTTP request that serves it.  A crash of the server  *)
(* loses the requests and keeps the files.  Request validation, the quota  *)
(* and the response codes are left out.                                    *)
(***************************************************************************)
EXTENDS Integers, Sequences

CONSTANTS
    Workers,   \* uploads in progress at once
    Shas,      \* hashes
    NoSha,     \* a file_state row without a hash
    Junk,      \* a chunk of other content, or a hole
    Free,      \* FS.mu is not held
    Size       \* chunks of a blob

ASSUME BlobAssumption ==
    /\ NoSha \notin Shas /\ Junk \notin Shas /\ Free \notin Workers
    /\ Size \in Nat \ {0}

VARIABLES
    stored,     \* the hashes with a file blobs/xx/<sha>
    content,    \* what that file holds
    old,        \* stored blobs older than blob_gc_age_seconds
    partial,    \* what <sha>.partial holds; << >> if it is empty or absent
    mu,         \* FS.mu
    pc, sha, mode, pos, stream,   \* locals of the uploads
    fresh,      \* history: this upload wrote the blob itself
    row,        \* file_state: the hash in the row of each side
    gcPc, refs, garbage           \* locals of RunGCLoop

files == <<stored, content, old, partial>>
upload == <<pc, sha, mode, pos, stream, fresh>>
gcVars == <<gcPc, refs, garbage>>
vars == <<files, mu, upload, row, gcVars>>

-----------------------------------------------------------------------------
Sides == {"a", "b"}
File == Seq(Shas \cup {Junk})

Whole(s) == [i \in 1..Size |-> s]

\* Write chunk c at offset p (counted from 0); a gap reads as zeroes.
WriteAt(f, p, c) ==
    [i \in 1..(IF p + 1 > Len(f) THEN p + 1 ELSE Len(f)) |->
        IF i = p + 1 THEN c
        ELSE IF i <= Len(f) THEN f[i] ELSE Junk]

Init ==
    /\ stored = {}
    /\ content = [s \in Shas |-> << >>]
    /\ old = {}
    /\ partial = [s \in Shas |-> << >>]
    /\ mu = Free
    /\ pc = [w \in Workers |-> "idle"]
    /\ sha = [w \in Workers |-> NoSha]
    /\ mode = [w \in Workers |-> "put"]
    /\ pos = [w \in Workers |-> 0]
    /\ stream = [w \in Workers |-> << >>]
    /\ fresh = [w \in Workers |-> FALSE]
    /\ row = [s \in Sides |-> NoSha]
    /\ gcPc = "idle"
    /\ refs = {}
    /\ garbage = {}

-----------------------------------------------------------------------------
(* Transfer.Upload and handlePUT.                                          *)

\* The upload has ended, well or not: nothing of it is kept in memory.
Reset(w) ==
    /\ pc' = [pc EXCEPT ![w] = "idle"]
    /\ sha' = [sha EXCEPT ![w] = NoSha]
    /\ mode' = [mode EXCEPT ![w] = "put"]
    /\ pos' = [pos EXCEPT ![w] = 0]
    /\ stream' = [stream EXCEPT ![w] = << >>]
    /\ fresh' = [fresh EXCEPT ![w] = FALSE]

\* headBlob: a blob the server already has is not sent again.
HeadBlob(w, s) ==
    /\ pc[w] = "idle"
    /\ sha' = [sha EXCEPT ![w] = s]
    /\ pc' = [pc EXCEPT ![w] = IF s \in stored THEN "uploaded" ELSE "put"]
    /\ UNCHANGED <<files, mu, mode, pos, stream, fresh, row, gcVars>>

\* FS.Put: under the mutex, return if the blob exists, else truncate .partial.
Put(w) ==
    /\ pc[w] = "put" /\ mu = Free
    /\ IF sha[w] \in stored
       THEN /\ pc' = [pc EXCEPT ![w] = "uploaded"]
            /\ UNCHANGED <<mu, partial>>
       ELSE /\ mu' = w
            /\ partial' = [partial EXCEPT ![sha[w]] = << >>]
            /\ pc' = [pc EXCEPT ![w] = "copy"]
    /\ UNCHANGED <<stored, content, old, sha, mode, pos, stream, fresh, row, gcVars>>

\* FS.PutRange: write into .partial from an offset, whatever it holds.
PutRange(w, s, offset) ==
    /\ pc[w] = "idle" /\ mu = Free
    /\ mu' = w
    /\ sha' = [sha EXCEPT ![w] = s]
    /\ mode' = [mode EXCEPT ![w] = "range"]
    /\ pos' = [pos EXCEPT ![w] = offset]
    /\ pc' = [pc EXCEPT ![w] = "copy"]
    /\ UNCHANGED <<files, stream, fresh, row, gcVars>>

\* copyWithHash takes the next chunk of the body.  The client's file may have
\* changed since its hash was computed, so the chunk may be any.
Copy(w, c) ==
    /\ pc[w] = "copy" /\ pos[w] <= Size
    /\ partial' = [partial EXCEPT ![sha[w]] = WriteAt(@, pos[w], c)]
    /\ pos' = [pos EXCEPT ![w] = @ + 1]
    /\ stream' = [stream EXCEPT ![w] = Append(@, c)]
    /\ UNCHANGED <<stored, content, old, mu, pc, sha, mode, fresh, row, gcVars>>

\* Faulty variant: the error path returns without unlocking FS.mu.
CopyErrorKeepsLock(w) ==
    /\ pc[w] = "copy"
    /\ partial' = IF mode[w] = "put" THEN [partial EXCEPT ![sha[w]] = << >>] ELSE partial
    /\ Reset(w)
    /\ UNCHANGED <<stored, content, old, mu, row, gcVars>>

\* The body breaks off, or the disk is full.  Put removes .partial, PutRange
\* keeps it for the next attempt.
CopyError(w) ==
    /\ pc[w] = "copy"
    /\ partial' = IF mode[w] = "put" THEN [partial EXCEPT ![sha[w]] = << >>] ELSE partial
    /\ mu' = Free
    /\ Reset(w)
    /\ UNCHANGED <<stored, content, old, row, gcVars>>

\* Faulty variant: PutRange trusts the hash of the bytes of this request.
VerifiedSizeOnly(w) ==
    IF mode[w] = "put" THEN stream[w] = Whole(sha[w]) ELSE pos[w] = Size

\* The checks at the end of the body.  Put compares the hash of the bytes it
\* has copied, PutRange hashes the file again.
Verified(w) ==
    IF mode[w] = "put" THEN stream[w] = Whole(sha[w])
    ELSE pos[w] = Size /\ partial[sha[w]] = Whole(sha[w])

\* Rename .partial into place, still under the mutex.
Commit(w) ==
    /\ pc[w] = "copy" /\ stream[w] # << >> /\ Verified(w)
    /\ content' = [content EXCEPT ![sha[w]] = partial[sha[w]]]
    /\ stored' = stored \cup {sha[w]}
    /\ old' = old \ {sha[w]}
    /\ partial' = [partial EXCEPT ![sha[w]] = << >>]
    /\ mu' = Free
    /\ pc' = [pc EXCEPT ![w] = "uploaded"]
    /\ fresh' = [fresh EXCEPT ![w] = TRUE]
    /\ UNCHANGED <<sha, mode, pos, stream, row, gcVars>>

\* ErrIncomplete keeps .partial; a wrong size or hash removes it.
Reject(w) ==
    /\ pc[w] = "copy" /\ stream[w] # << >> /\ ~Verified(w)
    /\ partial' = IF mode[w] = "range" /\ pos[w] < Size THEN partial
                  ELSE [partial EXCEPT ![sha[w]] = << >>]
    /\ mu' = Free
    /\ Reset(w)
    /\ UNCHANGED <<stored, content, old, row, gcVars>>

\* The client reports the change and the engine writes the row of its side;
\* or the report is lost.
Report(w, side) ==
    /\ pc[w] = "uploaded"
    /\ row' = [row EXCEPT ![side] = sha[w]]
    /\ Reset(w)
    /\ UNCHANGED <<files, mu, gcVars>>

Abandon(w) ==
    /\ pc[w] \in {"put", "uploaded"}
    /\ Reset(w)
    /\ UNCHANGED <<files, mu, row, gcVars>>

\* A delete event of the side.
ReportDelete(side) ==
    /\ row' = [row EXCEPT ![side] = NoSha]
    /\ UNCHANGED <<files, mu, upload, gcVars>>

\* blob_gc_age_seconds pass; an upload takes less than that from the PUT to
\* the report.
Age(s) ==
    /\ s \in stored \ old
    /\ \A w \in Workers : ~(fresh[w] /\ sha[w] = s)
    /\ old' = old \cup {s}
    /\ UNCHANGED <<stored, content, partial, mu, upload, row, gcVars>>

-----------------------------------------------------------------------------
(* RunGCLoop, one tick.                                                    *)

\* collectReferencedSHAs reads the rows of one side after the other.
CollectA ==
    /\ gcPc = "idle"
    /\ refs' = {row["a"]}
    /\ gcPc' = "b"
    /\ UNCHANGED <<files, mu, upload, row, garbage>>

CollectB ==
    /\ gcPc = "b"
    /\ refs' = refs \cup {row["b"]}
    /\ gcPc' = "list"
    /\ UNCHANGED <<files, mu, upload, row, garbage>>

\* Faulty variant: unreferenced blobs are deleted at any age.
ListAnyAge ==
    /\ gcPc = "list"
    /\ garbage' = stored \ refs
    /\ gcPc' = "delete"
    /\ UNCHANGED <<files, mu, upload, row, refs>>

\* FS.GC lists the blobs and keeps the referenced and the new ones.
List ==
    /\ gcPc = "list"
    /\ garbage' = (stored \cap old) \ refs
    /\ gcPc' = "delete"
    /\ UNCHANGED <<files, mu, upload, row, refs>>

\* FS.Delete, without the mutex.
Delete(s) ==
    /\ gcPc = "delete" /\ s \in garbage
    /\ stored' = stored \ {s}
    /\ old' = old \ {s}
    /\ garbage' = garbage \ {s}
    /\ UNCHANGED <<content, partial, mu, upload, row, gcPc, refs>>

GCEnd ==
    /\ gcPc = "delete" /\ garbage = {}
    /\ gcPc' = "idle"
    /\ refs' = {}
    /\ UNCHANGED <<files, mu, upload, row, garbage>>

-----------------------------------------------------------------------------
\* The server dies and starts again: files and database stay.
Crash ==
    /\ mu' = Free
    /\ pc' = [w \in Workers |-> "idle"]
    /\ sha' = [w \in Workers |-> NoSha]
    /\ mode' = [w \in Workers |-> "put"]
    /\ pos' = [w \in Workers |-> 0]
    /\ stream' = [w \in Workers |-> << >>]
    /\ fresh' = [w \in Workers |-> FALSE]
    /\ gcPc' = "idle" /\ refs' = {} /\ garbage' = {}
    /\ UNCHANGED <<files, row>>

Upload(w) ==
    \/ \E s \in Shas : HeadBlob(w, s)
    \/ Put(w)
    \/ \E s \in Shas, offset \in 0..Size : PutRange(w, s, offset)
    \/ \E c \in Shas \cup {Junk} : Copy(w, c)
    \/ CopyError(w) \/ Commit(w) \/ Reject(w) \/ Abandon(w)
    \/ \E side \in Sides : Report(w, side)

GC == CollectA \/ CollectB \/ List \/ (\E s \in Shas : Delete(s)) \/ GCEnd

Next ==
    \/ \E w \in Workers : Upload(w)
    \/ GC
    \/ \E side \in Sides : ReportDelete(side)
    \/ \E s \in Shas : Age(s)
    \/ Crash

Spec == Init /\ [][Next]_vars

-----------------------------------------------------------------------------
\* Type invariant; FS.mu is held by nobody but an upload that copies its body.
TypeOK ==
    /\ stored \in SUBSET Shas
    /\ content \in [Shas -> File]
    /\ old \in SUBSET Shas
    /\ partial \in [Shas -> File]
    /\ mu \in Workers \cup {Free} /\ \A w \in Workers : mu = w => pc[w] = "copy"
    /\ pc \in [Workers -> {"idle", "put", "copy", "uploaded"}]
    /\ sha \in [Workers -> Shas \cup {NoSha}]
    /\ mode \in [Workers -> {"put", "range"}]
    /\ pos \in [Workers -> Nat]
    /\ stream \in [Workers -> File]
    /\ fresh \in [Workers -> BOOLEAN]
    /\ row \in [Sides -> Shas \cup {NoSha}]
    /\ gcPc \in {"idle", "b", "list", "delete"}
    /\ refs \in SUBSET (Shas \cup {NoSha})
    /\ garbage \in SUBSET Shas

\* What the store promises (fs.go:91): a blob under a hash has exactly the
\* content with that hash, whatever the clients send, however uploads of the
\* same blob, resumed and fresh, follow or abandon each other, and wherever
\* the server crashes.
BlobIntegrity == \A s \in stored : content[s] = Whole(s)

\* What the age limit is for (gc.go:13): a blob just written by a PUT that has
\* not been reported yet is not collected under it.
FreshPutKept ==
    \A w \in Workers :
        pc[w] = "uploaded" /\ fresh[w] /\ mode[w] = "put" => sha[w] \in stored

-----------------------------------------------------------------------------
(* The inductive invariant behind BlobIntegrity and FreshPutKept.          *)

\* The mutex is held while a body is copied, and every upload has a hash.
MutexInv ==
    \A w \in Workers :
        /\ pc[w] = "copy" <=> mu = w
        /\ pc[w] # "idle" => sha[w] \in Shas

\* The bytes Put has hashed are the bytes in .partial, and the blob is not
\* there yet.
StreamInv ==
    \A w \in Workers : pc[w] = "copy" /\ mode[w] = "put" =>
        /\ partial[sha[w]] = stream[w]
        /\ pos[w] = Len(stream[w])
        /\ sha[w] \notin stored

\* Before its body is copied an upload has copied nothing.
StartInv ==
    \A w \in Workers : pc[w] \in {"idle", "put"} =>
        mode[w] = "put" /\ stream[w] = << >> /\ pos[w] = 0 /\ ~fresh[w]

\* What the collector has found is stored, and never a blob a PUT just wrote.
GarbageInv ==
    /\ garbage \subseteq stored
    /\ \A w \in Workers : pc[w] = "uploaded" /\ fresh[w] /\ mode[w] = "put" =>
          sha[w] \in stored /\ sha[w] \notin old /\ sha[w] \notin garbage

IInv == TypeOK /\ MutexInv /\ StreamInv /\ StartInv /\ GarbageInv /\ BlobIntegrity
=============================================================================
