--------------------------- MODULE BlobStoreProofs ---------------------------
(***************************************************************************)
(* The proofs about BlobStore: its types, the integrity of stored blobs,   *)
(* and the protection of a fresh upload against the collector, for any     *)
(* number of uploads, hashes and chunks.                                   *)
(***************************************************************************)
EXTENDS BlobStore, SequenceTheorems, TLAPS

Chunk == Shas \cup {Junk}

-----------------------------------------------------------------------------
(* Writing into a file.                                                    *)

LEMMA WriteAtType ==
  ASSUME NEW f \in File, NEW p \in Nat, NEW c \in Chunk
  PROVE  WriteAt(f, p, c) \in File
<1> DEFINE n == IF p + 1 > Len(f) THEN p + 1 ELSE Len(f)
<1>1. Len(f) \in Nat /\ f \in [1..Len(f) -> Chunk]
  BY DEF File, Chunk
<1>2. n \in Nat
  BY <1>1
<1>3. WriteAt(f, p, c) \in [1..n -> Chunk]
  BY <1>1, <1>2 DEF WriteAt, Chunk
<1> HIDE DEF n
<1> QED BY <1>2, <1>3, SeqDef DEF File, Chunk

\* A write at the end of the file appends.
LEMMA WriteAtEnd ==
  ASSUME NEW f \in File, NEW c \in Chunk
  PROVE  WriteAt(f, Len(f), c) = Append(f, c)
<1>1. f \in Seq(Chunk) /\ Len(f) \in Nat
  BY DEF File, Chunk
<1>2. Append(f, c) \in Seq(Chunk) /\ Len(Append(f, c)) = Len(f) + 1
      /\ \A i \in 1..Len(f) : Append(f, c)[i] = f[i]
      /\ Append(f, c)[Len(f) + 1] = c
  BY <1>1, AppendProperties
<1>3. WriteAt(f, Len(f), c) = [i \in 1..(Len(f) + 1) |-> IF i = Len(f) + 1 THEN c
                                ELSE IF i <= Len(f) THEN f[i] ELSE Junk]
  BY <1>1 DEF WriteAt
<1>4. WriteAt(f, Len(f), c) \in Seq(Chunk)
  BY <1>1, WriteAtType DEF File, Chunk
<1>5. Len(WriteAt(f, Len(f), c)) = Len(f) + 1
  BY <1>1, <1>3, <1>4
<1>6. \A i \in 1..(Len(f) + 1) : WriteAt(f, Len(f), c)[i] = Append(f, c)[i]
  BY <1>1, <1>2, <1>3
<1> QED BY <1>2, <1>4, <1>5, <1>6, SeqEqual

LEMMA WholeType == \A s \in Shas : Whole(s) \in File
<1> TAKE s \in Shas
<1>1. Whole(s) \in [1..Size -> Chunk]
  BY DEF Whole, Chunk
<1> QED BY <1>1, BlobAssumption, SeqDef DEF File, Chunk

-----------------------------------------------------------------------------
(* Types.                                                                  *)

LEMMA EmptyFile == << >> \in File
  BY DEF File

LEMMA TypeInit == Init => TypeOK
  BY EmptyFile, BlobAssumption DEF Init, TypeOK

LEMMA ResetType ==
  ASSUME TypeOK, NEW w \in Workers, Reset(w)
  PROVE  /\ pc' \in [Workers -> {"idle", "put", "copy", "uploaded"}]
         /\ sha' \in [Workers -> Shas \cup {NoSha}]
         /\ mode' \in [Workers -> {"put", "range"}]
         /\ pos' \in [Workers -> Nat]
         /\ stream' \in [Workers -> File]
         /\ fresh' \in [Workers -> BOOLEAN]
<1>1. /\ pc' \in [Workers -> {"idle", "put", "copy", "uploaded"}]
      /\ sha' \in [Workers -> Shas \cup {NoSha}]
      /\ mode' \in [Workers -> {"put", "range"}]
      /\ pos' \in [Workers -> Nat]
  BY DEF TypeOK, Reset
<1>2. stream' \in [Workers -> File]
  BY EmptyFile DEF TypeOK, Reset
<1>3. fresh' \in [Workers -> BOOLEAN]
  BY DEF TypeOK, Reset
<1> QED BY <1>1, <1>2, <1>3

LEMMA TypeStep == TypeOK /\ MutexInv /\ [Next]_vars => TypeOK'
<1> SUFFICES ASSUME TypeOK, MutexInv, [Next]_vars PROVE TypeOK'
  OBVIOUS
<1> USE EmptyFile DEF files, upload, gcVars
<1>1. ASSUME NEW w \in Workers, NEW s \in Shas, HeadBlob(w, s) PROVE TypeOK'
  BY <1>1 DEF HeadBlob, TypeOK
<1>2. ASSUME NEW w \in Workers, Put(w) PROVE TypeOK'
  <2>1. CASE sha[w] \in stored
    BY <1>2, <2>1 DEF Put, TypeOK
  <2>2. CASE sha[w] \notin stored
    <3>1. mu' = w /\ pc'[w] = "copy"
      BY <1>2, <2>2 DEF Put, TypeOK
    <3>2. partial' \in [Shas -> File]
      <4>1. partial \in [Shas -> File] /\ partial' = [partial EXCEPT ![sha[w]] = << >>]
        BY <1>2, <2>2 DEF Put, TypeOK
      <4> QED BY <4>1
    <3>4. pc' \in [Workers -> {"idle", "put", "copy", "uploaded"}]
      <4>1. /\ pc \in [Workers -> {"idle", "put", "copy", "uploaded"}]
            /\ pc' = [pc EXCEPT ![w] = "copy"]
        BY <1>2, <2>2 DEF Put, TypeOK
      <4> QED BY <4>1
    <3>3. UNCHANGED <<stored, content, old, sha, mode, pos, stream, fresh, row, gcVars>>
      BY <1>2 DEF Put
    <3> QED BY <3>1, <3>2, <3>3, <3>4 DEF TypeOK
  <2> QED BY <2>1, <2>2
<1>3. ASSUME NEW w \in Workers, NEW s \in Shas, NEW o \in 0..Size, PutRange(w, s, o)
      PROVE  TypeOK'
  BY <1>3, BlobAssumption DEF PutRange, TypeOK
<1>4. ASSUME NEW w \in Workers, NEW c \in Chunk, Copy(w, c) PROVE TypeOK'
  <2>1. WriteAt(partial[sha[w]], pos[w], c) \in File
    BY <1>4, WriteAtType DEF Copy, TypeOK, MutexInv
  <2>2. Append(stream[w], c) \in File
    BY DEF TypeOK, File, Chunk
  <2>3. partial' \in [Shas -> File]
    BY <1>4, <2>1 DEF Copy, TypeOK
  <2>4. pos' \in [Workers -> Nat] /\ stream' \in [Workers -> File]
    BY <1>4, <2>2 DEF Copy, TypeOK
  <2> QED BY <1>4, <2>3, <2>4 DEF Copy, TypeOK
<1>5. ASSUME NEW w \in Workers, CopyError(w) PROVE TypeOK'
  <2>1. Reset(w)
    BY <1>5 DEF CopyError
  <2>2. partial' \in [Shas -> File]
    BY <1>5 DEF CopyError, TypeOK
  <2>3. mu' = Free /\ \A v \in Workers : mu' # v
    BY <1>5, BlobAssumption DEF CopyError
  <2>4. UNCHANGED <<stored, content, old, row, gcVars>>
    BY <1>5 DEF CopyError
  <2> QED BY <2>1, <2>2, <2>3, <2>4, ResetType DEF TypeOK
<1>6. ASSUME NEW w \in Workers, Commit(w) PROVE TypeOK'
  <2>1. sha[w] \in Shas /\ partial[sha[w]] \in File
    BY <1>6 DEF Commit, TypeOK, MutexInv
  <2>2. mu' = Free /\ \A v \in Workers : mu' # v
    BY <1>6, BlobAssumption DEF Commit
  <2>3. /\ content' \in [Shas -> File] /\ partial' \in [Shas -> File]
        /\ stored' \in SUBSET Shas /\ old' \in SUBSET Shas
    BY <1>6, <2>1 DEF Commit, TypeOK
  <2>4. /\ pc' \in [Workers -> {"idle", "put", "copy", "uploaded"}]
        /\ fresh' \in [Workers -> BOOLEAN]
        /\ UNCHANGED <<sha, mode, pos, stream, row, gcVars>>
    BY <1>6 DEF Commit, TypeOK
  <2> QED BY <2>2, <2>3, <2>4 DEF TypeOK
<1>7. ASSUME NEW w \in Workers, Reject(w) PROVE TypeOK'
  <2>1. Reset(w)
    BY <1>7 DEF Reject
  <2>2. partial' \in [Shas -> File]
    BY <1>7 DEF Reject, TypeOK
  <2>3. mu' = Free /\ \A v \in Workers : mu' # v
    BY <1>7, BlobAssumption DEF Reject
  <2>4. UNCHANGED <<stored, content, old, row, gcVars>>
    BY <1>7 DEF Reject
  <2> QED BY <2>1, <2>2, <2>3, <2>4, ResetType DEF TypeOK
<1>8. ASSUME NEW w \in Workers, NEW d \in Sides, Report(w, d) PROVE TypeOK'
  <2>1. Reset(w)
    BY <1>8 DEF Report
  <2>2. mu' = mu /\ \A v \in Workers : mu' = v => pc'[v] = "copy"
    BY <1>8 DEF Report, Reset, TypeOK
  <2>3. row' \in [Sides -> Shas \cup {NoSha}]
    BY <1>8 DEF Report, TypeOK
  <2>4. UNCHANGED <<files, gcVars>>
    BY <1>8 DEF Report
  <2> QED BY <2>1, <2>2, <2>3, <2>4, ResetType DEF TypeOK
<1>9. ASSUME NEW w \in Workers, Abandon(w) PROVE TypeOK'
  <2>1. Reset(w)
    BY <1>9 DEF Abandon
  <2>2. mu' = mu /\ \A v \in Workers : mu' = v => pc'[v] = "copy"
    BY <1>9 DEF Abandon, Reset, TypeOK
  <2>4. UNCHANGED <<files, row, gcVars>>
    BY <1>9 DEF Abandon
  <2> QED BY <2>1, <2>2, <2>4, ResetType DEF TypeOK
<1>10. CASE GC
  BY <1>10 DEF GC, CollectA, CollectB, List, Delete, GCEnd, TypeOK, Sides
<1>11. ASSUME NEW d \in Sides, ReportDelete(d) PROVE TypeOK'
  BY <1>11 DEF ReportDelete, TypeOK
<1>12. ASSUME NEW s \in Shas, Age(s) PROVE TypeOK'
  BY <1>12 DEF Age, TypeOK
<1>13. CASE Crash
  <2>1. mu' = Free /\ \A v \in Workers : mu' # v
    BY <1>13, BlobAssumption DEF Crash
  <2> QED BY <1>13, <2>1 DEF Crash, TypeOK
<1>14. CASE UNCHANGED vars
  BY <1>14 DEF vars, TypeOK
<1> QED BY <1>1, <1>2, <1>3, <1>4, <1>5, <1>6, <1>7, <1>8, <1>9, <1>10, <1>11, <1>12,
           <1>13, <1>14 DEF Next, Upload, Chunk

-----------------------------------------------------------------------------
(* The inductive invariant.                                                *)

LEMMA InitIInv == Init => IInv
<1> SUFFICES ASSUME Init PROVE IInv
  OBVIOUS
<1>1. MutexInv
  BY BlobAssumption DEF Init, MutexInv
<1>2. StreamInv /\ StartInv /\ GarbageInv /\ BlobIntegrity
  BY DEF Init, StreamInv, StartInv, GarbageInv, BlobIntegrity
<1> QED BY TypeInit, <1>1, <1>2 DEF IInv

\* What Reset leaves of worker w, and that it leaves the others alone.
LEMMA ResetFacts ==
  ASSUME TypeOK, NEW w \in Workers, Reset(w)
  PROVE  /\ pc'[w] = "idle" /\ mode'[w] = "put" /\ stream'[w] = << >>
         /\ pos'[w] = 0 /\ ~fresh'[w]
         /\ \A v \in Workers \ {w} :
               /\ pc'[v] = pc[v] /\ sha'[v] = sha[v] /\ mode'[v] = mode[v]
               /\ pos'[v] = pos[v] /\ stream'[v] = stream[v] /\ fresh'[v] = fresh[v]
<1>1. /\ pc'[w] = "idle" /\ mode'[w] = "put" /\ stream'[w] = << >>
      /\ pos'[w] = 0 /\ fresh'[w] = FALSE
  BY DEF Reset, TypeOK
<1>2. \A v \in Workers \ {w} :
        /\ pc'[v] = pc[v] /\ sha'[v] = sha[v] /\ mode'[v] = mode[v]
        /\ pos'[v] = pos[v] /\ stream'[v] = stream[v] /\ fresh'[v] = fresh[v]
  BY DEF Reset, TypeOK
<1> QED BY <1>1, <1>2

\* An upload that ends without storing anything.
LEMMA ResetStep ==
  ASSUME IInv, TypeOK', NEW w \in Workers, Reset(w),
         \/ mu' = mu /\ partial' = partial /\ pc[w] # "copy"
         \/ /\ mu' = Free /\ pc[w] = "copy"
            /\ \A s \in Shas : s # sha[w] => partial'[s] = partial[s],
         UNCHANGED <<stored, content, old, gcVars>>
  PROVE  IInv'
<1>1. stored' = stored /\ content' = content /\ old' = old /\ garbage' = garbage
  BY DEF gcVars
<1>2. \A v \in Workers \ {w} : pc[v] = "copy" => pc[w] # "copy"
  BY DEF IInv, MutexInv
<1>3. MutexInv'
  BY ResetFacts, BlobAssumption DEF IInv, MutexInv
<1>4. StreamInv'
  <2> SUFFICES ASSUME NEW v \in Workers, pc'[v] = "copy", mode'[v] = "put"
               PROVE  /\ partial'[sha'[v]] = stream'[v]
                      /\ pos'[v] = Len(stream'[v])
                      /\ sha'[v] \notin stored'
    BY DEF StreamInv
  <2>1. v # w /\ pc[v] = "copy" /\ mode[v] = "put"
    BY ResetFacts DEF IInv
  <2> QED BY <1>1, <1>2, <2>1, ResetFacts DEF IInv, StreamInv
<1>5. StartInv'
  BY ResetFacts DEF IInv, StartInv
<1>6. GarbageInv' /\ BlobIntegrity'
  BY <1>1, ResetFacts DEF IInv, GarbageInv, BlobIntegrity
<1> QED BY <1>3, <1>4, <1>5, <1>6 DEF IInv

LEMMA HeadStep ==
  ASSUME IInv, TypeOK', NEW w \in Workers, NEW s \in Shas, HeadBlob(w, s)
  PROVE  IInv'
<1>1. /\ pc[w] = "idle" /\ pc'[w] \in {"uploaded", "put"} /\ sha'[w] = s
      /\ \A v \in Workers \ {w} : pc'[v] = pc[v] /\ sha'[v] = sha[v]
      /\ stored' = stored /\ content' = content /\ old' = old /\ garbage' = garbage
      /\ partial' = partial /\ mu' = mu /\ mode' = mode /\ pos' = pos
      /\ stream' = stream /\ fresh' = fresh
  BY DEF HeadBlob, IInv, TypeOK, files, gcVars
<1>2. MutexInv' /\ StreamInv' /\ StartInv'
  BY <1>1 DEF IInv, MutexInv, StreamInv, StartInv
<1>3. GarbageInv' /\ BlobIntegrity'
  BY <1>1 DEF IInv, GarbageInv, StartInv, BlobIntegrity
<1> QED BY <1>2, <1>3 DEF IInv

LEMMA PutStep ==
  ASSUME IInv, TypeOK', NEW w \in Workers, Put(w)
  PROVE  IInv'
<1>1. /\ pc[w] = "put" /\ mu = Free
      /\ \A v \in Workers \ {w} : pc'[v] = pc[v]
      /\ stored' = stored /\ content' = content /\ old' = old /\ garbage' = garbage
      /\ sha' = sha /\ mode' = mode /\ pos' = pos /\ stream' = stream /\ fresh' = fresh
  BY DEF Put, IInv, TypeOK, gcVars
<1>2. /\ sha[w] \in Shas /\ mode[w] = "put" /\ stream[w] = << >> /\ pos[w] = 0 /\ ~fresh[w]
      /\ \A v \in Workers : pc[v] # "copy"
  BY <1>1, BlobAssumption DEF IInv, MutexInv, StartInv
<1>3. \/ pc'[w] = "uploaded" /\ mu' = mu
      \/ pc'[w] = "copy" /\ mu' = w /\ partial'[sha[w]] = << >> /\ sha[w] \notin stored
  BY <1>2 DEF Put, IInv, TypeOK
<1>4. MutexInv'
  BY <1>1, <1>2, <1>3, BlobAssumption DEF IInv, MutexInv
<1>5. StreamInv'
  <2>1. Len(<< >>) = 0
    OBVIOUS
  <2> QED BY <1>1, <1>2, <1>3, <2>1 DEF StreamInv
<1>6. StartInv' /\ GarbageInv' /\ BlobIntegrity'
  BY <1>1, <1>2, <1>3 DEF IInv, StartInv, GarbageInv, BlobIntegrity
<1> QED BY <1>4, <1>5, <1>6 DEF IInv

LEMMA PutRangeStep ==
  ASSUME IInv, TypeOK', NEW w \in Workers, NEW s \in Shas, NEW o \in 0..Size,
         PutRange(w, s, o)
  PROVE  IInv'
<1>1. /\ pc[w] = "idle" /\ mu = Free /\ pc'[w] = "copy" /\ mu' = w
      /\ sha'[w] = s /\ mode'[w] = "range"
      /\ \A v \in Workers \ {w} : /\ pc'[v] = pc[v] /\ sha'[v] = sha[v]
                                  /\ mode'[v] = mode[v] /\ pos'[v] = pos[v]
      /\ stored' = stored /\ content' = content /\ old' = old /\ garbage' = garbage
      /\ partial' = partial /\ stream' = stream /\ fresh' = fresh
  BY DEF PutRange, IInv, TypeOK, files, gcVars
<1>2. \A v \in Workers : pc[v] # "copy"
  BY <1>1, BlobAssumption DEF IInv, MutexInv
<1>3. MutexInv'
  BY <1>1, <1>2, BlobAssumption DEF IInv, MutexInv
<1>4. StreamInv' /\ StartInv' /\ GarbageInv' /\ BlobIntegrity'
  BY <1>1, <1>2 DEF IInv, StreamInv, StartInv, GarbageInv, BlobIntegrity
<1> QED BY <1>3, <1>4 DEF IInv

LEMMA CopyStep ==
  ASSUME IInv, TypeOK', NEW w \in Workers, NEW c \in Chunk, Copy(w, c)
  PROVE  IInv'
<1>1. /\ pc[w] = "copy" /\ pos'[w] = pos[w] + 1 /\ stream'[w] = Append(stream[w], c)
      /\ \A v \in Workers \ {w} : pos'[v] = pos[v] /\ stream'[v] = stream[v]
      /\ stored' = stored /\ content' = content /\ old' = old /\ garbage' = garbage
      /\ pc' = pc /\ sha' = sha /\ mode' = mode /\ fresh' = fresh /\ mu' = mu
  BY DEF Copy, IInv, TypeOK, gcVars
<1>2. sha[w] \in Shas /\ \A v \in Workers \ {w} : pc[v] # "copy"
  BY <1>1 DEF IInv, MutexInv
<1>3. partial'[sha[w]] = WriteAt(partial[sha[w]], pos[w], c)
  BY <1>2 DEF Copy, IInv, TypeOK
<1>4. StreamInv'
  <2> SUFFICES ASSUME mode[w] = "put"
               PROVE  /\ partial'[sha[w]] = stream'[w]
                      /\ pos'[w] = Len(stream'[w])
                      /\ sha[w] \notin stored
    BY <1>1, <1>2 DEF StreamInv
  <2>1. /\ partial[sha[w]] = stream[w] /\ pos[w] = Len(stream[w]) /\ sha[w] \notin stored
        /\ stream[w] \in File
    BY <1>1 DEF IInv, StreamInv, TypeOK
  <2>2. partial'[sha[w]] = Append(stream[w], c)
    BY <1>3, <2>1, WriteAtEnd
  <2>3. Len(Append(stream[w], c)) = Len(stream[w]) + 1
    BY <2>1, AppendProperties DEF File, Chunk
  <2> QED BY <1>1, <2>1, <2>2, <2>3
<1>5. MutexInv' /\ StartInv' /\ GarbageInv' /\ BlobIntegrity'
  BY <1>1 DEF IInv, MutexInv, StartInv, GarbageInv, BlobIntegrity
<1> QED BY <1>4, <1>5 DEF IInv

\* The only step that puts a file in place: what it puts there is whole.
LEMMA CommitStep ==
  ASSUME IInv, TypeOK', NEW w \in Workers, Commit(w)
  PROVE  IInv'
<1>1. /\ pc[w] = "copy" /\ Verified(w)
      /\ content' = [content EXCEPT ![sha[w]] = partial[sha[w]]]
      /\ stored' = stored \cup {sha[w]} /\ old' = old \ {sha[w]} /\ garbage' = garbage
      /\ mu' = Free /\ pc'[w] = "uploaded" /\ sha' = sha /\ mode' = mode
      /\ pos' = pos /\ stream' = stream
      /\ \A v \in Workers \ {w} : pc'[v] = pc[v] /\ fresh'[v] = fresh[v]
  BY DEF Commit, IInv, TypeOK, gcVars
<1>2. sha[w] \in Shas /\ \A v \in Workers \ {w} : pc[v] # "copy"
  BY <1>1 DEF IInv, MutexInv
<1>3. partial[sha[w]] = Whole(sha[w])
  BY <1>1 DEF Verified, IInv, StreamInv, TypeOK
<1>4. BlobIntegrity'
  BY <1>1, <1>2, <1>3 DEF IInv, BlobIntegrity, TypeOK
<1>5. MutexInv'
  BY <1>1, <1>2, BlobAssumption DEF IInv, MutexInv
<1>6. StreamInv' /\ StartInv'
  BY <1>1, <1>2 DEF IInv, StreamInv, StartInv
<1>7. GarbageInv'
  <2>1. mode[w] = "put" => sha[w] \notin garbage
    BY <1>1 DEF IInv, StreamInv, GarbageInv
  <2> QED BY <1>1, <2>1 DEF IInv, GarbageInv
<1> QED BY <1>4, <1>5, <1>6, <1>7 DEF IInv

LEMMA GCStep ==
  ASSUME IInv, TypeOK', GC
  PROVE  IInv'
<1>1. /\ content' = content /\ partial' = partial /\ mu' = mu /\ pc' = pc /\ sha' = sha
      /\ mode' = mode /\ pos' = pos /\ stream' = stream /\ fresh' = fresh
      /\ stored' \subseteq stored /\ old' \subseteq old
  BY DEF GC, CollectA, CollectB, List, Delete, GCEnd, files, upload
<1>2. MutexInv' /\ StreamInv' /\ StartInv' /\ BlobIntegrity'
  BY <1>1 DEF IInv, MutexInv, StreamInv, StartInv, BlobIntegrity
<1>3. GarbageInv'
  BY DEF GC, CollectA, CollectB, List, Delete, GCEnd, files, upload, IInv, GarbageInv
<1> QED BY <1>2, <1>3 DEF IInv

LEMMA IInvStep == IInv /\ [Next]_vars => IInv'
<1> SUFFICES ASSUME IInv, [Next]_vars PROVE IInv'
  OBVIOUS
<1>0. TypeOK'
  BY TypeStep DEF IInv
<1>1. ASSUME NEW w \in Workers, Upload(w) PROVE IInv'
  <2>1. ASSUME NEW s \in Shas, HeadBlob(w, s) PROVE IInv'
    BY <1>0, <2>1, HeadStep
  <2>2. CASE Put(w)
    BY <1>0, <2>2, PutStep
  <2>3. ASSUME NEW s \in Shas, NEW o \in 0..Size, PutRange(w, s, o) PROVE IInv'
    BY <1>0, <2>3, PutRangeStep
  <2>4. ASSUME NEW c \in Chunk, Copy(w, c) PROVE IInv'
    BY <1>0, <2>4, CopyStep
  <2>5. CASE CopyError(w) \/ Reject(w)
    <3>1. /\ pc[w] = "copy" /\ Reset(w) /\ mu' = Free
          /\ UNCHANGED <<stored, content, old, gcVars>>
      BY <2>5 DEF CopyError, Reject
    <3>2. \A s \in Shas : s # sha[w] => partial'[s] = partial[s]
      BY <2>5 DEF CopyError, Reject, IInv, TypeOK
    <3> QED BY <1>0, <3>1, <3>2, ResetStep
  <2>6. CASE Commit(w)
    BY <1>0, <2>6, CommitStep
  <2>7. ASSUME Abandon(w) \/ \E d \in Sides : Report(w, d) PROVE IInv'
    <3>1. /\ pc[w] # "copy" /\ Reset(w) /\ mu' = mu /\ partial' = partial
          /\ UNCHANGED <<stored, content, old, gcVars>>
      BY <2>7 DEF Abandon, Report, files
    <3> QED BY <1>0, <3>1, ResetStep
  <2> QED BY <1>1, <2>1, <2>2, <2>3, <2>4, <2>5, <2>6, <2>7 DEF Upload, Chunk
<1>2. CASE GC
  BY <1>0, <1>2, GCStep
<1>3. ASSUME NEW d \in Sides, ReportDelete(d) PROVE IInv'
  BY <1>0, <1>3 DEF ReportDelete, IInv, MutexInv, StreamInv, StartInv, GarbageInv,
                    BlobIntegrity, files, upload, gcVars
<1>4. ASSUME NEW s \in Shas, Age(s) PROVE IInv'
  <2>1. /\ stored' = stored /\ content' = content /\ partial' = partial /\ mu' = mu
        /\ pc' = pc /\ sha' = sha /\ mode' = mode /\ pos' = pos /\ stream' = stream
        /\ fresh' = fresh /\ garbage' = garbage /\ old' = old \cup {s}
        /\ \A w \in Workers : ~(fresh[w] /\ sha[w] = s)
    BY <1>4 DEF Age, upload, gcVars
  <2> QED BY <1>0, <2>1 DEF IInv, MutexInv, StreamInv, StartInv, GarbageInv, BlobIntegrity
<1>5. CASE Crash
  <2>1. /\ mu' = Free /\ garbage' = {} /\ stored' = stored /\ content' = content
        /\ \A w \in Workers : /\ pc'[w] = "idle" /\ mode'[w] = "put" /\ pos'[w] = 0
                              /\ stream'[w] = << >> /\ fresh'[w] = FALSE
    BY <1>5 DEF Crash, files
  <2> QED BY <1>0, <2>1, BlobAssumption
          DEF IInv, MutexInv, StreamInv, StartInv, GarbageInv, BlobIntegrity
<1>6. CASE UNCHANGED vars
  BY <1>0, <1>6 DEF vars, IInv, MutexInv, StreamInv, StartInv, GarbageInv, BlobIntegrity,
                    files, upload, gcVars
<1> QED BY <1>1, <1>2, <1>3, <1>4, <1>5, <1>6 DEF Next

LEMMA Invariance == Spec => []IInv
  BY InitIInv, IInvStep, PTL DEF Spec

\* Every variable of the store keeps its type.
THEOREM TypeCorrect == Spec => []TypeOK
<1>1. IInv => TypeOK
  BY DEF IInv
<1> QED BY <1>1, Invariance, PTL

\* fs.go:91: what is stored under a hash has that hash, for any number of
\* concurrent, failing, resumed or interrupted uploads of any bodies.
THEOREM BlobIntegrityCorrect == Spec => []BlobIntegrity
<1>1. IInv => BlobIntegrity
  BY DEF IInv
<1> QED BY <1>1, Invariance, PTL

\* gc.go:13: the collector never takes a blob that a PUT has just written.
THEOREM FreshPutKeptCorrect == Spec => []FreshPutKept
<1>1. IInv => FreshPutKept
  BY DEF IInv, GarbageInv, FreshPutKept
<1> QED BY <1>1, Invariance, PTL
=============================================================================
