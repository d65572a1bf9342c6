-------------------------- MODULE TransferProofs ----------------------------
(***************************************************************************)
(* The proofs about Transfer: for any number of fetches, any contents and  *)
(* any number of edits, faults and crashes, as long as fetches of a path   *)
(* do not overlap, the file is never torn, an acknowledged fetch has       *)
(* written it, and what the user wrote is reported once all is quiet.      *)
(***************************************************************************)
EXTENDS Transfer, SequenceTheorems, FiniteSetTheorems, TLAPS

-----------------------------------------------------------------------------
(* Files.                                                                  *)

LEMMA WholeType ==
  ASSUME NEW c \in Block
  PROVE  /\ Whole(c) \in Seq(Block) /\ Len(Whole(c)) = Size
         /\ \A i \in 1..Size : Whole(c)[i] = c
<1>1. Size \in Nat
  BY TransferAssumption
<1>2. Whole(c) \in [1..Size -> Block]
  BY DEF Whole
<1> QED BY <1>1, <1>2, SeqDef, LenProperties DEF Whole

LEMMA EmptyType == Empty \in Seq(Block) /\ Len(Empty) = 0
  BY EmptySeq DEF Empty

\* What io.Copy leaves: the old file, longer by a block where it ended there.
LEMMA WriteAtType ==
  ASSUME NEW file \in Seq(Block), NEW p \in Nat \ {0}, NEW b \in Block
  PROVE  LET w == WriteAt(file, p, b)
         IN  /\ w \in Seq(Block) /\ Len(w) = (IF Len(file) > p THEN Len(file) ELSE p)
             /\ w[p] = b
             /\ \A i \in 1..Len(file) : i # p => w[i] = file[i]
<1> DEFINE w == WriteAt(file, p, b)
           n == IF Len(file) > p THEN Len(file) ELSE p
<1>1. Len(file) \in Nat /\ n \in Nat /\ n >= p /\ n >= Len(file)
  BY LenProperties
<1>2. \A i \in 1..Len(file) : file[i] \in Block
  BY ElementOfSeq
<1>3. Hole \in Block
  BY DEF Block
<1>4. w = [i \in 1..n |-> IF i = p THEN b ELSE IF i <= Len(file) THEN file[i] ELSE Hole]
  BY DEF WriteAt
<1> HIDE DEF w, n
<1>5. w \in [1..n -> Block]
  BY <1>1, <1>2, <1>3, <1>4
<1>6. w \in Seq(Block) /\ Len(w) = n
  BY <1>1, <1>5, SeqDef, LenProperties
<1>7. w[p] = b /\ \A i \in 1..Len(file) : i # p => w[i] = file[i]
  BY <1>1, <1>4
<1> QED BY <1>6, <1>7 DEF w, n

LEMMA OneMore ==
  ASSUME NEW S, IsFiniteSet(S), NEW x, NEW k \in Nat, Cardinality(S) <= k
  PROVE  IsFiniteSet(S \cup {x}) /\ Cardinality(S \cup {x}) <= k + 1
<1>1. /\ IsFiniteSet(S \cup {x}) /\ Cardinality(S) \in Nat
      /\ \/ Cardinality(S \cup {x}) = Cardinality(S)
         \/ Cardinality(S \cup {x}) = Cardinality(S) + 1
  BY FS_AddElement, FS_CardinalityType
<1> QED BY <1>1

\* A new file has an inode of its own: there is one more than can be in use.
LEMMA FreeInodeFresh ==
  ASSUME TypeOK, NEW m \in Names, name[m] = 0
  PROVE  /\ FreeInode \in Inodes
         /\ \A n \in Names : name[n] # FreeInode
         /\ \A f \in Fetches : fetch[f].fd # FreeInode
         /\ up.fd # FreeInode
<1> DEFINE F == Cardinality(Fetches)
           S1 == {fetch[f].fd : f \in Fetches}
           S2 == S1 \cup {up.fd}
<1>1. IsFiniteSet(Fetches) /\ F \in Nat
  BY TransferAssumption, FS_CardinalityType
<1>2. IsFiniteSet(S1) /\ Cardinality(S1) <= F
  <2> DEFINE g == [f \in Fetches |-> fetch[f].fd]
  <2>1. S1 = {g[f] : f \in Fetches}
    OBVIOUS
  <2>2. g \in [Fetches -> S1]
    OBVIOUS
  <2>3. g \in Surjection(Fetches, S1)
    BY <2>1, <2>2 DEF Surjection
  <2> QED BY <1>1, <2>3, FS_Surjection
<1>3. IsFiniteSet(S2) /\ Cardinality(S2) <= F + 1
  BY <1>1, <1>2, OneMore
<1>4. PICK o : Names = {m, o}
  BY DEF Names
<1> DEFINE S3 == S2 \cup {name[o]}
<1>5. IsFiniteSet(S3) /\ Cardinality(S3) <= F + 2
  <2> HIDE DEF F, S2
  <2>1. F + 1 \in Nat /\ (F + 1) + 1 = F + 2
    BY <1>1
  <2> QED BY <1>3, <2>1, OneMore
<1>6. IsFiniteSet(Inodes) /\ Cardinality(Inodes) = F + 3
  <2>1. F + 3 \in Int /\ 1 \in Int /\ 1 <= F + 3 /\ (F + 3) - 1 + 1 = F + 3
    BY <1>1
  <2>2. Inodes = 1..(F + 3)
    BY DEF Inodes
  <2> HIDE DEF F
  <2> QED BY <2>1, <2>2, FS_Interval
<1>7. ~(Inodes \subseteq S3)
  BY <1>1, <1>5, <1>6, FS_Subset, FS_CardinalityType
<1>8. InUse \subseteq S3 \cup {0} /\ 0 \notin Inodes
  BY <1>1, <1>4 DEF InUse, Inodes
<1>9. \E i \in Inodes : i \notin InUse
  BY <1>7, <1>8
<1>10. FreeInode \in Inodes /\ FreeInode \notin InUse
  BY <1>9 DEF FreeInode
<1> QED BY <1>10 DEF InUse

-----------------------------------------------------------------------------
(* Types.                                                                  *)

LEMMA ConstantsType ==
  /\ Size \in Nat \ {0} /\ MaxFaults \in Nat
  /\ "file" \in Names /\ "partial" \in Names
  /\ 0 \notin Inodes /\ NoSha \in Contents
  /\ \A f \in Fetches : Wanted[f] \in Block
  /\ Remote \subseteq Block
  /\ \A c \in Edits : c \in Seq(Block) /\ Len(c) <= Size
<1>1. /\ Size \in Nat \ {0} /\ MaxFaults \in Nat
      /\ \A f \in Fetches : Wanted[f] \in Block
      /\ Remote \subseteq Block /\ Local \subseteq Block
  BY TransferAssumption DEF Block
<1>2. "file" \in Names /\ "partial" \in Names /\ 0 \notin Inodes /\ NoSha \in Contents
  BY TransferAssumption, FS_CardinalityType DEF Names, Inodes, Contents
<1>3. ASSUME NEW c \in Edits PROVE c \in Seq(Block) /\ Len(c) <= Size
  <2>1. CASE c = Empty
    BY <1>1, <2>1, EmptyType
  <2>2. CASE \E b \in Local : c = Whole(b)
    BY <1>1, <2>2, WholeType
  <2> QED BY <2>1, <2>2 DEF Edits
<1> QED BY <1>1, <1>2, <1>3

LEMMA FaultType ==
  ASSUME TypeOK, Fault
  PROVE  faults' \in 0..MaxFaults
<1>1. MaxFaults \in Nat /\ faults \in 0..MaxFaults
  BY ConstantsType DEF TypeOK
<1> QED BY <1>1 DEF Fault

LEMMA ContentType ==
  ASSUME TypeOK, NEW n \in Names
  PROVE  /\ Content(n) \in Contents
         /\ Exists(n) => name[n] \in Inodes /\ Content(n) \in Seq(Block)
  BY DEF TypeOK, Content, Exists, Contents

-----------------------------------------------------------------------------
(* The states of a download and of an upload.                              *)

\* A file is open exactly while it is copied, or uploaded.
FetchOK(d) == d \in DownloadState /\ (d.fd \in Inodes <=> d.pc = "copy")
UploadOK(u) == u \in UploadState /\ (u.fd \in Inodes <=> u.pc = "put")

LEMMA FetchChanges ==
  ASSUME TypeOK, NEW f \in Fetches, NEW d, FetchOK(d), fetch' = [fetch EXCEPT ![f] = d]
  PROVE  /\ fetch' \in [Fetches -> DownloadState]
         /\ \A g \in Fetches : fetch'[g].fd \in Inodes <=> fetch'[g].pc = "copy"
  BY DEF TypeOK, FetchOK

LEMMA FetchReturns ==
  ASSUME NEW pc \in {"idle", "ok", "failed"}
  PROVE  /\ FetchOK([NoFetch EXCEPT !.pc = pc])
         /\ [NoFetch EXCEPT !.pc = pc].pc = pc
<1>1. /\ [NoFetch EXCEPT !.pc = pc] = [pc |-> pc, body |-> NoSha, fd |-> 0, pos |-> 0]
      /\ 0 \in 0..Size
  BY ConstantsType DEF NoFetch
<1> QED BY <1>1, ConstantsType DEF FetchOK, DownloadState

LEMMA FetchMoves ==
  ASSUME NEW d, FetchOK(d), d.pc # "copy", NEW pc \in {"stat", "remove", "get"}
  PROVE  FetchOK([d EXCEPT !.pc = pc])
  BY DEF FetchOK, DownloadState

LEMMA NoUploadOK == UploadOK(NoUpload)
  BY ConstantsType, EmptyType DEF NoUpload, UploadOK, UploadState

\* The partial file keeps its inode, or gets one that is new.
LEMMA PartialInode ==
  ASSUME TypeOK
  PROVE  LET i == IF Exists("partial") THEN name["partial"] ELSE FreeInode
         IN  i \in Inodes /\ (name["file"] # name["partial"] => name["file"] # i)
  BY ConstantsType, FreeInodeFresh DEF TypeOK, Exists

LEMMA FileInode ==
  ASSUME TypeOK
  PROVE  LET i == IF Exists("file") THEN name["file"] ELSE FreeInode
         IN  i \in Inodes
  BY ConstantsType, FreeInodeFresh DEF TypeOK, Exists

LEMMA TypeInit == Init => TypeOK
<1> SUFFICES ASSUME Init PROVE TypeOK
  OBVIOUS
<1>1. /\ name \in [Names -> Inodes \cup {0}]
      /\ data \in [Inodes -> Seq(Block)] /\ \A i \in Inodes : Len(data[i]) <= Size
  BY EmptyType, ConstantsType DEF Init
<1>2. FetchOK(NoFetch)
  BY ConstantsType DEF FetchOK, DownloadState, NoFetch
<1>3. hashes \in [Names -> Contents] /\ told \in Contents /\ edits \subseteq Edits
  BY ConstantsType DEF Init
<1>4. faults \in 0..MaxFaults
  BY ConstantsType DEF Init
<1> QED BY <1>1, <1>2, <1>3, <1>4, NoUploadOK DEF Init, TypeOK, FetchOK, UploadOK

LEMMA TypeDownload ==
  ASSUME TypeOK, BodyInv, NEW f \in Fetches,
         Download(f) \/ Get(f) \/ DownloadFails(f) \/ Begin(f)
  PROVE  TypeOK'
<1> USE DEF local, server
<1> DEFINE d == fetch[f]
<1>0. FetchOK(d) /\ "file" \in Names /\ "partial" \in Names
  BY ConstantsType DEF TypeOK, FetchOK
<1>1. CASE Begin(f) \/ StatPartial(f)
  <2>1. PICK pc \in {"stat", "remove", "get"} : fetch' = [fetch EXCEPT ![f].pc = pc]
    BY <1>1 DEF Begin, StatPartial, Goto
  <2>2. FetchOK([d EXCEPT !.pc = pc]) /\ fetch' = [fetch EXCEPT ![f] = [d EXCEPT !.pc = pc]]
    BY <1>0, <1>1, <2>1, FetchMoves DEF Begin, StatPartial
  <2>3. UNCHANGED <<name, data, dirty, up, hashes, blobs, told, edits, faults>>
    BY <1>1 DEF Begin, StatPartial
  <2> QED BY <2>2, <2>3, FetchChanges DEF TypeOK
<1>2. CASE RemovePartial(f)
  <2>1. UNCHANGED <<data, up, hashes, blobs, told, edits, faults>>
    BY <1>2 DEF RemovePartial
  <2>2. CASE Exists("partial")
    <3>1. FetchOK([d EXCEPT !.pc = "get"])
      BY <1>0, <1>2, FetchMoves DEF RemovePartial
    <3>2. /\ fetch' = [fetch EXCEPT ![f] = [d EXCEPT !.pc = "get"]]
          /\ name' = [name EXCEPT !["partial"] = 0]
          /\ dirty' = [dirty EXCEPT !["partial"] = @ \cup {"remove"}]
      BY <1>2, <2>2 DEF RemovePartial, Notify, Goto
    <3>3. /\ fetch' \in [Fetches -> DownloadState]
          /\ \A g \in Fetches : fetch'[g].fd \in Inodes <=> fetch'[g].pc = "copy"
      BY <3>1, <3>2, FetchChanges
    <3>4. name' \in [Names -> Inodes \cup {0}]
          /\ dirty' \in [Names -> SUBSET {"write", "remove"}]
      BY <1>0, <3>2 DEF TypeOK
    <3> QED BY <2>1, <3>3, <3>4 DEF TypeOK
  <2>3. CASE ~Exists("partial")
    <3>1. /\ fetch' = [fetch EXCEPT ![f] = [NoFetch EXCEPT !.pc = "failed"]]
          /\ UNCHANGED <<name, dirty>>
      BY <1>2, <2>3 DEF RemovePartial, Return
    <3> QED BY <2>1, <3>1, FetchReturns, FetchChanges DEF TypeOK
  <2> QED BY <2>2, <2>3
<1>3. CASE Get(f)
  <2>1. PICK c \in Remote :
          /\ fetch' = [fetch EXCEPT ![f].pc = "create", ![f].body = Whole(c)]
          /\ IF c = Wanted[f] THEN UNCHANGED faults ELSE Fault
    BY <1>3 DEF Get
  <2>2. Whole(c) \in Contents /\ faults' \in 0..MaxFaults
    BY <2>1, ConstantsType, WholeType, FaultType DEF Contents, TypeOK
  <2>3. FetchOK([d EXCEPT !.pc = "create", !.body = Whole(c)])
    BY <1>0, <1>3, <2>2 DEF Get, FetchOK, DownloadState
  <2>4. fetch' = [fetch EXCEPT ![f] = [d EXCEPT !.pc = "create", !.body = Whole(c)]]
    BY <2>1
  <2>5. UNCHANGED <<name, data, dirty, up, hashes, blobs, told, edits>>
    BY <1>3 DEF Get
  <2> QED BY <2>2, <2>3, <2>4, <2>5, FetchChanges DEF TypeOK
<1>4. CASE CreatePartial(f)
  <2> DEFINE i == IF Exists("partial") THEN name["partial"] ELSE FreeInode
  <2>1. i \in Inodes
    BY PartialInode
  <2>2. /\ name' = [name EXCEPT !["partial"] = i]
        /\ data' = [data EXCEPT ![i] = Empty]
        /\ fetch' = [fetch EXCEPT ![f].pc = "copy", ![f].fd = i, ![f].pos = 0]
        /\ dirty' = [dirty EXCEPT !["partial"] = @ \cup {"write"}]
        /\ UNCHANGED <<up, hashes, blobs, told, edits, faults>>
    BY <1>4 DEF CreatePartial, Notify
  <2> HIDE DEF i
  <2>3. data' \in [Inodes -> Seq(Block)] /\ \A j \in Inodes : Len(data'[j]) <= Size
    BY <2>1, <2>2, EmptyType, ConstantsType DEF TypeOK
  <2>4. /\ dirty' \in [Names -> SUBSET {"write", "remove"}]
        /\ name' \in [Names -> Inodes \cup {0}]
    BY <1>0, <2>1, <2>2 DEF TypeOK
  <2>5. 0 \in 0..Size
    BY ConstantsType
  <2>6. FetchOK([d EXCEPT !.pc = "copy", !.fd = i, !.pos = 0])
    BY <1>0, <2>1, <2>5 DEF FetchOK, DownloadState
  <2>7. fetch' = [fetch EXCEPT ![f] = [d EXCEPT !.pc = "copy", !.fd = i, !.pos = 0]]
    BY <2>2
  <2> QED BY <2>2, <2>3, <2>4, <2>6, <2>7, FetchChanges DEF TypeOK
<1>5. CASE Copy(f)
  <2> DEFINE i == d.fd
             p == d.pos + 1
             w == WriteAt(data[i], p, d.body[p])
  <2>1. PICK c \in Remote : d.body = Whole(c)
    BY <1>5 DEF Copy, BodyInv
  <2>2. c \in Block /\ Len(d.body) = Size /\ Size \in Nat
    BY <2>1, ConstantsType, WholeType
  <2>3. i \in Inodes /\ d.pos \in 0..Size /\ d.pos < Size
    BY <1>0, <1>5, <2>2 DEF Copy, FetchOK, DownloadState
  <2>4. p \in 1..Size /\ p \in 0..Size /\ p \in Nat \ {0}
    BY <2>2, <2>3
  <2>5. d.body[p] \in Block
    BY <2>1, <2>2, <2>4, WholeType
  <2>6. data[i] \in Seq(Block) /\ Len(data[i]) <= Size
    BY <2>3 DEF TypeOK
  <2>7. w \in Seq(Block) /\ Len(w) <= Size
    <3>1. w \in Seq(Block) /\ Len(w) = (IF Len(data[i]) > p THEN Len(data[i]) ELSE p)
      BY <2>4, <2>5, <2>6, WriteAtType
    <3>2. Len(data[i]) \in Nat
      BY <2>6, LenProperties
    <3> HIDE DEF w, i, p
    <3> QED BY <2>4, <2>6, <3>1, <3>2
  <2>8. /\ data' = [data EXCEPT ![i] = w]
        /\ fetch' = [fetch EXCEPT ![f].pos = p]
        /\ UNCHANGED <<name, up, hashes, blobs, told, edits, faults>>
    BY <1>5 DEF Copy
  <2>9. dirty' \in [Names -> SUBSET {"write", "remove"}]
    BY <1>5 DEF Copy, TypeOK
  <2> HIDE DEF i, p, w
  <2>10. data' \in [Inodes -> Seq(Block)] /\ \A j \in Inodes : Len(data'[j]) <= Size
    BY <2>3, <2>7, <2>8 DEF TypeOK
  <2>11. FetchOK([d EXCEPT !.pos = p]) /\ fetch' = [fetch EXCEPT ![f] = [d EXCEPT !.pos = p]]
    BY <1>0, <2>4, <2>8 DEF FetchOK, DownloadState
  <2> QED BY <2>8, <2>9, <2>10, <2>11, FetchChanges DEF TypeOK
<1>6. CASE RenamePartial(f)
  <2>1. name' \in [Names -> Inodes \cup {0}]
    BY <1>0, <1>6 DEF RenamePartial, TypeOK
  <2>2. dirty' \in [Names -> SUBSET {"write", "remove"}]
    <3>1. CASE UNCHANGED dirty
      BY <3>1 DEF TypeOK
    <3>2. CASE dirty' = [file |-> dirty["file"] \cup {"write"},
                         partial |-> dirty["partial"] \cup {"remove"}]
      <4>1. /\ dirty["file"] \cup {"write"} \in SUBSET {"write", "remove"}
            /\ dirty["partial"] \cup {"remove"} \in SUBSET {"write", "remove"}
        BY <1>0 DEF TypeOK
      <4> QED BY <3>2, <4>1 DEF Names
    <3> QED BY <1>6, <3>1, <3>2 DEF RenamePartial
  <2>3. PICK pc \in {"ok", "failed"} : fetch' = [fetch EXCEPT ![f] = [NoFetch EXCEPT !.pc = pc]]
    BY <1>6 DEF RenamePartial, Return
  <2>4. /\ fetch' \in [Fetches -> DownloadState]
        /\ \A g \in Fetches : fetch'[g].fd \in Inodes <=> fetch'[g].pc = "copy"
    BY <2>3, FetchReturns, FetchChanges
  <2>5. UNCHANGED <<data, up, hashes, blobs, told, edits, faults>>
    BY <1>6 DEF RenamePartial
  <2> QED BY <2>1, <2>2, <2>4, <2>5 DEF TypeOK
<1>7. CASE DownloadFails(f)
  <2>1. /\ fetch' = [fetch EXCEPT ![f] = [NoFetch EXCEPT !.pc = "failed"]]
        /\ faults' \in 0..MaxFaults
        /\ UNCHANGED <<name, data, dirty, up, hashes, blobs, told, edits>>
    BY <1>7, FaultType DEF DownloadFails, Return
  <2>2. /\ fetch' \in [Fetches -> DownloadState]
        /\ \A g \in Fetches : fetch'[g].fd \in Inodes <=> fetch'[g].pc = "copy"
    BY <2>1, FetchReturns, FetchChanges
  <2> QED BY <2>1, <2>2 DEF TypeOK
<1> QED BY <1>1, <1>2, <1>3, <1>4, <1>5, <1>6, <1>7 DEF Download

LEMMA TypeUpload ==
  ASSUME TypeOK, Upload \/ UploadFails \/ (\E n \in Names : Watch(n))
  PROVE  TypeOK'
<1> USE DEF local, server
<1>0. UploadOK(up) /\ UploadOK(NoUpload)
  BY NoUploadOK DEF TypeOK, UploadOK
<1>1. ASSUME NEW n \in Names, Watch(n) PROVE TypeOK'
  <2>1. dirty' \in [Names -> SUBSET {"write", "remove"}]
    BY <1>1 DEF Watch, TypeOK
  <2>2. UploadOK([NoUpload EXCEPT !.pc = "hash", !.name = n, !.ev = Content(n)])
    <3>1. Content(n) \in Contents
      BY ContentType
    <3>2. NoUpload.pc = "idle"
      BY DEF NoUpload
    <3> HIDE DEF NoUpload
    <3> QED BY <1>0, <3>1, <3>2 DEF UploadOK, UploadState
  <2>3. UploadOK(up')
    BY <1>0, <1>1, <2>2 DEF Watch
  <2>4. hashes' \in [Names -> Contents] /\ told' \in Contents
    <3>1. Content(n) \in Contents /\ NoSha \in Contents
      BY ContentType, ConstantsType
    <3>2. hashes \in [Names -> Contents] /\ told \in Contents
      BY DEF TypeOK
    <3> QED BY <1>1, <3>1, <3>2 DEF Watch
  <2>5. UNCHANGED <<name, data, fetch, edits, faults>>
    BY <1>1 DEF Watch
  <2> QED BY <2>1, <2>3, <2>4, <2>5 DEF TypeOK, UploadOK
<1>2. CASE UploadOK(up') /\ UNCHANGED <<name, data, dirty, fetch, hashes, told, edits, faults>>
  BY <1>2 DEF TypeOK, UploadOK
<1>3. CASE ComputeSHA
  <2>1. Content(up.name) \in Contents
    BY <1>0, ContentType DEF UploadOK, UploadState
  <2>2. UploadOK([up EXCEPT !.pc = "head", !.sha = Content(up.name)])
    BY <1>0, <1>3, <2>1 DEF ComputeSHA, UploadOK, UploadState
  <2> QED BY <1>0, <1>2, <1>3, <2>2 DEF ComputeSHA
<1>4. CASE HeadBlob
  <2>1. \A pc \in {"send", "open"} : UploadOK([up EXCEPT !.pc = pc])
    BY <1>0, <1>4 DEF HeadBlob, UploadOK, UploadState
  <2> QED BY <1>2, <1>4, <2>1 DEF HeadBlob
<1>5. CASE Open
  <2>1. Exists(up.name) => name[up.name] \in Inodes
    BY <1>0, ContentType DEF UploadOK, UploadState
  <2>2. Exists(up.name) => UploadOK([up EXCEPT !.pc = "put", !.fd = name[up.name]])
    BY <1>0, <2>1 DEF UploadOK, UploadState
  <2> QED BY <1>0, <1>2, <1>5, <2>2 DEF Open
<1>6. CASE PutBlock
  <2> DEFINE p == Len(up.stream) + 1
             s == Append(up.stream, data[up.fd][p])
  <2>1. up.fd \in Inodes /\ up.stream \in Seq(Block)
    BY <1>0, <1>6 DEF PutBlock, UploadOK, UploadState
  <2>2. data[up.fd] \in Seq(Block)
    BY <2>1 DEF TypeOK
  <2>3. p \in 1..Len(data[up.fd])
    BY <1>6, <2>1, <2>2, LenProperties DEF PutBlock
  <2>4. data[up.fd][p] \in Block
    BY <2>2, <2>3, ElementOfSeq
  <2>5. s \in Seq(Block)
    BY <2>1, <2>4, AppendProperties
  <2>6. up' = [up EXCEPT !.stream = s]
    BY <1>6 DEF PutBlock
  <2> HIDE DEF s
  <2>7. UploadOK(up')
    BY <1>0, <2>5, <2>6 DEF UploadOK, UploadState
  <2> QED BY <1>2, <1>6, <2>7 DEF PutBlock
<1>7. CASE PutBlob
  <2>1. UploadOK([up EXCEPT !.pc = "send", !.fd = 0])
    BY <1>0, ConstantsType DEF UploadOK, UploadState
  <2> QED BY <1>0, <1>2, <1>7, <2>1 DEF PutBlob
<1>8. CASE SendEvent
  <2>1. told' \in Contents
    BY <1>0, <1>8 DEF SendEvent, TypeOK, UploadOK, UploadState
  <2> QED BY <1>0, <1>8, <2>1 DEF SendEvent, TypeOK, UploadOK
<1>9. CASE UploadFails
  <2>1. faults' \in 0..MaxFaults
    BY <1>9, FaultType DEF UploadFails
  <2> QED BY <1>0, <1>9, <2>1 DEF UploadFails, TypeOK, UploadOK
<1> QED BY <1>1, <1>3, <1>4, <1>5, <1>6, <1>7, <1>8, <1>9 DEF Upload

LEMMA TypeRest ==
  ASSUME TypeOK, Crash \/ (\E c \in Edits : Edit(c)) \/ UNCHANGED vars
  PROVE  TypeOK'
<1> USE DEF local, server
<1>1. CASE Crash
  <2>1. faults' \in 0..MaxFaults
    BY <1>1, FaultType DEF Crash
  <2>2. /\ fetch' = [g \in Fetches |->
              IF Active(g) THEN [NoFetch EXCEPT !.pc = "failed"] ELSE fetch[g]]
        /\ up' = NoUpload /\ dirty' = [n \in Names |-> {}]
        /\ hashes' = [n \in Names |-> NoSha]
        /\ UNCHANGED <<name, data, told, edits>>
    BY <1>1 DEF Crash
  <2>3. FetchOK([NoFetch EXCEPT !.pc = "failed"])
    BY FetchReturns
  <2>4. \A g \in Fetches : FetchOK(fetch'[g])
    BY <2>2, <2>3 DEF TypeOK, FetchOK
  <2>5. /\ fetch' \in [Fetches -> DownloadState]
        /\ \A g \in Fetches : fetch'[g].fd \in Inodes <=> fetch'[g].pc = "copy"
    BY <2>2, <2>4 DEF FetchOK
  <2> QED BY <2>1, <2>2, <2>5, NoUploadOK, ConstantsType DEF TypeOK, UploadOK
<1>2. ASSUME NEW c \in Edits, Edit(c) PROVE TypeOK'
  <2> DEFINE i == IF Exists("file") THEN name["file"] ELSE FreeInode
  <2>1. i \in Inodes
    BY FileInode
  <2>2. /\ name' = [name EXCEPT !["file"] = i]
        /\ data' = [data EXCEPT ![i] = c]
        /\ dirty' = [dirty EXCEPT !["file"] = @ \cup {"write"}]
        /\ edits' = edits \cup {c}
        /\ UNCHANGED <<fetch, up, hashes, blobs, told, faults>>
    BY <1>2 DEF Edit, Notify
  <2> HIDE DEF i
  <2>3. data' \in [Inodes -> Seq(Block)] /\ \A j \in Inodes : Len(data'[j]) <= Size
    BY <2>1, <2>2, ConstantsType DEF TypeOK
  <2>4. dirty' \in [Names -> SUBSET {"write", "remove"}]
    BY <2>2, ConstantsType DEF TypeOK
  <2> QED BY <2>1, <2>2, <2>3, <2>4 DEF TypeOK
<1>3. CASE UNCHANGED vars
  BY <1>3 DEF vars, TypeOK
<1> QED BY <1>1, <1>2, <1>3

LEMMA TypeStep == TypeOK /\ BodyInv /\ [Next]_vars => TypeOK'
  BY TypeDownload, TypeUpload, TypeRest DEF Next

-----------------------------------------------------------------------------
(* What a fetch has got.                                                   *)

\* Only one fetch changes, and only Get gives it a body.
LEMMA BodyStep == TypeOK /\ BodyInv /\ [Next]_vars => BodyInv'
<1> SUFFICES ASSUME TypeOK, BodyInv, [Next]_vars PROVE BodyInv'
  OBVIOUS
<1> USE DEF local, server
<1>1. CASE UNCHANGED fetch
  BY <1>1 DEF BodyInv
<1>2. ASSUME NEW f \in Fetches, Download(f) \/ Get(f) \/ DownloadFails(f) \/ Begin(f)
      PROVE  BodyInv'
  <2> DEFINE d == fetch[f]
  <2>0. d \in DownloadState
    BY DEF TypeOK
  <2>1. ASSUME NEW e, fetch' = [fetch EXCEPT ![f] = e],
               e.pc \in {"create", "copy"} => \E c \in Remote : e.body = Whole(c)
        PROVE  BodyInv'
    BY <2>1 DEF BodyInv, TypeOK
  <2>2. ASSUME NEW pc \in {"stat", "remove", "get"}, Goto(f, pc) PROVE BodyInv'
    <3>1. [d EXCEPT !.pc = pc].pc = pc /\ fetch' = [fetch EXCEPT ![f] = [d EXCEPT !.pc = pc]]
      BY <2>0, <2>2 DEF Goto, DownloadState
    <3> QED BY <2>1, <3>1
  <2>3. ASSUME NEW pc \in {"ok", "failed"}, Return(f, pc) PROVE BodyInv'
    <3>1. [NoFetch EXCEPT !.pc = pc].pc = pc
      BY FetchReturns
    <3> QED BY <2>1, <2>3, <3>1 DEF Return
  <2>4. CASE Begin(f) \/ StatPartial(f) \/ RemovePartial(f) \/ DownloadFails(f) \/ RenamePartial(f)
    BY <2>2, <2>3, <2>4 DEF Begin, StatPartial, RemovePartial, DownloadFails, RenamePartial
  <2>5. CASE Get(f)
    <3>1. PICK c \in Remote :
            fetch' = [fetch EXCEPT ![f] = [d EXCEPT !.pc = "create", !.body = Whole(c)]]
      BY <2>5 DEF Get
    <3>2. [d EXCEPT !.pc = "create", !.body = Whole(c)].body = Whole(c)
      BY <2>0 DEF DownloadState
    <3> QED BY <2>1, <3>1, <3>2
  <2>6. CASE CreatePartial(f)
    <3>1. PICK i : fetch' = [fetch EXCEPT ![f] = [d EXCEPT !.pc = "copy", !.fd = i, !.pos = 0]]
      BY <2>6 DEF CreatePartial
    <3>2. [d EXCEPT !.pc = "copy", !.fd = i, !.pos = 0].body = d.body
      BY <2>0 DEF DownloadState
    <3>3. \E c \in Remote : d.body = Whole(c)
      BY <2>6 DEF CreatePartial, BodyInv
    <3> QED BY <2>1, <3>1, <3>2, <3>3
  <2>7. CASE Copy(f)
    <3>1. fetch' = [fetch EXCEPT ![f] = [d EXCEPT !.pos = d.pos + 1]]
      BY <2>7 DEF Copy
    <3>2. [d EXCEPT !.pos = d.pos + 1].body = d.body
      BY <2>0 DEF DownloadState
    <3>3. \E c \in Remote : d.body = Whole(c)
      BY <2>7 DEF Copy, BodyInv
    <3> QED BY <2>1, <3>1, <3>2, <3>3
  <2> QED BY <1>2, <2>4, <2>5, <2>6, <2>7 DEF Download
<1>3. CASE Crash
  <2>1. [NoFetch EXCEPT !.pc = "failed"].pc = "failed"
    BY FetchReturns
  <2> QED BY <1>3, <2>1 DEF Crash, BodyInv
<1>4. CASE (\E n \in Names : Watch(n)) \/ Upload \/ UploadFails \/ (\E c \in Edits : Edit(c))
           \/ UNCHANGED vars
  BY <1>1, <1>4 DEF Watch, Upload, ComputeSHA, HeadBlob, Open, PutBlock, PutBlob, SendEvent,
                    UploadFails, Edit, vars
<1> QED BY <1>2, <1>3, <1>4 DEF Next

-----------------------------------------------------------------------------
(* The file, when fetches of the path do not overlap.                      *)

Exclusive == SerialInv /\ PartialInv /\ FileWhole

\* A fetch that goes on is the only one that does.
LEMMA Alone ==
  ASSUME TypeOK, SerialInv, NEW f \in Fetches,
         Active(f) \/ \A g \in Fetches : ~Active(g),
         NEW e, fetch' = [fetch EXCEPT ![f] = e]
  PROVE  /\ SerialInv'
         /\ fetch'[f] = e
         /\ \A g \in Fetches : g # f => fetch'[g].pc # "copy"
<1>1. fetch'[f] = e /\ \A g \in Fetches : g # f => fetch'[g] = fetch[g]
  BY DEF TypeOK
<1>2. \A g \in Fetches : g # f => ~Active(g)
  BY DEF SerialInv
<1> QED BY <1>1, <1>2 DEF SerialInv, Active

\* The copy is complete when its last block is: the file is the body.
LEMMA Complete ==
  ASSUME TypeOK, BodyInv, PartialInv, NEW f \in Fetches,
         fetch[f].pc = "copy", fetch[f].pos = Len(fetch[f].body)
  PROVE  data[name["partial"]] = fetch[f].body /\ name["partial"] \in Inodes
<1> DEFINE d == fetch[f]
           x == data[name["partial"]]
<1>1. PICK c \in Remote : d.body = Whole(c)
  BY DEF BodyInv
<1>2. d.body \in Seq(Block) /\ Len(d.body) = Size
  BY <1>1, ConstantsType, WholeType
<1>3. d.fd = name["partial"] /\ d.fd \in Inodes
  BY DEF PartialInv, TypeOK
<1>4. x \in Seq(Block) /\ Len(x) = Len(d.body) /\ \A i \in 1..Len(x) : x[i] = d.body[i]
  <2>1. x \in Seq(Block)
    BY <1>3 DEF TypeOK
  <2>2. Len(x) = d.pos /\ \A i \in 1..d.pos : x[i] = d.body[i]
    BY <1>3 DEF PartialInv
  <2> QED BY <2>1, <2>2
<1>5. x = d.body
  BY <1>2, <1>4, SeqEqual
<1> QED BY <1>3, <1>5

LEMMA ExclusiveDownload ==
  ASSUME Overlap = FALSE, TypeOK, BodyInv, Exclusive, NEW f \in Fetches,
         Download(f) \/ Get(f) \/ DownloadFails(f) \/ Begin(f)
  PROVE  Exclusive'
<1> USE DEF local, server
<1> DEFINE d == fetch[f]
<1>0. d \in DownloadState /\ "file" \in Names /\ "partial" \in Names
  BY ConstantsType DEF TypeOK
<1>a. SerialInv /\ PartialInv /\ FileWhole
  BY DEF Exclusive
<1>b. Active(f) \/ \A g \in Fetches : ~Active(g)
  BY DEF Download, Get, DownloadFails, Begin, StatPartial, RemovePartial, CreatePartial, Copy,
         RenamePartial, Active
\* Steps that leave the files alone and are not in the copy.
<1>1. ASSUME NEW e, e.pc # "copy", fetch' = [fetch EXCEPT ![f] = e],
             UNCHANGED <<name, data, edits>>
      PROVE  Exclusive'
  <2>1. SerialInv' /\ \A g \in Fetches : fetch'[g].pc # "copy"
    BY <1>1, <1>a, <1>b, Alone
  <2> QED BY <1>1, <1>a, <2>1 DEF Exclusive, PartialInv, FileWhole, Exists, Content
<1>2. ASSUME NEW pc \in {"stat", "remove", "get"}
      PROVE  [d EXCEPT !.pc = pc].pc = pc
  BY <1>0 DEF DownloadState
<1>3. CASE Begin(f) \/ StatPartial(f)
  <2>1. PICK pc \in {"stat", "remove", "get"} : Goto(f, pc)
    BY <1>3 DEF Begin, StatPartial
  <2> QED BY <1>1, <1>2, <1>3, <2>1 DEF Begin, StatPartial, Goto
<1>4. CASE RemovePartial(f)
  <2>1. CASE Exists("partial")
    <3>1. /\ fetch' = [fetch EXCEPT ![f] = [d EXCEPT !.pc = "get"]]
          /\ name'["file"] = name["file"] /\ name'["partial"] = 0
          /\ data' = data /\ edits' = edits
      BY <1>0, <1>4, <2>1 DEF RemovePartial, Goto, TypeOK
    <3>2. SerialInv' /\ \A g \in Fetches : fetch'[g].pc # "copy"
      BY <1>2, <1>a, <1>b, <3>1, Alone
    <3>3. PartialInv'
      BY <3>1, <3>2 DEF PartialInv, Exists
    <3>4. FileWhole'
      BY <1>a, <3>1 DEF FileWhole, Exists, Content
    <3> QED BY <3>2, <3>3, <3>4 DEF Exclusive
  <2>2. CASE ~Exists("partial")
    BY <1>1, <1>4, <2>2, FetchReturns DEF RemovePartial, Return
  <2> QED BY <2>1, <2>2
<1>5. CASE Get(f)
  <2>1. PICK c \in Remote :
          fetch' = [fetch EXCEPT ![f] = [d EXCEPT !.pc = "create", !.body = Whole(c)]]
    BY <1>5 DEF Get
  <2>2. [d EXCEPT !.pc = "create", !.body = Whole(c)].pc = "create"
    BY <1>0 DEF DownloadState
  <2> QED BY <1>1, <1>5, <2>1, <2>2 DEF Get
<1>6. CASE CreatePartial(f)
  <2> DEFINE i == IF Exists("partial") THEN name["partial"] ELSE FreeInode
             e == [d EXCEPT !.pc = "copy", !.fd = i, !.pos = 0]
  <2>1. i \in Inodes /\ name["file"] # i
    <3>1. name["file"] # name["partial"] \/ name["file"] = 0
      BY <1>a DEF PartialInv, Exists
    <3> QED BY <3>1, PartialInode, ConstantsType
  <2>2. /\ name'["file"] = name["file"] /\ name'["partial"] = i
        /\ data'[i] = Empty /\ \A j \in Inodes : j # i => data'[j] = data[j]
        /\ edits' = edits /\ fetch' = [fetch EXCEPT ![f] = e]
    BY <1>0, <1>6, <2>1 DEF CreatePartial, TypeOK
  <2>3. e.fd = i /\ e.pos = 0 /\ e.pc = "copy"
    BY <1>0 DEF DownloadState
  <2> HIDE DEF i, e
  <2>4. SerialInv' /\ fetch'[f] = e /\ \A g \in Fetches : g # f => fetch'[g].pc # "copy"
    BY <1>a, <1>b, <2>2, Alone
  <2>5. PartialInv'
    BY <2>1, <2>2, <2>3, <2>4, EmptyType DEF PartialInv, Exists
  <2>6. FileWhole'
    BY <1>0, <1>a, <2>1, <2>2 DEF FileWhole, Exists, Content, TypeOK
  <2> QED BY <2>4, <2>5, <2>6 DEF Exclusive
<1>7. CASE Copy(f)
  <2> DEFINE i == d.fd
             p == d.pos + 1
             w == WriteAt(data[i], p, d.body[p])
             e == [d EXCEPT !.pos = p]
  <2>1. PICK c \in Remote : d.body = Whole(c)
    BY <1>7 DEF Copy, BodyInv
  <2>2. c \in Block /\ Len(d.body) = Size /\ Size \in Nat
    BY <2>1, ConstantsType, WholeType
  <2>3. /\ i \in Inodes /\ d.pos \in 0..Size /\ d.pos < Size
        /\ i = name["partial"] /\ data[i] \in Seq(Block) /\ Len(data[i]) = d.pos
        /\ \A k \in 1..d.pos : data[i][k] = d.body[k]
    BY <1>7, <1>a, <2>2 DEF Copy, PartialInv, TypeOK, DownloadState
  <2>4. p \in 1..Size /\ p \in Nat \ {0} /\ d.pos \in Nat
    BY <2>2, <2>3
  <2>5. d.body[p] \in Block
    BY <2>1, <2>2, <2>4, WholeType
  <2>6. Len(w) = p /\ w[p] = d.body[p] /\ \A k \in 1..d.pos : w[k] = data[i][k]
    <3> DEFINE old == data[i]
               b == d.body[p]
    <3>0. old \in Seq(Block) /\ p \in Nat \ {0} /\ b \in Block
      BY <2>3, <2>4, <2>5
    <3>w. w = WriteAt(old, p, b)
      OBVIOUS
    <3> HIDE DEF i, p, w, old, b
    <3>l. LET v == WriteAt(old, p, b)
          IN  /\ v \in Seq(Block) /\ Len(v) = (IF Len(old) > p THEN Len(old) ELSE p)
              /\ v[p] = b
              /\ \A k \in 1..Len(old) : k # p => v[k] = old[k]
      BY <3>0, WriteAtType, Zenon
    <3>1. /\ Len(w) = (IF Len(old) > p THEN Len(old) ELSE p) /\ w[p] = b
          /\ \A k \in 1..Len(old) : k # p => w[k] = old[k]
      BY <3>l, <3>w, Zenon
    <3> USE DEF i, p, old, b
    <3> HIDE DEF w
    <3> QED BY <2>3, <2>4, <3>1
  <2>7. /\ data'[i] = w /\ \A j \in Inodes : j # i => data'[j] = data[j]
        /\ name' = name /\ edits' = edits /\ fetch' = [fetch EXCEPT ![f] = e]
    BY <1>7, <2>3 DEF Copy, TypeOK
  <2>8. e.fd = i /\ e.pos = p /\ e.body = d.body
    BY <1>0 DEF DownloadState
  <2> HIDE DEF w, e
  <2>9. SerialInv' /\ fetch'[f] = e /\ \A g \in Fetches : g # f => fetch'[g].pc # "copy"
    BY <1>a, <1>b, <2>7, Alone
  <2>10. \A k \in 1..p : data'[i][k] = d.body[k]
    <3>1. \A k \in 1..p : k = p \/ k \in 1..d.pos
      BY <2>4
    <3> QED BY <2>3, <2>6, <2>7, <3>1
  <2> HIDE DEF i, p
  <2>11. PartialInv'
    BY <1>a, <2>3, <2>6, <2>7, <2>8, <2>9, <2>10 DEF PartialInv, Exists
  <2>12. FileWhole'
    BY <1>0, <1>a, <2>3, <2>7 DEF FileWhole, PartialInv, Exists, Content, TypeOK
  <2> QED BY <2>9, <2>11, <2>12 DEF Exclusive
<1>8. CASE RenamePartial(f)
  <2>1. CASE d.body = Whole(Wanted[f]) /\ Exists("partial")
    <3>1. /\ fetch' = [fetch EXCEPT ![f] = [NoFetch EXCEPT !.pc = "ok"]]
          /\ name'["file"] = name["partial"] /\ name'["partial"] = 0
          /\ data' = data /\ edits' = edits
      BY <1>0, <1>8, <2>1 DEF RenamePartial, Return, TypeOK
    <3>2. SerialInv' /\ \A g \in Fetches : fetch'[g].pc # "copy"
      BY <1>a, <1>b, <3>1, Alone, FetchReturns
    <3>3. PartialInv'
      BY <2>1, <3>1, <3>2 DEF PartialInv, Exists
    <3>4. data[name["partial"]] = Whole(Wanted[f])
      BY <1>8, <1>a, <2>1, Complete DEF RenamePartial
    <3>5. FileWhole'
      BY <3>1, <3>4, TransferAssumption DEF FileWhole, Content, Exists
    <3> QED BY <3>2, <3>3, <3>5 DEF Exclusive
  <2>2. CASE ~(d.body = Whole(Wanted[f]) /\ Exists("partial"))
    BY <1>1, <1>8, <2>2, FetchReturns DEF RenamePartial, Return
  <2> QED BY <2>1, <2>2
<1>9. CASE DownloadFails(f)
  BY <1>1, <1>9, FetchReturns DEF DownloadFails, Return
<1> QED BY <1>3, <1>4, <1>5, <1>6, <1>7, <1>8, <1>9 DEF Download

\* The user's edit does not touch the partial file, nor does a crash.
LEMMA ExclusiveRest ==
  ASSUME TypeOK, Exclusive, Crash \/ \E c \in Edits : Edit(c)
  PROVE  Exclusive'
<1> USE DEF local, server
<1>a. SerialInv /\ PartialInv /\ FileWhole
  BY DEF Exclusive
<1>1. CASE Crash
  <2>1. [NoFetch EXCEPT !.pc = "failed"].pc = "failed"
    BY FetchReturns
  <2>2. \A g \in Fetches : fetch'[g].pc \in {"idle", "ok", "failed"}
    BY <1>1, <2>1 DEF Crash, Active, TypeOK, DownloadState
  <2> QED BY <1>1, <1>a, <2>2
          DEF Crash, Exclusive, SerialInv, PartialInv, FileWhole, Active, Exists, Content
<1>2. ASSUME NEW c \in Edits, Edit(c) PROVE Exclusive'
  <2> DEFINE i == IF Exists("file") THEN name["file"] ELSE FreeInode
  <2>1. i \in Inodes /\ i # 0 /\ "file" \in Names /\ "partial" \in Names
    BY FileInode, ConstantsType
  <2>2. i # name["partial"]
    BY <1>a, FreeInodeFresh, ConstantsType DEF PartialInv, Exists
  <2>3. /\ name'["file"] = i /\ name'["partial"] = name["partial"]
        /\ data'[i] = c /\ \A j \in Inodes : j # i => data'[j] = data[j]
        /\ edits' = edits \cup {c} /\ fetch' = fetch
    BY <1>2, <2>1 DEF Edit, TypeOK
  <2> HIDE DEF i
  <2>4. \A f \in Fetches : fetch[f].pc = "copy" => fetch[f].fd \in Inodes
    BY DEF TypeOK
  <2>5. SerialInv' /\ FileWhole'
    BY <1>a, <2>3 DEF SerialInv, FileWhole, Active, Exists, Content
  <2>6. PartialInv'
    BY <1>a, <2>2, <2>3, <2>4 DEF PartialInv, Exists
  <2> QED BY <2>5, <2>6 DEF Exclusive
<1> QED BY <1>1, <1>2

LEMMA ExclusiveStep ==
  ASSUME Overlap = FALSE
  PROVE  TypeOK /\ BodyInv /\ Exclusive /\ [Next]_vars => Exclusive'
<1> SUFFICES ASSUME TypeOK, BodyInv, Exclusive, [Next]_vars PROVE Exclusive'
  OBVIOUS
<1>1. CASE (\E n \in Names : Watch(n)) \/ Upload \/ UploadFails \/ UNCHANGED vars
  <2>1. UNCHANGED <<name, data, fetch, edits>>
    BY <1>1 DEF Watch, Upload, ComputeSHA, HeadBlob, Open, PutBlock, PutBlob, SendEvent,
                UploadFails, vars, local
  <2> QED BY <2>1 DEF Exclusive, SerialInv, PartialInv, FileWhole, Active, Exists, Content
<1> QED BY <1>1, ExclusiveDownload, ExclusiveRest DEF Next

-----------------------------------------------------------------------------
(* What the server is told.                                                *)

\* What the user writes is never what a fetch asks for.
LEMMA LocalContents ==
  /\ \A r \in Remote : Whole(r) \notin Edits
  /\ NoSha \notin Edits
<1>1. /\ Size \in Nat \ {0} /\ 1 \in 1..Size /\ Remote \cap Local = {}
      /\ Remote \subseteq Block /\ Local \subseteq Block /\ "none" \notin Local
  BY TransferAssumption DEF Block
<1>2. \A c \in Block : Whole(c)[1] = c /\ Len(Whole(c)) = Size
  BY <1>1, WholeType
<1>3. Len(Empty) = 0
  BY EmptyType
<1>4. NoSha[1] = "none" /\ Len(NoSha) = 1
  BY DEF NoSha
<1> HIDE DEF Whole, Empty, NoSha
<1>5. \A r \in Remote : Whole(r) \notin Edits
  BY <1>1, <1>2, <1>3 DEF Edits
<1>6. NoSha \notin Edits
  BY <1>1, <1>2, <1>3, <1>4 DEF Edits
<1> QED BY <1>5, <1>6

\* The file is as it was, and its upload goes on.
LEMMA ReportGoesOn ==
  ASSUME ReportInv, UNCHANGED <<hashes, edits>>,
         dirty'["file"] = dirty["file"], Content("file")' = Content("file"),
         NEW c, c = Content("file"),
         c \in edits \ {Empty} /\ Reporting(c) => Reporting(c)' \/ Reported(c)',
         c \in edits \ {Empty} /\ Reported(c) => Reported(c)'
  PROVE  ReportInv'
  BY DEF ReportInv

LEMMA ReportDownload ==
  ASSUME TypeOK, BodyInv, Exclusive, ReportInv, NEW f \in Fetches,
         Download(f) \/ Get(f) \/ Begin(f)
  PROVE  ReportInv'
<1> USE DEF local, server
<1>a. PartialInv /\ FileWhole /\ "file" \in Names /\ "partial" \in Names /\ 0 \notin Inodes
  BY ConstantsType DEF Exclusive
<1>b. name["file"] \in Inodes \cup {0} /\ edits \subseteq Edits
  BY <1>a DEF TypeOK
<1>1. ASSUME UNCHANGED <<up, hashes, blobs, told, edits>>, dirty'["file"] = dirty["file"],
             name'["file"] = name["file"],
             Exists("file") => data'[name["file"]] = data[name["file"]]
      PROVE  ReportInv'
  BY <1>1, ReportGoesOn DEF Content, Exists, Reporting, Reported
<1>2. CASE Begin(f) \/ StatPartial(f) \/ Get(f)
  BY <1>1, <1>2 DEF Begin, StatPartial, Get
<1>3. CASE RemovePartial(f)
  <2>1. name'["file"] = name["file"] /\ dirty'["file"] = dirty["file"]
    BY <1>3, <1>a DEF RemovePartial, Notify, TypeOK
  <2> QED BY <1>1, <1>3, <2>1 DEF RemovePartial
<1>4. CASE CreatePartial(f)
  <2> DEFINE i == IF Exists("partial") THEN name["partial"] ELSE FreeInode
  <2>1. i \in Inodes /\ (Exists("file") => name["file"] # i)
    BY <1>a, PartialInode DEF PartialInv
  <2>2. /\ data' = [data EXCEPT ![i] = Empty]
        /\ name'["file"] = name["file"] /\ dirty'["file"] = dirty["file"]
        /\ UNCHANGED <<up, hashes, blobs, told, edits>>
    BY <1>4, <1>a DEF CreatePartial, Notify, TypeOK
  <2> HIDE DEF i
  <2>3. Exists("file") => data'[name["file"]] = data[name["file"]]
    BY <1>a, <1>b, <2>1, <2>2 DEF Exists, TypeOK
  <2> QED BY <1>1, <2>2, <2>3
<1>5. CASE Copy(f)
  <2>1. fetch[f].fd \in Inodes /\ fetch[f].fd = name["partial"]
    BY <1>5, <1>a DEF Copy, PartialInv, TypeOK
  <2>2. name["file"] # fetch[f].fd
    BY <1>a, <2>1 DEF PartialInv, Exists
  <2>3. dirty'["file"] = dirty["file"] /\ UNCHANGED <<name, up, hashes, blobs, told, edits>>
    BY <1>5, <1>a, <2>2 DEF Copy, NamesOf
  <2>4. Exists("file") => data'[name["file"]] = data[name["file"]]
    BY <1>5, <1>b, <2>1, <2>2 DEF Copy, Exists, TypeOK
  <2> QED BY <1>1, <2>3, <2>4
<1>6. CASE RenamePartial(f)
  <2>1. CASE fetch[f].body = Whole(Wanted[f]) /\ Exists("partial")
    <3>1. /\ name'["file"] = name["partial"] /\ data' = data
          /\ dirty'["file"] = dirty["file"] \cup {"write"}
          /\ UNCHANGED <<hashes, edits>>
      BY <1>6, <1>a, <2>1 DEF RenamePartial, TypeOK
    <3>2. data[name["partial"]] = Whole(Wanted[f])
      BY <1>6, <1>a, <2>1, Complete DEF RenamePartial
    <3>3. Content("file")' = Whole(Wanted[f])
      BY <2>1, <3>1, <3>2 DEF Content, Exists
    <3>4. Content("file")' \notin edits'
      BY <1>b, <3>1, <3>3, LocalContents, TransferAssumption
    <3> QED BY <3>1, <3>4 DEF ReportInv
  <2>2. CASE ~(fetch[f].body = Whole(Wanted[f]) /\ Exists("partial"))
    BY <1>1, <1>6, <2>2 DEF RenamePartial
  <2> QED BY <2>1, <2>2
<1> QED BY <1>2, <1>3, <1>4, <1>5, <1>6 DEF Download

\* A new content differs from every hash the watcher can have.
LEMMA ReportEdit ==
  ASSUME TypeOK, ReportInv, NEW c \in Edits, Edit(c)
  PROVE  ReportInv'
<1> USE DEF local, server
<1> DEFINE i == IF Exists("file") THEN name["file"] ELSE FreeInode
<1>1. i \in Inodes /\ i # 0 /\ "file" \in Names
  BY FileInode, ConstantsType
<1>2. /\ name'["file"] = i /\ data'[i] = c /\ edits' = edits \cup {c} /\ c \notin edits
      /\ dirty'["file"] = dirty["file"] \cup {"write"} /\ hashes' = hashes
  BY <1>1 DEF Edit, Notify, TypeOK
<1> HIDE DEF i
<1>3. Content("file")' = c
  BY <1>1, <1>2 DEF Content, Exists
<1> QED BY <1>2, <1>3 DEF ReportInv

\* The watcher passes on what it finds in the file, when it is new to it.
LEMMA ReportWatch ==
  ASSUME TypeOK, FileWhole, ReportInv, NEW n \in Names, Watch(n)
  PROVE  ReportInv'
<1> USE DEF local, server
<1> DEFINE c == Content("file")
           u == [NoUpload EXCEPT !.pc = "hash", !.name = n, !.ev = Content(n)]
<1>0. /\ "file" \in Names /\ edits \subseteq Edits /\ c' = c
      /\ UNCHANGED <<name, data, blobs, told, edits>>
  BY ConstantsType DEF TypeOK, Watch, Content, Exists
<1>1. /\ u.pc = "hash" /\ u.name = n /\ u.ev = Content(n)
      /\ u.stream = Empty /\ Len(Empty) = 0
  BY EmptyType DEF NoUpload
<1> HIDE DEF u
<1>2. up' \in {up, u} /\ up.pc = "idle" /\ dirty[n] # {}
  BY DEF Watch, u
<1>3. CASE n # "file"
  <2>1. dirty'["file"] = dirty["file"] /\ hashes'["file"] = hashes["file"]
    BY <1>0, <1>3 DEF Watch, TypeOK
  <2>2. up'.pc = "idle" \/ up'.name # "file"
    BY <1>1, <1>2, <1>3
  <2>3. ~Reporting(c) /\ (Reported(c) => Reported(c)')
    BY <1>0, <1>2, <2>2 DEF Reporting, Reported
  <2> QED BY <1>0, <2>1, <2>3 DEF ReportInv
<1>4. CASE n = "file"
  <2>1. dirty["file"] = {"write"} /\ dirty'["file"] = {}
    BY <1>0, <1>2, <1>4 DEF ReportInv, Watch, TypeOK
  <2>2. /\ hashes'["file"] = IF Exists("file") THEN c ELSE hashes["file"]
        /\ up' = IF c \in {NoSha, hashes["file"]} \/ Suppressed("file", c) THEN up ELSE u
    BY <1>0, <1>4, <2>1 DEF Watch, TypeOK, u
  <2>3. hashes'["file"] \in Edits => hashes'["file"] \in edits'
    <3>1. Exists("file") /\ c \in Edits => c \in edits
      BY LocalContents DEF FileWhole
    <3> QED BY <1>0, <2>2, <3>1 DEF ReportInv
  <2>4. ASSUME c \in edits \ {Empty} PROVE Reporting(c)'
    <3>1. c # NoSha /\ c # hashes["file"]
      BY <1>0, <2>1, <2>4, LocalContents DEF ReportInv
    <3>2. ~Suppressed("file", c)
      BY <1>0, <2>4, LocalContents, TransferAssumption DEF Suppressed
    <3>3. up' = u
      BY <2>2, <3>1, <3>2
    <3>4. c \in Seq(Block)
      BY <1>0, <2>4, ConstantsType
    <3>5. Len(c) \in Nat
      BY <3>4, LenProperties
    <3> HIDE DEF c
    <3>6. Len(up'.stream) = 0 /\ up'.pc = "hash" /\ up'.name = "file" /\ up'.ev = c
      BY <1>1, <1>4, <3>3 DEF c
    <3> QED BY <1>0, <3>5, <3>6 DEF Reporting
  <2> QED BY <1>0, <2>1, <2>3, <2>4 DEF ReportInv
<1> QED BY <1>3, <1>4

\* An upload of what is still in the file ends with the event that tells of it.
LEMMA ReportUpload ==
  ASSUME TypeOK, ReportInv, Upload
  PROVE  ReportInv'
<1> USE DEF local, server
<1> DEFINE c == Content("file")
<1>0. /\ up \in UploadState /\ up.stream \in Seq(Block) /\ Len(up.stream) \in Nat
      /\ NoUpload.pc = "idle" /\ "file" \in Names
  BY ConstantsType, LenProperties DEF TypeOK, UploadState, NoUpload
<1>1. UNCHANGED <<name, data, dirty, hashes, edits>> /\ c' = c
  BY DEF Upload, ComputeSHA, HeadBlob, Open, PutBlock, PutBlob, SendEvent, Content, Exists
<1>2. ASSUME c \in edits \ {Empty}
      PROVE  /\ Exists("file") /\ c = data[name["file"]] /\ c \in Seq(Block) /\ Len(c) \in Nat
             /\ c # Empty
  <2>1. c \in Seq(Block) /\ c # NoSha
    BY <1>2, ConstantsType, LocalContents DEF TypeOK
  <2> QED BY <1>2, <2>1, LenProperties DEF Content, Exists
<1>3. ASSUME c \in edits \ {Empty}, Reported(c) PROVE Reported(c)'
  <2>1. up.pc # "idle"
    BY DEF Upload, ComputeSHA, HeadBlob, Open, PutBlock, PutBlob, SendEvent
  <2>2. up.name # "file"
    BY <1>3, <2>1 DEF Reported
  <2>3. up'.pc = "idle" \/ up'.name # "file"
    BY <1>0, <2>2 DEF Upload, ComputeSHA, HeadBlob, Open, PutBlock, PutBlob, SendEvent, UploadState
  <2>4. told' = told /\ blobs \subseteq blobs'
    BY <2>2 DEF Upload, ComputeSHA, HeadBlob, Open, PutBlock, PutBlob, SendEvent
  <2> HIDE DEF c
  <2> QED BY <1>1, <1>3, <2>3, <2>4 DEF Reported
<1>4. ASSUME c \in edits \ {Empty}, Reporting(c) PROVE Reporting(c)' \/ Reported(c)'
  <2>0. /\ Exists("file") /\ c = data[name["file"]] /\ c \in Seq(Block) /\ Len(c) \in Nat
        /\ c # Empty
    BY <1>2, <1>4
  <2>a. Content(up.name) = c
    BY <1>4 DEF Reporting
  <2>b. Exists(up.name) /\ name[up.name] = name["file"]
    BY <1>4, <2>0 DEF Reporting
  <2> HIDE DEF c
  <2>1. CASE ComputeSHA
    <3>1. up' = [up EXCEPT !.pc = "head", !.sha = c]
      BY <2>1, <2>a, <2>b DEF ComputeSHA
    <3> QED BY <1>0, <1>1, <1>4, <3>1 DEF Reporting, UploadState
  <2>2. CASE HeadBlob
    <3>1. up.sha = c /\ blobs' = blobs
      BY <1>4, <2>2 DEF HeadBlob, Reporting
    <3> QED BY <1>0, <1>1, <1>4, <2>2, <3>1 DEF HeadBlob, Reporting, UploadState
  <2>3. CASE Open
    <3>1. up' = [up EXCEPT !.pc = "put", !.fd = name["file"]] /\ up.sha = c
      BY <1>4, <2>3, <2>b DEF Open, Reporting
    <3> QED BY <1>0, <1>1, <1>4, <3>1 DEF Reporting, UploadState
  <2>4. CASE PutBlock
    <3> DEFINE p == Len(up.stream) + 1
               s == Append(up.stream, c[p])
    <3>1. up.fd = name["file"] /\ up.sha = c /\ up.pc = "put" /\ up.name = "file" /\ up.ev = c
      BY <1>4, <2>4 DEF PutBlock, Reporting
    <3>2. up' = [up EXCEPT !.stream = s] /\ p <= Len(c)
      BY <2>0, <2>4, <3>1 DEF PutBlock
    <3>3. c[p] \in Block
      BY <1>0, <2>0, <3>2, ElementOfSeq
    <3>4. /\ s \in Seq(Block) /\ Len(s) = p /\ s[p] = c[p]
          /\ \A i \in 1..Len(up.stream) : s[i] = up.stream[i]
      BY <1>0, <3>3, AppendProperties
    <3>5. \A i \in 1..Len(up.stream) : up.stream[i] = c[i]
      BY <1>4 DEF Reporting
    <3> HIDE DEF s
    <3>6. \A i \in 1..Len(s) : s[i] = c[i]
      BY <1>0, <3>4, <3>5
    <3>7. /\ up'.pc = "put" /\ up'.name = "file" /\ up'.ev = c /\ up'.sha = c
          /\ up'.fd = name["file"] /\ up'.stream = s
      BY <1>0, <3>1, <3>2 DEF UploadState
    <3>8. Len(s) <= Len(c)
      BY <3>2, <3>4
    <3> QED BY <1>1, <3>6, <3>7, <3>8 DEF Reporting
  <2>5. CASE PutBlob
    <3>1. /\ up.fd = name["file"] /\ up.sha = c /\ up.pc = "put" /\ up.name = "file"
          /\ up.ev = c /\ Len(up.stream) <= Len(c)
          /\ \A i \in 1..Len(up.stream) : up.stream[i] = c[i]
      BY <1>4, <2>5 DEF PutBlob, Reporting
    <3>2. Len(up.stream) = Len(c)
      BY <1>0, <2>0, <2>5, <3>1 DEF PutBlob
    <3>3. up.stream = c
      BY <1>0, <2>0, <3>1, <3>2, SeqEqual
    <3>4. Accepts
      BY <2>0, <3>1, <3>3 DEF Accepts
    <3>5. up' = [up EXCEPT !.pc = "send", !.fd = 0] /\ blobs' = blobs \cup {c}
      BY <2>5, <3>1, <3>4 DEF PutBlob
    <3>6. /\ up'.pc = "send" /\ up'.name = "file" /\ up'.ev = c /\ up'.sha = c
          /\ up'.stream = up.stream
      BY <1>0, <3>1, <3>5 DEF UploadState
    <3> QED BY <1>1, <3>1, <3>5, <3>6 DEF Reporting
  <2>6. CASE SendEvent
    BY <1>0, <1>1, <1>4, <2>6 DEF SendEvent, Reporting, Reported
  <2> QED BY <2>1, <2>2, <2>3, <2>4, <2>5, <2>6 DEF Upload
<1> HIDE DEF c
<1>5. c = Content("file") /\ c' = Content("file")'
  BY DEF c
<1>6. dirty'["file"] = dirty["file"] /\ Content("file")' = Content("file")
  BY <1>1, <1>5
<1> QED BY <1>1, <1>3, <1>4, <1>5, <1>6, ReportGoesOn

LEMMA ReportStep ==
  TypeOK /\ BodyInv /\ Exclusive /\ (faults = 0 => ReportInv) /\ [Next]_vars
      => (faults' = 0 => ReportInv')
<1> SUFFICES ASSUME TypeOK, BodyInv, Exclusive, faults = 0 => ReportInv, [Next]_vars, faults' = 0
             PROVE  ReportInv'
  OBVIOUS
<1> USE DEF local, server
<1>0. faults \in Nat /\ ~Fault
  <2>1. faults \in 0..MaxFaults /\ MaxFaults \in Nat
    BY ConstantsType DEF TypeOK
  <2> QED BY <2>1 DEF Fault
<1>1. UNCHANGED faults
  BY <1>0 DEF Next, vars, Download, StatPartial, RemovePartial, CreatePartial, Copy, RenamePartial,
             Get, DownloadFails, Begin, Watch, Upload, ComputeSHA, HeadBlob, Open, PutBlock,
             PutBlob, SendEvent, UploadFails, Crash, Edit
<1>2. ReportInv /\ FileWhole
  BY <1>1 DEF Exclusive
<1>3. CASE UNCHANGED vars
  BY <1>2, <1>3 DEF vars, ReportInv, Reporting, Reported, Content, Exists
<1>4. ~UploadFails /\ ~Crash /\ \A f \in Fetches : ~DownloadFails(f)
  BY <1>0 DEF UploadFails, Crash, DownloadFails
<1> QED BY <1>2, <1>3, <1>4, ReportDownload, ReportEdit, ReportWatch, ReportUpload DEF Next

-----------------------------------------------------------------------------
(* The inductive invariant and what follows from it.                       *)

LEMMA InitIInv == Init => IInv
<1> SUFFICES ASSUME Init PROVE IInv
  OBVIOUS
<1>1. \A f \in Fetches : fetch[f].pc = "idle"
  BY DEF Init, NoFetch
<1>2. up.pc = "idle" /\ name["file"] = 0
  BY ConstantsType DEF Init, NoUpload
<1>3. BodyInv
  BY <1>1 DEF BodyInv
<1>4. SerialInv /\ PartialInv /\ FileWhole
  BY <1>1, <1>2 DEF SerialInv, PartialInv, FileWhole, Active, Exists
<1>5. ReportInv
  <2>1. Content("file") = NoSha /\ dirty["file"] = {} /\ hashes["file"] = NoSha /\ edits = {}
    BY <1>2, ConstantsType DEF Init, Content, Exists
  <2> QED BY <2>1, LocalContents DEF ReportInv
<1> QED BY <1>3, <1>4, <1>5, TypeInit DEF IInv

LEMMA IInvStep == IInv /\ [Next]_vars => IInv'
<1> SUFFICES ASSUME IInv, [Next]_vars PROVE IInv'
  OBVIOUS
<1>1. TypeOK' /\ BodyInv'
  BY TypeStep, BodyStep DEF IInv
<1>2. CASE Overlap = TRUE
  BY <1>1, <1>2 DEF IInv
<1>3. CASE Overlap = FALSE
  <2>1. Exclusive'
    BY <1>3, ExclusiveStep DEF IInv, Exclusive
  <2>2. faults' = 0 => ReportInv'
    BY <1>3, ReportStep DEF IInv, Exclusive
  <2> QED BY <1>1, <2>1, <2>2 DEF IInv, Exclusive
<1> QED BY <1>2, <1>3, TransferAssumption

LEMMA Invariance == Spec => []IInv
  BY InitIInv, IInvStep, PTL DEF Spec

\* Every variable keeps its type, whether fetches overlap or not: no file has
\* more blocks than a content, and a download or an upload that is over has
\* closed its file.
THEOREM TypeCorrect == Spec => []TypeOK
<1>1. IInv => TypeOK
  BY DEF IInv
<1> QED BY <1>1, Invariance, PTL

\* As long as fetches of a path do not overlap, Download never leaves a torn file
\* under its own name, whatever breaks or crashes and whatever the user writes.
THEOREM FileWholeCorrect ==
  ASSUME Overlap = FALSE
  PROVE  Spec => []FileWhole
<1>1. IInv => FileWhole
  BY DEF IInv
<1> QED BY <1>1, Invariance, PTL

\* ... and what the user wrote last is what the last event tells of and what the
\* server has, once watcher and upload have come to it, however the writes fall
\* between the watcher's hash, the upload's hash and the PUT.
THEOREM SettledIsReportedCorrect ==
  ASSUME Overlap = FALSE
  PROVE  Spec => []SettledIsReported
<1>1. IInv => SettledIsReported
  BY DEF IInv, SettledIsReported, ReportInv, Reporting, Reported
<1> QED BY <1>1, Invariance, PTL

\* ... and Download returns without an error only if the file has its content.
THEOREM AckMeansWrittenCorrect ==
  ASSUME Overlap = FALSE
  PROVE  Spec => AckMeansWritten
<1> DEFINE Ack == \A f \in Fetches : fetch[f].pc # "ok" /\ fetch'[f].pc = "ok"
                      => Content("file")' = Whole(Wanted[f])
<1>1. IInv /\ [Next]_vars => [Ack]_vars
  <2> SUFFICES ASSUME IInv, Next, NEW f \in Fetches, fetch[f].pc # "ok", fetch'[f].pc = "ok"
               PROVE  Content("file")' = Whole(Wanted[f])
    OBVIOUS
  <2>0. TypeOK /\ BodyInv /\ PartialInv /\ "file" \in Names
    BY ConstantsType DEF IInv
  <2>1. PICK g \in Fetches : Download(g) \/ Get(g) \/ DownloadFails(g) \/ Begin(g)
    <3>1. CASE fetch' = fetch
      BY <3>1
    <3>2. CASE Crash
      <4>1. [NoFetch EXCEPT !.pc = "failed"].pc = "failed"
        BY FetchReturns
      <4> QED BY <3>2, <4>1 DEF Crash
    <3>3. CASE (\E n \in Names : Watch(n)) \/ Upload \/ UploadFails \/ (\E c \in Edits : Edit(c))
      BY <3>1, <3>3 DEF Watch, Upload, ComputeSHA, HeadBlob, Open, PutBlock, PutBlob,
                        SendEvent, UploadFails, Edit
    <3> QED BY <3>2, <3>3 DEF Next
  <2>2. ASSUME NEW e, fetch' = [fetch EXCEPT ![g] = e], e.pc # "ok" PROVE FALSE
    BY <2>0, <2>2 DEF TypeOK
  <2>3. fetch[g] \in DownloadState
    BY <2>0 DEF TypeOK
  <2>4. /\ \A pc \in {"stat", "remove", "get"} : [fetch[g] EXCEPT !.pc = pc].pc = pc
        /\ [NoFetch EXCEPT !.pc = "failed"].pc = "failed"
    BY <2>3, FetchReturns DEF DownloadState
  <2>5. ~(Begin(g) \/ StatPartial(g) \/ RemovePartial(g) \/ DownloadFails(g))
    BY <2>2, <2>4 DEF Begin, StatPartial, RemovePartial, DownloadFails, Goto, Return
  <2>6. ~Get(g)
    <3>1. \A c : [fetch[g] EXCEPT !.pc = "create", !.body = Whole(c)].pc = "create"
      BY <2>3 DEF DownloadState
    <3> QED BY <2>2, <3>1 DEF Get
  <2>7. ~CreatePartial(g)
    <3> SUFFICES ASSUME CreatePartial(g) PROVE FALSE
      OBVIOUS
    <3>1. PICK i :
            fetch' = [fetch EXCEPT ![g] = [fetch[g] EXCEPT !.pc = "copy", !.fd = i, !.pos = 0]]
      BY DEF CreatePartial
    <3>2. [fetch[g] EXCEPT !.pc = "copy", !.fd = i, !.pos = 0].pc = "copy"
      BY <2>3 DEF DownloadState
    <3> QED BY <2>2, <3>1, <3>2
  <2>8. ~Copy(g)
    <3>1. [fetch[g] EXCEPT !.pos = fetch[g].pos + 1].pc = fetch[g].pc
      BY <2>3 DEF DownloadState
    <3> QED BY <2>2, <3>1 DEF Copy
  <2>9. RenamePartial(g) /\ fetch[g].body = Whole(Wanted[g]) /\ Exists("partial")
    BY <2>1, <2>2, <2>4, <2>5, <2>6, <2>7, <2>8 DEF Download, RenamePartial, Return
  <2>10. f = g
    BY <2>0, <2>9 DEF RenamePartial, Return, TypeOK
  <2>11. /\ name'["file"] = name["partial"] /\ data' = data
         /\ data[name["partial"]] = Whole(Wanted[f])
    BY <2>0, <2>9, <2>10, Complete DEF RenamePartial, TypeOK
  <2> QED BY <2>9, <2>11 DEF Content, Exists
<1> QED BY <1>1, Invariance, PTL DEF Spec, AckMeansWritten
=============================================================================
