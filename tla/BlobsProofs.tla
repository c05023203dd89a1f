---------------------------- MODULE BlobsProofs ----------------------------
(***************************************************************************)
(* Proofs about Blobs for every set of uploads, readers, blobs and records, *)
(* every page length and every bound of the model.                          *)
(***************************************************************************)
EXTENDS BlobsProperties, FiniteSetTheorems, TLAPS

-----------------------------------------------------------------------------
(* Types *)

\* The places a reader can be at.
ReadPlaces == {"idle", "page", "scan", "done", "total", "begin_count", "count", "counted"}

\* A reader that is not reading.
LEMMA NoReadType == NoRead \in Rds /\ NoRead.at = "idle" /\ NoRead.kept = {}
BY DEF NoRead, Rds, Walks

\* A reader of the right type has fields of the right types.
LEMMA ReadFields ==
    ASSUME NEW x \in Rds
    PROVE  /\ x.at \in ReadPlaces /\ x.kind \in Walks \cup {"status", "none"}
           /\ x.rows \subseteq Blobs \X Nat /\ x.out \subseteq Blobs \X Nat
           /\ x.cursor \in Nat /\ x.seen \subseteq Nat /\ x.kept \subseteq Nat
           /\ x.expected \in Nat /\ x.total \in Nat /\ x.imported \in Int /\ x.changed \in BOOLEAN
BY DEF Rds, ReadPlaces

\* The number of rows of `blobs`.
LEMMA MetasFinite == TypeOK => IsFiniteSet(metas) /\ Cardinality(metas) \in Nat
BY FiniteAssumption, FS_Subset, FS_CardinalityType DEF TypeOK

\* What there is to list are numbers.
LEMMA ListedType ==
    ASSUME NEW kind, NEW recs \in SUBSET Paths, NEW rs \in SUBSET (Blobs \X Paths),
           NEW ms \in SUBSET Blobs
    PROVE  Listed(kind, recs, rs, ms) \subseteq Nat \ {0}
<1>1. ms \subseteq Nat \ {0} /\ recs \subseteq Nat \ {0}
  BY OrderAssumption
<1>2. Missing(rs) \subseteq Nat \ {0}
  BY OrderAssumption DEF Missing, Referenced
<1> QED
  BY <1>1, <1>2 DEF Listed

\* Noted is about the readers.
LEMMA NotedReaders ==
    ASSUME NEW recs, NEW rs, NEW ms, rd' = Noted(recs, rs, ms)
    PROVE  rd' = [q \in Readers |-> rd'[q]]
BY Zenon DEF Noted

\* What Noted leaves of a walk.
LEMMA NotedRead ==
    ASSUME TypeOK, NEW recs, NEW rs, NEW ms, NEW r \in Readers, rd' = Noted(recs, rs, ms)
    PROVE  /\ rd'[r] \in Rds
           /\ rd'[r].at = rd[r].at /\ rd'[r].kind = rd[r].kind /\ rd'[r].rows = rd[r].rows
           /\ rd'[r].out = rd[r].out /\ rd'[r].cursor = rd[r].cursor /\ rd'[r].seen = rd[r].seen
           /\ rd'[r].expected = rd[r].expected /\ rd'[r].total = rd[r].total
           /\ rd'[r].imported = rd[r].imported
           /\ rd[r].at # "idle" =>
                /\ rd'[r].kept = rd[r].kept \cap Listed(rd[r].kind, recs, rs, ms)
                /\ ~rd'[r].changed => ~rd[r].changed /\ ~Moved(rd[r].kind, rs, ms)
<1>1. rd[r] \in Rds
  BY DEF TypeOK
<1>2. CASE rd[r].at = "idle"
  <2>1. rd'[r] = rd[r]
    BY <1>2 DEF Noted
  <2> QED
    BY <1>1, <1>2, <2>1
<1>3. CASE rd[r].at # "idle"
  <2> DEFINE there == rd[r].kept \cap Listed(rd[r].kind, recs, rs, ms)
             moved == rd[r].changed \/ Moved(rd[r].kind, rs, ms)
  <2>1. rd'[r] = [rd[r] EXCEPT !.kept = there, !.changed = moved]
    BY <1>3 DEF Noted
  <2>2. there \in SUBSET Nat
    BY <1>1, ReadFields
  <2>3. moved \in BOOLEAN
    BY <1>1, ReadFields DEF Moved
  <2>4. ~moved => ~rd[r].changed /\ ~Moved(rd[r].kind, rs, ms)
    OBVIOUS
  <2> HIDE DEF there, moved
  <2>5. /\ rd'[r] \in Rds
        /\ rd'[r].at = rd[r].at /\ rd'[r].kind = rd[r].kind /\ rd'[r].rows = rd[r].rows
        /\ rd'[r].out = rd[r].out /\ rd'[r].cursor = rd[r].cursor /\ rd'[r].seen = rd[r].seen
        /\ rd'[r].expected = rd[r].expected /\ rd'[r].total = rd[r].total
        /\ rd'[r].imported = rd[r].imported
        /\ rd'[r].kept = there /\ rd'[r].changed = moved
    BY <1>1, <2>1, <2>2, <2>3 DEF Rds
  <2> QED
    BY <2>4, <2>5 DEF there
<1> QED
  BY <1>2, <1>3

-----------------------------------------------------------------------------
(* The invariant in two halves: the store with the uploads, and each reader *)

StoreTypes ==
    /\ records \subseteq Paths /\ refs \subseteq Blobs \X Paths /\ metas \subseteq Blobs
    /\ file \in [Blobs -> States] /\ tmp \in [Blobs -> States]
    /\ conn \in Readers \cup {Free}
    /\ up \in [Uploaders -> Ups]
    /\ acked \subseteq Blobs /\ crossed \subseteq Blobs
    /\ writes \in Nat /\ uploads \in Nat

StoreInv == StoreTypes /\ RefsHaveRows /\ UploadsFit /\ StoredIsWhole /\ AnsweredIsServed

ReaderFits(r) ==
    /\ WalkFits(r) /\ CountFits(r)
    /\ rd[r].at = "done" => rd[r].kept \subseteq rd[r].seen
    /\ rd[r].at = "counted" /\ ~rd[r].changed =>
          /\ rd[r].imported \in 0 .. rd[r].expected
          /\ rd[r].imported = rd[r].expected => \A b \in metas : Served(b)

\* The halves make the whole.
LEMMA Halves ==
    /\ IInv => StoreInv /\ TypeOK /\ \A r \in Readers : rd[r] \in Rds /\ ReaderFits(r)
    /\ StoreInv' /\ rd' \in [Readers -> Rds] /\ (\A r \in Readers : ReaderFits(r)') => IInv'
<1>1. IInv => StoreInv /\ TypeOK /\ \A r \in Readers : rd[r] \in Rds /\ ReaderFits(r)
  BY DEF IInv, StoreInv, StoreTypes, TypeOK, ReaderFits, WalksMissNothing, CountsAreCautious
<1>2. StoreInv' /\ rd' \in [Readers -> Rds] /\ (\A r \in Readers : ReaderFits(r)') => IInv'
  BY DEF IInv, StoreInv, StoreTypes, TypeOK, ReaderFits, WalksMissNothing, CountsAreCautious
<1> QED
  BY <1>1, <1>2

\* Nothing is stored, sent or read at first.
LEMMA InitFits == Init => IInv
<1> SUFFICES ASSUME Init PROVE IInv
  OBVIOUS
<1>1. TypeOK
  BY NoReadType DEF Init, TypeOK, NoUpload, Ups, States
<1>2. RefsHaveRows /\ UploadsFit /\ StoredIsWhole /\ AnsweredIsServed
  BY DEF Init, RefsHaveRows, Referenced, UploadsFit, NoUpload, StoredIsWhole, AnsweredIsServed
<1>3. \A r \in Readers : rd[r].at = "idle"
  BY NoReadType DEF Init
<1> QED
  BY <1>1, <1>2, <1>3 DEF IInv, WalkFits, CountFits, WalksMissNothing, CountsAreCautious

-----------------------------------------------------------------------------
(* Uploads *)

\* An upload that is over.
LEMMA NoUploadType == NoUpload \in Ups /\ NoUpload.at = "idle" /\ NoUpload.blob = 0
BY DEF NoUpload, Ups

\* The number of no upload is the number of no blob.
LEMMA ZeroIsNoBlob == 0 \notin Blobs
BY OrderAssumption

\* Opening the temporary file.
LEMMA OpenTmpFits ==
    ASSUME StoreInv, NEW u \in Uploaders, OpenTmp(u)
    PROVE  StoreInv'
<1>1. PICK b \in Blobs :
        /\ tmp' = [tmp EXCEPT ![b] = "partial"]
        /\ up' = [v \in Uploaders |->
                    IF v = u THEN [at |-> "write", blob |-> b, fills |-> "tmp"]
                    ELSE IF up[v].blob = b /\ up[v].fills = "tmp"
                         THEN [up[v] EXCEPT !.fills = "nothing"] ELSE up[v]]
        /\ crossed' = IF Writing(u, b) THEN crossed \cup {b} ELSE crossed
  BY DEF OpenTmp
<1>2. UNCHANGED <<records, refs, metas, file, conn, acked, writes>> /\ uploads' = uploads + 1
  BY DEF OpenTmp, tables
<1>3. up'[u] = [at |-> "write", blob |-> b, fills |-> "tmp"]
  BY <1>1
<1>4. \A v \in Uploaders \ {u} :
        /\ up'[v] \in Ups /\ up'[v].at = up[v].at /\ up'[v].blob = up[v].blob
        /\ up'[v].fills = "nothing" \/ (up'[v].fills = up[v].fills /\ (up[v].blob = b => up[v].fills # "tmp"))
  BY <1>1 DEF StoreInv, StoreTypes, Ups
<1>5. crossed \subseteq crossed' /\ crossed' \subseteq Blobs
  BY <1>1 DEF StoreInv, StoreTypes
<1>6. \A v \in Uploaders \ {u} : up[v].blob = b /\ up[v].at \in {"write", "rename"} => b \in crossed'
  BY <1>1 DEF Writing
<1>7. StoreTypes'
  <2>1. up' \in [Uploaders -> Ups]
    BY <1>1, <1>3, <1>4 DEF Ups
  <2>2. tmp' \in [Blobs -> States]
    BY <1>1 DEF StoreInv, StoreTypes, States
  <2> QED
    BY <1>2, <1>5, <2>1, <2>2 DEF StoreInv, StoreTypes
<1>8. UploadsFit'
  <2>1. \A c \in Blobs : c # b => tmp'[c] = tmp[c]
    BY <1>1 DEF StoreInv, StoreTypes
  <2>2. ASSUME NEW v \in Uploaders
        PROVE  /\ up'[v].at # "idle" => up'[v].blob \in Blobs
               /\ up'[v].at # "write" => up'[v].fills = "nothing"
               /\ up'[v].at = "write" => up'[v].fills = "tmp" \/ up'[v].blob \in crossed'
               /\ up'[v].at = "rename" => tmp'[up'[v].blob] = "whole" \/ up'[v].blob \in crossed'
               /\ up'[v].at = "meta" \/ up'[v].fills = "file" => file'[up'[v].blob] # "none"
    <3>1. CASE v = u
      BY <1>1, <1>3, <3>1
    <3>2. CASE v # u
      <4>1. /\ up'[v].at = up[v].at /\ up'[v].blob = up[v].blob
            /\ up'[v].fills = "nothing" \/ (up'[v].fills = up[v].fills /\ (up[v].blob = b => up[v].fills # "tmp"))
        BY <1>4, <3>2
      <4>2. /\ up[v].at # "idle" => up[v].blob \in Blobs
            /\ up[v].at # "write" => up[v].fills = "nothing"
            /\ up[v].at = "write" => up[v].fills = "tmp" \/ up[v].blob \in crossed
            /\ up[v].at = "rename" => tmp[up[v].blob] = "whole" \/ up[v].blob \in crossed
            /\ up[v].at = "meta" \/ up[v].fills = "file" => file[up[v].blob] # "none"
        BY DEF StoreInv, UploadsFit, OnDisk
      <4>3. up[v].at \in {"write", "rename"} => up[v].blob # b \/ b \in crossed'
        BY <1>6, <3>2
      <4>4. up'[v].at = "write" => up'[v].fills = "tmp" \/ up'[v].blob \in crossed'
        <5>1. PICK c : c = up[v].blob
          OBVIOUS
        <5>2. up[v].at = "write" /\ up[v].fills = "tmp" /\ up'[v].fills = "nothing" => c \in crossed'
          BY <1>1, <3>2, <4>3, <5>1
        <5> QED
          BY <1>5, <4>1, <4>2, <5>1, <5>2
      <4>5. up'[v].at = "rename" => tmp'[up'[v].blob] = "whole" \/ up'[v].blob \in crossed'
        BY <1>5, <2>1, <4>1, <4>2, <4>3
      <4> QED
        BY <1>2, <4>1, <4>2, <4>4, <4>5
    <3> QED
      BY <3>1, <3>2
  <2>3. ASSUME NEW v \in Uploaders, NEW w \in Uploaders, v # w, up'[v].blob = up'[w].blob,
               up'[v].at \in {"write", "rename"}, up'[w].at \in {"write", "rename"}
        PROVE  up'[v].blob \in crossed'
    <3>1. CASE v = u
      BY <1>3, <1>4, <1>6, <2>3, <3>1
    <3>2. CASE w = u
      BY <1>3, <1>4, <1>6, <2>3, <3>2
    <3>3. CASE v # u /\ w # u
      BY <1>4, <1>5, <2>3, <3>3 DEF StoreInv, UploadsFit
    <3> QED
      BY <3>1, <3>2, <3>3
  <2> QED
    BY <2>2, <2>3 DEF UploadsFit, OnDisk
<1>9. RefsHaveRows' /\ StoredIsWhole' /\ AnsweredIsServed'
  BY <1>2, <1>5 DEF StoreInv, RefsHaveRows, Referenced, StoredIsWhole, AnsweredIsServed, Served
<1> QED
  BY <1>7, <1>8, <1>9 DEF StoreInv

\* Writing the last byte.
LEMMA EndWriteFits ==
    ASSUME StoreInv, NEW u \in Uploaders, EndWrite(u)
    PROVE  StoreInv' /\ \A b \in Blobs : OnDisk(b)' <=> OnDisk(b)
<1>1. UNCHANGED <<records, refs, metas, conn, acked, crossed, writes, uploads>>
  BY DEF EndWrite, tables
<1>2. up[u].at = "write" /\ up' = [up EXCEPT ![u].at = "rename", ![u].fills = "nothing"]
  BY DEF EndWrite
<1>3. up[u] \in Ups /\ up[u].blob \in Blobs /\ (up[u].fills = "tmp" \/ up[u].blob \in crossed)
  BY <1>2 DEF StoreInv, StoreTypes, UploadsFit
<1>4. /\ up' \in [Uploaders -> Ups]
      /\ up'[u].at = "rename" /\ up'[u].blob = up[u].blob /\ up'[u].fills = "nothing"
      /\ \A v \in Uploaders \ {u} : up'[v] = up[v]
  BY <1>2, <1>3 DEF StoreInv, StoreTypes, Ups
<1>5. /\ tmp' \in [Blobs -> States]
      /\ \A b \in Blobs : tmp'[b] = "whole" \/ tmp'[b] = tmp[b]
      /\ up[u].fills = "tmp" => tmp'[up[u].blob] = "whole"
  BY <1>3 DEF EndWrite, StoreInv, StoreTypes, States
<1>6. \A b \in Blobs : OnDisk(b)' <=> OnDisk(b)
  <2>1. CASE up[u].fills = "file"
    <3>1. file[up[u].blob] # "none"
      BY <2>1 DEF StoreInv, UploadsFit, OnDisk
    <3>2. file' = [file EXCEPT ![up[u].blob] = "whole"]
      BY <2>1 DEF EndWrite
    <3> QED
      BY <1>3, <3>1, <3>2 DEF OnDisk, StoreInv, StoreTypes
  <2>2. CASE up[u].fills # "file"
    BY <2>2 DEF EndWrite, OnDisk
  <2> QED
    BY <2>1, <2>2
<1>7. file' \in [Blobs -> States] /\ \A b \in Blobs : file'[b] = "whole" \/ file'[b] = file[b]
  BY <1>3 DEF EndWrite, StoreInv, StoreTypes, States
<1>8. StoreTypes'
  BY <1>1, <1>4, <1>5, <1>7 DEF StoreInv, StoreTypes
<1>9. UploadsFit'
  <2>1. ASSUME NEW v \in Uploaders
        PROVE  /\ up'[v].at # "idle" => up'[v].blob \in Blobs
               /\ up'[v].at # "write" => up'[v].fills = "nothing"
               /\ up'[v].at = "write" => up'[v].fills = "tmp" \/ up'[v].blob \in crossed'
               /\ up'[v].at = "rename" => tmp'[up'[v].blob] = "whole" \/ up'[v].blob \in crossed'
               /\ up'[v].at = "meta" \/ up'[v].fills = "file" => file'[up'[v].blob] # "none"
    <3>1. CASE v = u
      BY <1>1, <1>3, <1>4, <1>5, <3>1
    <3>2. CASE v # u
      <4>1. up'[v] = up[v] /\ up[v].blob \in Blobs \cup {0}
        BY <1>4, <3>2 DEF StoreInv, StoreTypes, Ups
      <4>2. /\ up[v].at # "idle" => up[v].blob \in Blobs
            /\ up[v].at # "write" => up[v].fills = "nothing"
            /\ up[v].at = "write" => up[v].fills = "tmp" \/ up[v].blob \in crossed
            /\ up[v].at = "rename" => tmp[up[v].blob] = "whole" \/ up[v].blob \in crossed
            /\ up[v].at = "meta" \/ up[v].fills = "file" => OnDisk(up[v].blob)
        BY DEF StoreInv, UploadsFit
      <4>3. up'[v].at = "rename" => tmp'[up'[v].blob] = "whole" \/ up'[v].blob \in crossed'
        BY <1>1, <1>5, <4>1, <4>2
      <4>4. up'[v].at = "meta" \/ up'[v].fills = "file" => file'[up'[v].blob] # "none"
        <5>1. up[v].fills = "file" => up[v].at # "idle"
          BY <4>2
        <5> QED
          BY <1>6, <4>1, <4>2, <5>1 DEF OnDisk
      <4> QED
        BY <1>1, <4>1, <4>2, <4>3, <4>4
    <3> QED
      BY <3>1, <3>2
  <2>2. ASSUME NEW v \in Uploaders, NEW w \in Uploaders, v # w, up'[v].blob = up'[w].blob,
               up'[v].at \in {"write", "rename"}, up'[w].at \in {"write", "rename"}
        PROVE  up'[v].blob \in crossed'
    <3>1. \A x \in Uploaders : /\ up'[x].blob = up[x].blob
                               /\ up'[x].at \in {"write", "rename"} => up[x].at \in {"write", "rename"}
      BY <1>2, <1>4
    <3>2. /\ up[v].blob = up[w].blob
          /\ up[v].at \in {"write", "rename"} /\ up[w].at \in {"write", "rename"}
      BY <2>2, <3>1
    <3>3. up[v].blob \in crossed
      BY <2>2, <3>2 DEF StoreInv, UploadsFit
    <3> QED
      BY <1>1, <3>1, <3>3
  <2> QED
    BY <2>1, <2>2 DEF UploadsFit, OnDisk
<1>10. RefsHaveRows' /\ StoredIsWhole' /\ AnsweredIsServed'
  <2>1. StoredIsWhole'
    BY <1>1, <1>7 DEF StoreInv, StoredIsWhole
  <2>2. AnsweredIsServed'
    BY <1>1, <1>6 DEF StoreInv, StoreTypes, AnsweredIsServed, Served, OnDisk
  <2> QED
    BY <1>1, <2>1, <2>2 DEF StoreInv, RefsHaveRows, Referenced
<1> QED
  BY <1>6, <1>8, <1>9, <1>10 DEF StoreInv

\* Renaming the temporary file: the upload found it whole, or is crossed, and so
\* is every other that writes it.
LEMMA RenameFits ==
    ASSUME StoreInv, NEW u \in Uploaders, Rename(u)
    PROVE  StoreInv' /\ \A b \in Blobs : b # up[u].blob => (OnDisk(b)' <=> OnDisk(b))
<1>1. PICK b : b = up[u].blob
  OBVIOUS
<1>2. UNCHANGED <<records, refs, metas, conn, acked, writes, uploads>>
  BY DEF Rename, tables
<1>3. up[u].at = "rename" /\ up[u] \in Ups /\ b \in Blobs /\ (tmp[b] = "whole" \/ b \in crossed)
  BY <1>1 DEF Rename, StoreInv, StoreTypes, UploadsFit
<1>4. /\ tmp[b] # "none" /\ tmp[b] \in States
      /\ file' = [file EXCEPT ![b] = tmp[b]] /\ tmp' = [tmp EXCEPT ![b] = "none"]
      /\ up' = [v \in Uploaders |->
                  IF v = u THEN [up[u] EXCEPT !.at = "meta"]
                  ELSE IF up[v].blob # b THEN up[v]
                  ELSE [up[v] EXCEPT !.fills = IF @ = "tmp" THEN "file" ELSE "nothing"]]
      /\ crossed' = IF tmp[b] = "whole" /\ ~Writing(u, b) THEN crossed \ {b} ELSE crossed
  BY <1>1, <1>3 DEF Rename, StoreInv, StoreTypes
<1>5. /\ file' \in [Blobs -> States] /\ file'[b] = tmp[b] /\ \A c \in Blobs : c # b => file'[c] = file[c]
      /\ tmp' \in [Blobs -> States] /\ \A c \in Blobs : c # b => tmp'[c] = tmp[c]
  BY <1>3, <1>4 DEF StoreInv, StoreTypes, States
<1>6. crossed' \subseteq Blobs /\ \A c \in crossed : c = b \/ c \in crossed'
  BY <1>4 DEF StoreInv, StoreTypes
<1>7. \A v \in Uploaders \ {u} : up[v].blob = b /\ up[v].at \in {"write", "rename"} =>
        b \in crossed' /\ b \in crossed
  <2> SUFFICES ASSUME NEW v \in Uploaders \ {u}, up[v].blob = b, up[v].at \in {"write", "rename"}
               PROVE  b \in crossed' /\ b \in crossed
    OBVIOUS
  <2>1. Writing(u, b)
    BY DEF Writing
  <2>2. b \in crossed
    BY <1>1, <1>3 DEF StoreInv, UploadsFit
  <2> QED
    BY <1>4, <2>1, <2>2
<1>8. up'[u].at = "meta" /\ up'[u].blob = b /\ up'[u].fills = "nothing" /\ up'[u] \in Ups
  BY <1>1, <1>3, <1>4 DEF StoreInv, UploadsFit, Ups
<1>9. ASSUME NEW v \in Uploaders \ {u}
      PROVE  /\ up'[v] \in Ups /\ up'[v].at = up[v].at /\ up'[v].blob = up[v].blob
             /\ up[v].blob # b => up'[v].fills = up[v].fills
             /\ up[v].fills # "tmp" /\ up[v].blob = b => up'[v].fills = "nothing"
  BY <1>4 DEF StoreInv, StoreTypes, Ups
<1>10. up' \in [Uploaders -> Ups]
  BY <1>4, <1>8, <1>9
<1>11. UploadsFit'
  <2>1. ASSUME NEW v \in Uploaders
        PROVE  /\ up'[v].at # "idle" => up'[v].blob \in Blobs
               /\ up'[v].at # "write" => up'[v].fills = "nothing"
               /\ up'[v].at = "write" => up'[v].fills = "tmp" \/ up'[v].blob \in crossed'
               /\ up'[v].at = "rename" => tmp'[up'[v].blob] = "whole" \/ up'[v].blob \in crossed'
               /\ up'[v].at = "meta" \/ up'[v].fills = "file" => file'[up'[v].blob] # "none"
    <3>1. CASE v = u
      BY <1>3, <1>4, <1>5, <1>8, <3>1
    <3>2. CASE v # u
      <4>1. /\ up[v].at # "idle" => up[v].blob \in Blobs
            /\ up[v].at # "write" => up[v].fills = "nothing"
            /\ up[v].at = "write" => up[v].fills = "tmp" \/ up[v].blob \in crossed
            /\ up[v].at = "rename" => tmp[up[v].blob] = "whole" \/ up[v].blob \in crossed
            /\ up[v].at = "meta" \/ up[v].fills = "file" => file[up[v].blob] # "none"
        BY DEF StoreInv, UploadsFit, OnDisk
      <4>2. CASE up[v].blob = b
        BY <1>4, <1>5, <1>7, <1>9, <3>2, <4>1, <4>2
      <4>3. CASE up[v].blob # b
        BY <1>5, <1>6, <1>9, <3>2, <4>1, <4>3
      <4> QED
        BY <4>2, <4>3
    <3> QED
      BY <3>1, <3>2
  <2>2. ASSUME NEW v \in Uploaders, NEW w \in Uploaders, v # w, up'[v].blob = up'[w].blob,
               up'[v].at \in {"write", "rename"}, up'[w].at \in {"write", "rename"}
        PROVE  up'[v].blob \in crossed'
    <3>1. v # u /\ w # u
      BY <1>8, <2>2
    <3>2. /\ up[v].blob = up[w].blob /\ up'[v].blob = up[v].blob
          /\ up[v].at \in {"write", "rename"} /\ up[w].at \in {"write", "rename"}
      BY <1>9, <2>2, <3>1
    <3>3. up[v].blob \in crossed
      BY <2>2, <3>2 DEF StoreInv, UploadsFit
    <3> QED
      BY <1>6, <1>7, <3>1, <3>2, <3>3
  <2> QED
    BY <2>1, <2>2 DEF UploadsFit, OnDisk
<1>12. StoreTypes'
  BY <1>2, <1>5, <1>6, <1>10 DEF StoreInv, StoreTypes
<1>13. StoredIsWhole'
  BY <1>3, <1>4, <1>5, <1>6 DEF StoreInv, StoredIsWhole
<1>14. AnsweredIsServed'
  BY <1>2, <1>4, <1>5 DEF StoreInv, StoreTypes, AnsweredIsServed, Served
<1>15. RefsHaveRows'
  BY <1>2 DEF StoreInv, RefsHaveRows, Referenced
<1>16. \A c \in Blobs : c # up[u].blob => (OnDisk(c)' <=> OnDisk(c))
  BY <1>1, <1>5 DEF OnDisk
<1> QED
  BY <1>11, <1>12, <1>13, <1>14, <1>15, <1>16 DEF StoreInv

\* An upload that goes on as it was, or is over.
LEMMA UploadsStayFit ==
    ASSUME StoreInv, up' \in [Uploaders -> Ups],
           \A v \in Uploaders : up'[v] = up[v] \/ up'[v] = NoUpload,
           UNCHANGED <<file, tmp, crossed>>
    PROVE  UploadsFit'
<1>1. ASSUME NEW v \in Uploaders
      PROVE  /\ up'[v].at # "idle" => up'[v].blob \in Blobs
             /\ up'[v].at # "write" => up'[v].fills = "nothing"
             /\ up'[v].at = "write" => up'[v].fills = "tmp" \/ up'[v].blob \in crossed'
             /\ up'[v].at = "rename" => tmp'[up'[v].blob] = "whole" \/ up'[v].blob \in crossed'
             /\ up'[v].at = "meta" \/ up'[v].fills = "file" => file'[up'[v].blob] # "none"
  <2>1. CASE up'[v] = up[v]
    BY <2>1 DEF StoreInv, UploadsFit, OnDisk
  <2>2. CASE up'[v] = NoUpload
    BY <2>2 DEF NoUpload
  <2> QED
    BY <2>1, <2>2
<1>2. ASSUME NEW v \in Uploaders, NEW w \in Uploaders, v # w, up'[v].blob = up'[w].blob,
             up'[v].at \in {"write", "rename"}, up'[w].at \in {"write", "rename"}
      PROVE  up'[v].blob \in crossed'
  <2>1. up'[v] = up[v] /\ up'[w] = up[w]
    BY <1>2, NoUploadType
  <2>2. up[v].blob \in crossed
    BY <1>2, <2>1 DEF StoreInv, UploadsFit
  <2> QED
    BY <2>1, <2>2
<1> QED
  BY <1>1, <1>2 DEF UploadsFit, OnDisk

\* The row and the answer, after the file.
LEMMA PutMetaFits ==
    ASSUME StoreInv, NEW u \in Uploaders, PutMeta(u)
    PROVE  StoreInv'
<1>1. /\ UNCHANGED <<records, refs, file, tmp, conn, crossed, writes, uploads>>
      /\ metas' = metas \cup {up[u].blob} /\ acked' = acked \cup {up[u].blob}
      /\ up' = [up EXCEPT ![u] = NoUpload]
  BY DEF PutMeta, disk
<1>2. up[u].blob \in Blobs /\ OnDisk(up[u].blob)
  BY DEF PutMeta, StoreInv, UploadsFit
<1>3. up' \in [Uploaders -> Ups] /\ \A v \in Uploaders : up'[v] = up[v] \/ up'[v] = NoUpload
  BY <1>1, NoUploadType DEF StoreInv, StoreTypes
<1>4. StoreTypes'
  BY <1>1, <1>2, <1>3 DEF StoreInv, StoreTypes
<1>5. UploadsFit'
  BY <1>1, <1>3, UploadsStayFit
<1>6. RefsHaveRows' /\ StoredIsWhole' /\ AnsweredIsServed'
  BY <1>1, <1>2 DEF StoreInv, RefsHaveRows, Referenced, StoredIsWhole, AnsweredIsServed, Served, OnDisk
<1> QED
  BY <1>4, <1>5, <1>6 DEF StoreInv

\* Steps that leave the store as it is, uploads that are over excepted.
LEMMA StoreStays ==
    ASSUME StoreInv, up' \in [Uploaders -> Ups], conn' \in Readers \cup {Free},
           \A v \in Uploaders : up'[v] = up[v] \/ up'[v] = NoUpload,
           UNCHANGED <<records, refs, metas, file, tmp, acked, crossed, writes, uploads>>
    PROVE  StoreInv'
<1>1. StoreTypes'
  BY DEF StoreInv, StoreTypes
<1>2. UploadsFit'
  BY UploadsStayFit
<1>3. RefsHaveRows' /\ StoredIsWhole' /\ AnsweredIsServed'
  BY DEF StoreInv, RefsHaveRows, Referenced, StoredIsWhole, AnsweredIsServed, Served
<1> QED
  BY <1>1, <1>2, <1>3 DEF StoreInv

-----------------------------------------------------------------------------
(* Records and repositories *)

\* Tables that fit together, written in one transaction.
LEMMA WrittenFits ==
    ASSUME StoreInv, NEW recs \in SUBSET Paths, NEW rs \in SUBSET (Blobs \X Paths),
           NEW ms \in SUBSET Blobs, Referenced(rs) \subseteq ms, \A x \in rs : x[2] \in recs,
           Written(recs, rs, ms)
    PROVE  StoreInv'
<1>1. /\ UNCHANGED <<file, tmp, conn, up, crossed, uploads>>
      /\ records' = recs /\ refs' = rs /\ metas' = ms /\ acked' = acked \cap ms
      /\ writes' = writes + 1
  BY DEF Written, disk
<1>2. StoreTypes'
  BY <1>1 DEF StoreInv, StoreTypes
<1>3. UploadsFit'
  BY <1>1, UploadsStayFit DEF StoreInv, StoreTypes
<1>4. RefsHaveRows'
  BY <1>1 DEF RefsHaveRows, Referenced
<1>5. StoredIsWhole' /\ AnsweredIsServed'
  BY <1>1 DEF StoreInv, StoredIsWhole, AnsweredIsServed, Served
<1> QED
  BY <1>2, <1>3, <1>4, <1>5 DEF StoreInv

\* Record writes, deletions and imports write such tables.
LEMMA WritesFit ==
    ASSUME StoreInv, WriteRecord \/ DeleteRecord \/ ImportRepo
    PROVE  \E recs \in SUBSET Paths, rs \in SUBSET (Blobs \X Paths), ms \in SUBSET Blobs :
              /\ Referenced(rs) \subseteq ms /\ \A x \in rs : x[2] \in recs
              /\ Written(recs, rs, ms)
<1> USE DEF Referenced
<1>1. CASE WriteRecord
  <2>1. PICK p \in Paths, bs \in Contents :
          Written(records \cup {p}, {x \in refs : x[2] # p} \cup (bs \X {p}), metas \cup bs)
    BY <1>1 DEF WriteRecord
  <2>2. bs \subseteq Blobs
    BY ContentsAssumption
  <2> DEFINE rs == {x \in refs : x[2] # p} \cup (bs \X {p})
  <2>3. \A x \in rs : x \in Blobs \X Paths /\ x[1] \in metas \cup bs /\ x[2] \in records \cup {p}
    BY <2>2 DEF StoreInv, StoreTypes, RefsHaveRows
  <2>4. records \cup {p} \in SUBSET Paths /\ metas \cup bs \in SUBSET Blobs
    BY <2>2 DEF StoreInv, StoreTypes
  <2> HIDE DEF rs
  <2> QED
    BY <2>1, <2>3, <2>4 DEF rs
<1>2. CASE DeleteRecord
  <2>1. PICK p \in records : Written(records \ {p}, {x \in refs : x[2] # p}, metas)
    BY <1>2 DEF DeleteRecord
  <2> DEFINE rs == {x \in refs : x[2] # p}
  <2>2. \A x \in rs : x \in Blobs \X Paths /\ x[1] \in metas /\ x[2] \in records \ {p}
    BY DEF StoreInv, StoreTypes, RefsHaveRows
  <2>3. records \ {p} \in SUBSET Paths /\ metas \in SUBSET Blobs
    BY DEF StoreInv, StoreTypes
  <2> HIDE DEF rs
  <2> QED
    BY <2>1, <2>2, <2>3 DEF rs
<1>3. CASE ImportRepo
  <2>1. PICK recs \in SUBSET Paths : \E held \in [recs -> Contents] :
          LET rs == {x \in Blobs \X recs : x[1] \in held[x[2]]} IN
          Written(recs, rs, Referenced(rs))
    BY <1>3 DEF ImportRepo
  <2>2. PICK held \in [recs -> Contents] :
          LET rs == {x \in Blobs \X recs : x[1] \in held[x[2]]} IN
          Written(recs, rs, Referenced(rs))
    BY <2>1
  <2> DEFINE rs == {x \in Blobs \X recs : x[1] \in held[x[2]]}
  <2>3. \A x \in rs : x \in Blobs \X Paths /\ x[1] \in Blobs /\ x[2] \in recs
    OBVIOUS
  <2>4. Written(recs, rs, Referenced(rs))
    BY <2>2
  <2> HIDE DEF rs
  <2>5. Referenced(rs) \in SUBSET Blobs
    BY <2>3
  <2> QED
    BY <2>3, <2>4, <2>5
<1> QED
  BY <1>1, <1>2, <1>3

-----------------------------------------------------------------------------
(* Readers while others act *)

\* A reader whose own step it is not goes on as it was, but for the observers:
\* its entries are cut down to those that are there, and of an unchanged table
\* they still contain all that is missing.  The connection protects the rows.
LEMMA ReaderStays ==
    ASSUME IInv, NEW q \in Readers,
           /\ rd'[q].at = rd[q].at /\ rd'[q].kind = rd[q].kind /\ rd'[q].rows = rd[q].rows
           /\ rd'[q].out = rd[q].out /\ rd'[q].cursor = rd[q].cursor /\ rd'[q].seen = rd[q].seen
           /\ rd'[q].expected = rd[q].expected /\ rd'[q].total = rd[q].total
           /\ rd'[q].imported = rd[q].imported,
           rd[q].at \in {"scan", "count"} => conn' = conn,
           rd[q].at = "count" => metas' = metas,
           \A b \in Blobs : OnDisk(b) => OnDisk(b)',
           rd[q].at \in {"page", "scan", "done"} =>
              rd'[q].kept \subseteq rd[q].kept \cap Entries(rd[q].kind)',
           rd[q].at # "idle" /\ ~rd'[q].changed =>
              /\ ~rd[q].changed
              /\ rd[q].kind = "missing" =>
                   refs' = refs /\ Missing(refs)' \cap rd[q].kept \subseteq rd'[q].kept
              /\ rd[q].kind = "status" => metas' = metas
    PROVE  ReaderFits(q)'
<1>1. TypeOK /\ WalkFits(q) /\ CountFits(q)
  BY Halves DEF ReaderFits
<1>2. WalkFits(q)'
  <2>1. rd[q].at \in {"page", "scan", "done"} =>
          rd'[q].kind \in Walks /\ rd'[q].kept \subseteq Entries(rd[q].kind)'
    BY <1>1 DEF WalkFits
  <2>2. rd[q].at \in {"page", "scan"} => \A e \in rd'[q].kept : Past(q, e)' \/ e \in rd'[q].seen
    BY <1>1 DEF WalkFits, Past
  <2>3. rd[q].at = "scan" =>
          conn' = q /\ rd'[q].kind = "missing"
          /\ rd'[q].kept \subseteq Referenced(rd'[q].rows \cup rd'[q].out)
    BY <1>1 DEF WalkFits
  <2>4. rd[q].at \in {"page", "scan", "done"} /\ rd'[q].kind = "missing" /\ ~rd'[q].changed =>
          Missing(refs)' \subseteq rd'[q].kept
    <3> SUFFICES ASSUME rd[q].at \in {"page", "scan", "done"}, rd'[q].kind = "missing", ~rd'[q].changed
                 PROVE  Missing(refs)' \subseteq rd'[q].kept
      OBVIOUS
    <3>1. ~rd[q].changed /\ refs' = refs /\ Missing(refs)' \cap rd[q].kept \subseteq rd'[q].kept
      OBVIOUS
    <3>2. Missing(refs) \subseteq rd[q].kept
      BY <1>1, <3>1 DEF WalkFits
    <3>3. Missing(refs)' \subseteq Missing(refs)
      BY <1>1, <3>1 DEF Missing, Referenced, TypeOK
    <3> QED
      BY <3>1, <3>2, <3>3
  <2> QED
    BY <2>1, <2>2, <2>3, <2>4 DEF WalkFits
<1>3. CountFits(q)'
  <2>1. rd[q].at \in {"total", "begin_count", "count", "counted"} => rd'[q].kind = "status"
    BY <1>1 DEF CountFits
  <2>2. rd[q].at \in {"total", "begin_count", "count", "counted"} /\ ~rd'[q].changed =>
          rd'[q].expected = Cardinality(metas')
    BY <1>1, <2>1 DEF CountFits
  <2>3. rd[q].at \in {"begin_count", "count"} /\ ~rd'[q].changed => rd'[q].total = Cardinality(metas')
    BY <1>1, <2>1 DEF CountFits
  <2>4. rd[q].at = "count" =>
          /\ conn' = q
          /\ rd'[q].rows \subseteq metas' \X {0} /\ rd'[q].out \subseteq metas' \X {0}
          /\ \A b \in metas' : OnDisk(b)' \/ <<b, 0>> \in rd'[q].rows \cup rd'[q].out
    BY <1>1 DEF CountFits, TypeOK
  <2>5. rd[q].at \in {"total", "begin_count"} => rd'[q].out = {}
    BY <1>1 DEF CountFits
  <2> QED
    BY <2>1, <2>2, <2>3, <2>4, <2>5 DEF CountFits
<1>4. rd'[q].at = "done" => rd'[q].kept \subseteq rd'[q].seen
  BY Halves DEF ReaderFits
<1>5. ASSUME rd'[q].at = "counted", ~rd'[q].changed
      PROVE  /\ rd'[q].imported \in 0 .. rd'[q].expected
             /\ rd'[q].imported = rd'[q].expected => \A b \in metas' : Served(b)'
  <2>1. rd[q].kind = "status"
    BY <1>1, <1>5 DEF CountFits
  <2>2. ~rd[q].changed /\ metas' = metas
    BY <1>5, <2>1
  <2>3. /\ rd[q].imported \in 0 .. rd[q].expected
        /\ rd[q].imported = rd[q].expected => \A b \in metas : Served(b)
    BY <1>5, <2>2, Halves DEF ReaderFits
  <2>4. \A b \in metas : Served(b) => Served(b)'
    BY <1>1, <2>2 DEF Served, OnDisk, TypeOK
  <2> QED
    BY <2>2, <2>3, <2>4
<1> QED
  BY <1>2, <1>3, <1>4, <1>5 DEF ReaderFits

\* A step that touches neither tables, files nor this reader.
LEMMA ReaderIgnores ==
    ASSUME IInv, NEW q \in Readers, rd'[q] = rd[q], UNCHANGED <<records, refs, metas, file>>,
           rd[q].at \in {"scan", "count"} => conn' = conn
    PROVE  ReaderFits(q)'
<1>1. WalkFits(q)' /\ CountFits(q)'
  <2>1. WalkFits(q) /\ CountFits(q)
    BY Halves DEF ReaderFits
  <2>2. WalkFits(q)'
    BY <2>1 DEF WalkFits, Entries, Listed, Missing, OnDisk, Past
  <2>3. CountFits(q)'
    BY <2>1 DEF CountFits, OnDisk
  <2> QED
    BY <2>2, <2>3
<1>2. ReaderFits(q)
  BY Halves
<1> QED
  BY <1>1, <1>2 DEF ReaderFits, Served

\* Tables change only while nobody holds the connection.
LEMMA NobodyReads ==
    ASSUME IInv, conn = Free, NEW q \in Readers
    PROVE  rd[q].at \notin {"scan", "count"}
<1>1. WalkFits(q) /\ CountFits(q)
  BY Halves DEF ReaderFits
<1> QED
  BY <1>1, FreeAssumption DEF WalkFits, CountFits

\* The tables as a reader finds them after a step that noted the change.
LEMMA NotedFits ==
    ASSUME IInv, conn = Free, UNCHANGED <<file, conn>>, NEW q \in Readers,
           rd' = Noted(records', refs', metas')
    PROVE  rd'[q] \in Rds /\ ReaderFits(q)'
<1>1. TypeOK
  BY Halves
<1>2. PICK recs, rs, ms : recs = records' /\ rs = refs' /\ ms = metas'
  OBVIOUS
<1>3. rd' = Noted(recs, rs, ms)
  BY <1>2
<1>4. /\ rd'[q] \in Rds
      /\ rd'[q].at = rd[q].at /\ rd'[q].kind = rd[q].kind /\ rd'[q].rows = rd[q].rows
      /\ rd'[q].out = rd[q].out /\ rd'[q].cursor = rd[q].cursor /\ rd'[q].seen = rd[q].seen
      /\ rd'[q].expected = rd[q].expected /\ rd'[q].total = rd[q].total
      /\ rd'[q].imported = rd[q].imported
      /\ rd[q].at # "idle" =>
           /\ rd'[q].kept = rd[q].kept \cap Listed(rd[q].kind, recs, rs, ms)
           /\ ~rd'[q].changed => ~rd[q].changed /\ ~Moved(rd[q].kind, rs, ms)
  BY <1>1, <1>3, NotedRead
<1>5. Missing(refs)' = Missing(rs) /\ Entries(rd[q].kind)' = Listed(rd[q].kind, recs, rs, ms)
  BY <1>2, <1>4 DEF Missing, Entries, Listed, OnDisk
<1>6. \A b \in Blobs : OnDisk(b) => OnDisk(b)'
  BY DEF OnDisk
<1>7. rd[q].at \notin {"scan", "count"}
  BY NobodyReads
<1>8. rd[q].at # "idle" =>
        /\ rd'[q].kept \subseteq rd[q].kept \cap Entries(rd[q].kind)'
        /\ ~rd'[q].changed =>
             /\ ~rd[q].changed
             /\ rd[q].kind = "missing" =>
                  refs' = refs /\ Missing(refs)' \cap rd[q].kept \subseteq rd'[q].kept
             /\ rd[q].kind = "status" => metas' = metas
  <2> SUFFICES ASSUME rd[q].at # "idle"
               PROVE  /\ rd'[q].kept \subseteq rd[q].kept \cap Entries(rd[q].kind)'
                      /\ ~rd'[q].changed =>
                           /\ ~rd[q].changed
                           /\ rd[q].kind = "missing" =>
                                refs' = refs /\ Missing(refs)' \cap rd[q].kept \subseteq rd'[q].kept
                           /\ rd[q].kind = "status" => metas' = metas
    OBVIOUS
  <2>1. rd'[q].kept = rd[q].kept \cap Entries(rd[q].kind)'
    BY <1>4, <1>5
  <2>2. rd[q].kind = "missing" => Missing(refs)' \cap rd[q].kept \subseteq rd'[q].kept
    BY <1>4, <1>5 DEF Listed
  <2>3. ~rd'[q].changed =>
          /\ ~rd[q].changed
          /\ rd[q].kind = "missing" => refs' = refs
          /\ rd[q].kind = "status" => metas' = metas
    BY <1>2, <1>4 DEF Moved
  <2> QED
    BY <2>1, <2>2, <2>3
<1> QED
  BY <1>4, <1>6, <1>7, <1>8, ReaderStays

-----------------------------------------------------------------------------
(* Readers at their own steps *)

\* What a step of one reader has to show: the others go on, for the connection
\* they may hold is not this reader's.
LEMMA OneReads ==
    ASSUME IInv, NEW r \in Readers, rd'[r] \in Rds, ReaderFits(r)',
           rd' = [rd EXCEPT ![r] = rd'[r]],
           conn' = conn \/ (conn \in {Free, r} /\ conn' \in {Free, r}),
           UNCHANGED <<records, refs, metas, file, tmp, up, acked, crossed, writes, uploads>>
    PROVE  IInv'
<1>1. TypeOK /\ StoreInv
  BY Halves
<1>2. rd' \in [Readers -> Rds]
  BY <1>1 DEF TypeOK
<1>3. ASSUME NEW q \in Readers, q # r PROVE ReaderFits(q)'
  <2>1. rd'[q] = rd[q]
    BY <1>1, <1>3 DEF TypeOK
  <2>2. rd[q].at \in {"scan", "count"} => conn = q
    BY Halves DEF ReaderFits, WalkFits, CountFits
  <2>3. rd[q].at \in {"scan", "count"} => conn' = conn
    BY <1>3, <2>2, FreeAssumption
  <2> QED
    BY <2>1, <2>3, ReaderIgnores
<1>4. StoreInv'
  BY <1>1, StoreStays DEF StoreInv, StoreTypes
<1> QED
  BY <1>2, <1>3, <1>4, Halves

\* A reader that is idle afterwards has nothing to show.
LEMMA IdleFits ==
    ASSUME NEW r \in Readers, rd'[r] = NoRead
    PROVE  rd'[r] \in Rds /\ ReaderFits(r)'
BY NoReadType DEF ReaderFits, WalkFits, CountFits

\* Starting a walk.
LEMMA StartWalkFits ==
    ASSUME IInv, NEW r \in Readers, StartWalk(r)
    PROVE  IInv'
<1>1. TypeOK
  BY Halves
<1>2. PICK kind \in Walks :
        rd' = [rd EXCEPT ![r] = [NoRead EXCEPT !.at = "page", !.kind = kind, !.kept = Entries(kind)]]
  BY Zenon DEF StartWalk
<1>3. PICK there : there = Entries(kind)
  OBVIOUS
<1>4. there \subseteq Nat
  BY <1>1, <1>3, ListedType DEF TypeOK, Entries
<1>5. /\ rd'[r] = [NoRead EXCEPT !.at = "page", !.kind = kind, !.kept = there]
      /\ rd' = [rd EXCEPT ![r] = rd'[r]]
  BY <1>1, <1>2, <1>3 DEF TypeOK
<1>6. /\ rd'[r] \in Rds
      /\ rd'[r].at = "page" /\ rd'[r].kind = kind /\ rd'[r].kept = there
      /\ rd'[r].cursor = 0
  <2>1. rd'[r] = [at |-> "page", kind |-> kind, rows |-> {}, out |-> {}, cursor |-> 0, seen |-> {},
                  kept |-> there, expected |-> 0, total |-> 0, imported |-> 0, changed |-> FALSE]
    BY <1>5, Zenon DEF NoRead
  <2> QED
    BY <1>4, <2>1 DEF Rds
<1>7. UNCHANGED <<records, refs, metas, file, tmp, conn, up, acked, crossed, writes, uploads>>
  BY DEF StartWalk, tables, disk
<1>8. Entries(kind)' = there /\ (kind = "missing" => Missing(refs)' = there)
  BY <1>3, <1>7 DEF Entries, Listed, Missing, OnDisk
<1>9. WalkFits(r)'
  BY <1>6, <1>8 DEF WalkFits, Past
<1>10. ReaderFits(r)'
  BY <1>6, <1>9 DEF ReaderFits, CountFits
<1> QED
  BY <1>5, <1>6, <1>7, <1>10, OneReads

\* Counting the rows, for the first time.
LEMMA CountExpectedFits ==
    ASSUME IInv, NEW r \in Readers, CountExpected(r)
    PROVE  IInv'
<1>1. TypeOK
  BY Halves
<1>2. PICK n : n = Cardinality(metas)
  OBVIOUS
<1>3. n \in Nat
  BY <1>1, <1>2, MetasFinite
<1>4. /\ rd'[r] = [NoRead EXCEPT !.at = "total", !.kind = "status", !.expected = n]
      /\ rd' = [rd EXCEPT ![r] = rd'[r]]
  BY <1>1, <1>2 DEF TypeOK, CountExpected
<1>5. rd'[r] \in Rds /\ rd'[r].at = "total" /\ rd'[r].kind = "status" /\ rd'[r].expected = n
      /\ rd'[r].out = {}
  <2>1. rd'[r] = [at |-> "total", kind |-> "status", rows |-> {}, out |-> {}, cursor |-> 0,
                  seen |-> {}, kept |-> {}, expected |-> n, total |-> 0, imported |-> 0,
                  changed |-> FALSE]
    BY <1>4, Zenon DEF NoRead
  <2> QED
    BY <1>3, <2>1 DEF Rds
<1>6. UNCHANGED <<records, refs, metas, file, tmp, conn, up, acked, crossed, writes, uploads>>
  BY DEF CountExpected, tables, disk
<1>7. ReaderFits(r)'
  BY <1>2, <1>5, <1>6 DEF ReaderFits, WalkFits, CountFits
<1> QED
  BY <1>4, <1>5, <1>6, <1>7, OneReads

\* Counting them again.
LEMMA CountTotalFits ==
    ASSUME IInv, NEW r \in Readers, CountTotal(r)
    PROVE  IInv'
<1>1. TypeOK /\ rd[r] \in Rds /\ CountFits(r) /\ rd[r].at = "total"
  BY Halves DEF ReaderFits, CountTotal
<1>2. PICK n : n = Cardinality(metas)
  OBVIOUS
<1>3. n \in Nat
  BY <1>1, <1>2, MetasFinite
<1>4. rd'[r] = [rd[r] EXCEPT !.at = "begin_count", !.total = n] /\ rd' = [rd EXCEPT ![r] = rd'[r]]
  BY <1>1, <1>2 DEF TypeOK, CountTotal
<1>5. /\ rd'[r] \in Rds /\ rd'[r].at = "begin_count" /\ rd'[r].kind = rd[r].kind
      /\ rd'[r].total = n /\ rd'[r].expected = rd[r].expected /\ rd'[r].changed = rd[r].changed
      /\ rd'[r].out = rd[r].out
  BY <1>1, <1>3, <1>4 DEF Rds
<1>6. UNCHANGED <<records, refs, metas, file, tmp, conn, up, acked, crossed, writes, uploads>>
  BY DEF CountTotal, tables, disk
<1>7. ReaderFits(r)'
  BY <1>1, <1>2, <1>5, <1>6 DEF ReaderFits, WalkFits, CountFits
<1> QED
  BY <1>4, <1>5, <1>6, <1>7, OneReads

\* Asking for the rows whose files are to be looked for.
LEMMA QueryCountFits ==
    ASSUME IInv, NEW r \in Readers, QueryCount(r)
    PROVE  IInv'
<1>1. TypeOK /\ rd[r] \in Rds /\ CountFits(r) /\ rd[r].at = "begin_count" /\ conn = Free /\ conn' = r
  BY Halves DEF ReaderFits, QueryCount
<1>2. rd'[r] = [rd[r] EXCEPT !.at = "count", !.rows = metas \X {0}] /\ rd' = [rd EXCEPT ![r] = rd'[r]]
  BY <1>1 DEF TypeOK, QueryCount
<1>3. metas \X {0} \in SUBSET (Blobs \X Nat)
  BY <1>1 DEF TypeOK
<1>4. /\ rd'[r] \in Rds /\ rd'[r].at = "count" /\ rd'[r].kind = rd[r].kind
      /\ rd'[r].total = rd[r].total /\ rd'[r].expected = rd[r].expected
      /\ rd'[r].changed = rd[r].changed /\ rd'[r].rows = metas \X {0} /\ rd'[r].out = rd[r].out
  BY <1>1, <1>2, <1>3 DEF Rds
<1>5. UNCHANGED <<records, refs, metas, file, tmp, up, acked, crossed, writes, uploads>>
  BY DEF QueryCount, tables, disk
<1>6. rd[r].out = {}
  BY <1>1 DEF CountFits
<1>7. ReaderFits(r)'
  BY <1>1, <1>4, <1>5, <1>6 DEF ReaderFits, WalkFits, CountFits
<1> QED
  BY <1>1, <1>2, <1>4, <1>5, <1>7, OneReads

\* Asking for all references.
LEMMA QueryMissingFits ==
    ASSUME IInv, NEW r \in Readers, QueryMissing(r)
    PROVE  IInv'
<1>1. /\ TypeOK /\ rd[r] \in Rds /\ WalkFits(r)
      /\ rd[r].at = "page" /\ rd[r].kind = "missing" /\ conn = Free /\ conn' = r
  BY Halves DEF ReaderFits, QueryMissing
<1>2. rd'[r] = [rd[r] EXCEPT !.at = "scan", !.rows = refs] /\ rd' = [rd EXCEPT ![r] = rd'[r]]
  BY <1>1 DEF TypeOK, QueryMissing
<1>3. refs \in SUBSET (Blobs \X Nat)
  BY <1>1, OrderAssumption DEF TypeOK
<1>4. /\ rd'[r] \in Rds /\ rd'[r].at = "scan" /\ rd'[r].kind = rd[r].kind
      /\ rd'[r].kept = rd[r].kept /\ rd'[r].seen = rd[r].seen /\ rd'[r].cursor = rd[r].cursor
      /\ rd'[r].changed = rd[r].changed /\ rd'[r].rows = refs
  BY <1>1, <1>2, <1>3 DEF Rds
<1>5. UNCHANGED <<records, refs, metas, file, tmp, up, acked, crossed, writes, uploads>>
  BY DEF QueryMissing, tables, disk
<1>6. rd[r].kept \subseteq Missing(refs) /\ (\A e \in rd[r].kept : Past(r, e) \/ e \in rd[r].seen)
      /\ (~rd[r].changed => Missing(refs) \subseteq rd[r].kept)
  BY <1>1 DEF WalkFits, Entries, Listed
<1>7. Missing(refs)' = Missing(refs) /\ Entries("missing")' = Missing(refs)
  BY <1>5 DEF Missing, Entries, Listed, OnDisk
<1>8. rd'[r].kept \subseteq Referenced(rd'[r].rows \cup rd'[r].out)
  BY <1>4, <1>6 DEF Missing, Referenced
<1>9. \A e \in rd'[r].kept : Past(r, e)' \/ e \in rd'[r].seen
  BY <1>4, <1>6 DEF Past
<1>10. WalkFits(r)'
  BY <1>1, <1>4, <1>6, <1>7, <1>8, <1>9 DEF WalkFits, Walks
<1>11. ReaderFits(r)'
  BY <1>4, <1>10 DEF ReaderFits, CountFits
<1> QED
  BY <1>1, <1>2, <1>4, <1>5, <1>11, OneReads

\* Looking for the file of one row: what misses it moves from the rows to those
\* that do.
LEMMA StatRowFits ==
    ASSUME IInv, NEW r \in Readers, StatRow(r)
    PROVE  IInv'
<1>1. /\ TypeOK /\ rd[r] \in Rds /\ WalkFits(r) /\ CountFits(r)
      /\ rd[r].at \in {"scan", "count"}
  BY Halves DEF ReaderFits, StatRow
<1>2. PICK x \in rd[r].rows :
        rd' = [rd EXCEPT ![r].rows = @ \ {x},
                         ![r].out = IF OnDisk(x[1]) THEN @ ELSE @ \cup {x}]
  BY Zenon DEF StatRow
<1>3. PICK rows, out : rows = rd[r].rows \ {x}
                       /\ out = IF OnDisk(x[1]) THEN rd[r].out ELSE rd[r].out \cup {x}
  OBVIOUS
<1>4. rows \in SUBSET (Blobs \X Nat) /\ out \in SUBSET (Blobs \X Nat)
  BY <1>1, <1>2, <1>3, ReadFields
<1>5. /\ rd' = [rd EXCEPT ![r] = rd'[r]]
      /\ rd'[r] \in Rds /\ rd'[r].at = rd[r].at /\ rd'[r].kind = rd[r].kind
      /\ rd'[r].kept = rd[r].kept /\ rd'[r].seen = rd[r].seen /\ rd'[r].cursor = rd[r].cursor
      /\ rd'[r].changed = rd[r].changed /\ rd'[r].total = rd[r].total
      /\ rd'[r].expected = rd[r].expected /\ rd'[r].rows = rows /\ rd'[r].out = out
  <2>1. rd' = [rd EXCEPT ![r] = [rd[r] EXCEPT !.rows = rows, !.out = out]]
    BY <1>2, <1>3
  <2>2. rd'[r] = [rd[r] EXCEPT !.rows = rows, !.out = out] /\ rd' = [rd EXCEPT ![r] = rd'[r]]
    BY <1>1, <2>1 DEF TypeOK
  <2> QED
    BY <1>1, <1>4, <2>2 DEF Rds
<1>6. UNCHANGED <<records, refs, metas, file, tmp, conn, up, acked, crossed, writes, uploads>>
  BY DEF StatRow, tables, disk
<1>7. Missing(refs)' = Missing(refs) /\ Entries("missing")' = Missing(refs)
  BY <1>6 DEF Missing, Entries, Listed, OnDisk
<1>8. CASE rd[r].at = "scan"
  <2>1. /\ conn = r /\ rd[r].kind = "missing" /\ rd[r].kept \subseteq Missing(refs)
        /\ rd[r].kept \subseteq Referenced(rd[r].rows \cup rd[r].out)
        /\ \A e \in rd[r].kept : Past(r, e) \/ e \in rd[r].seen
        /\ ~rd[r].changed => Missing(refs) \subseteq rd[r].kept
    BY <1>1, <1>8 DEF WalkFits, Entries, Listed
  <2>2. ASSUME NEW e \in rd[r].kept PROVE e \in Referenced(rows \cup out)
    <3>1. ~OnDisk(e)
      BY <2>1 DEF Missing
    <3>2. PICK y \in rd[r].rows \cup rd[r].out : y[1] = e
      BY <2>1 DEF Referenced
    <3>3. y \in rows \cup out
      BY <1>3, <3>1, <3>2
    <3> QED
      BY <3>2, <3>3 DEF Referenced
  <2>3. \A e \in rd'[r].kept : Past(r, e)' \/ e \in rd'[r].seen
    BY <1>5, <2>1 DEF Past
  <2>4. WalkFits(r)'
    BY <1>5, <1>6, <1>7, <1>8, <2>1, <2>2, <2>3 DEF WalkFits, Walks
  <2>5. ReaderFits(r)'
    BY <1>5, <1>8, <2>4 DEF ReaderFits, CountFits
  <2> QED
    BY <1>5, <1>6, <2>5, OneReads
<1>9. CASE rd[r].at = "count"
  <2>1. /\ conn = r /\ rd[r].rows \subseteq metas \X {0} /\ rd[r].out \subseteq metas \X {0}
        /\ \A b \in metas : OnDisk(b) \/ <<b, 0>> \in rd[r].rows \cup rd[r].out
    BY <1>1, <1>9 DEF CountFits
  <2>2. rows \subseteq metas \X {0} /\ out \subseteq metas \X {0}
    BY <1>2, <1>3, <2>1
  <2>3. ASSUME NEW b \in metas PROVE OnDisk(b) \/ <<b, 0>> \in rows \cup out
    <3>1. CASE x = <<b, 0>>
      BY <1>3, <3>1
    <3>2. CASE x # <<b, 0>>
      BY <1>3, <2>1, <3>2
    <3> QED
      BY <3>1, <3>2
  <2>4. CountFits(r)'
    <3>0. rd'[r].rows \cup rd'[r].out = rows \cup out /\ file' = file
      BY <1>5, <1>6
    <3>1. ASSUME NEW b \in metas PROVE OnDisk(b)' \/ <<b, 0>> \in rd'[r].rows \cup rd'[r].out
      <4>1. OnDisk(b) \/ <<b, 0>> \in rows \cup out
        BY <2>3
      <4> QED
        BY <3>0, <4>1 DEF OnDisk
    <3> QED
      BY <1>1, <1>5, <1>6, <1>9, <2>1, <2>2, <3>1 DEF CountFits
  <2>5. ReaderFits(r)'
    BY <1>5, <1>9, <2>4 DEF ReaderFits, WalkFits
  <2> QED
    BY <1>5, <1>6, <2>5, OneReads
<1> QED
  BY <1>1, <1>8, <1>9

\* As many rows are left out as there are.
LEMMA RowsCounted ==
    ASSUME TypeOK, NEW out \in SUBSET (metas \X {0})
    PROVE  /\ Cardinality(out) \in 0 .. Cardinality(metas)
           /\ Cardinality(out) = 0 => out = {}
<1>1. IsFiniteSet(metas) /\ Cardinality(metas) \in Nat
  BY MetasFinite
<1>2. IsFiniteSet({0}) /\ Cardinality({0}) = 1
  BY FS_Singleton
<1>3. PICK n \in Nat : n = Cardinality(metas)
  BY <1>1
<1>4. IsFiniteSet(metas \X {0}) /\ Cardinality(metas \X {0}) = n
  <2>1. /\ IsFiniteSet(metas \X {0})
        /\ Cardinality(metas \X {0}) = Cardinality(metas) * Cardinality({0})
    BY <1>1, <1>2, FS_Product
  <2>2. Cardinality(metas \X {0}) = n * 1
    BY <1>2, <1>3, <2>1
  <2> QED
    BY <2>1, <2>2
<1>5. IsFiniteSet(out) /\ Cardinality(out) <= n
  BY <1>4, FS_Subset
<1>6. Cardinality(out) \in Nat
  BY <1>5, FS_CardinalityType
<1>7. Cardinality(out) = 0 => out = {}
  BY <1>5, FS_EmptySet
<1> QED
  BY <1>3, <1>5, <1>6, <1>7

\* The answer to a count.
LEMMA EndCountFits ==
    ASSUME IInv, NEW r \in Readers, EndCount(r)
    PROVE  IInv'
<1>1. /\ TypeOK /\ rd[r] \in Rds /\ CountFits(r)
      /\ rd[r].at = "count" /\ rd[r].rows = {} /\ conn' = Free
  BY Halves DEF ReaderFits, EndCount
<1>2. /\ conn = r /\ rd[r].out \in SUBSET (metas \X {0}) /\ rd[r].kind = "status"
      /\ \A b \in metas : OnDisk(b) \/ <<b, 0>> \in rd[r].out
      /\ ~rd[r].changed => rd[r].expected = Cardinality(metas) /\ rd[r].total = Cardinality(metas)
  BY <1>1 DEF CountFits
<1>3. PICK missing, n, t : missing = Cardinality(rd[r].out) /\ n = Cardinality(metas) /\ t = rd[r].total
  OBVIOUS
<1>4. missing \in 0 .. n /\ n \in Nat /\ t \in Nat /\ (missing = 0 => rd[r].out = {})
  BY <1>1, <1>2, <1>3, RowsCounted, MetasFinite, ReadFields
<1>5. /\ rd'[r] = [rd[r] EXCEPT !.at = "counted", !.imported = t - missing, !.out = {}]
      /\ rd' = [rd EXCEPT ![r] = rd'[r]]
  BY <1>1, <1>3 DEF TypeOK, EndCount, Imported
<1>6. t - missing \in Int
  BY <1>4
<1>7. /\ rd'[r] \in Rds /\ rd'[r].at = "counted" /\ rd'[r].kind = rd[r].kind
      /\ rd'[r].changed = rd[r].changed /\ rd'[r].expected = rd[r].expected
      /\ rd'[r].imported = t - missing
  BY <1>1, <1>5, <1>6 DEF Rds
<1>8. UNCHANGED <<records, refs, metas, file, tmp, up, acked, crossed, writes, uploads>>
  BY DEF EndCount, tables, disk
<1>9. ASSUME ~rd[r].changed
      PROVE  /\ t - missing \in 0 .. rd[r].expected
             /\ t - missing = rd[r].expected => \A b \in metas : Served(b)'
  <2>1. rd[r].expected = n /\ t = n
    BY <1>2, <1>3, <1>9
  <2>2. t - missing = n => missing = 0
    BY <1>4, <2>1
  <2>3. missing = 0 => \A b \in metas : Served(b)'
    BY <1>2, <1>4, <1>8 DEF Served, OnDisk
  <2> QED
    BY <1>4, <2>1, <2>2, <2>3
<1>10. CountFits(r)' /\ WalkFits(r)'
  BY <1>2, <1>7, <1>8 DEF CountFits, WalkFits
<1>11. ReaderFits(r)'
  BY <1>7, <1>8, <1>9, <1>10 DEF ReaderFits
<1> QED
  BY <1>1, <1>2, <1>5, <1>7, <1>8, <1>11, OneReads

\* Leaving.
LEMMA LeaveFits ==
    ASSUME IInv, NEW r \in Readers, Leave(r)
    PROVE  IInv'
<1>1. rd'[r] = NoRead /\ rd' = [rd EXCEPT ![r] = rd'[r]]
  BY Halves DEF TypeOK, Leave
<1>2. UNCHANGED <<records, refs, metas, file, tmp, up, acked, crossed, writes, uploads>>
  BY DEF Leave, tables, disk
<1>3. conn' = conn \/ (conn \in {Free, r} /\ conn' \in {Free, r})
  BY DEF Leave
<1> QED
  BY <1>1, <1>2, <1>3, IdleFits, OneReads

-----------------------------------------------------------------------------
(* Pages *)

\* What a page leaves a reader with.
LEMMA AnsweredRead ==
    ASSUME TypeOK, NEW r \in Readers, NEW page, NEW keys \in SUBSET (Nat \ {0}),
           Answered(r, page, keys)
    PROVE  \E last \in keys \cup {0} :
              /\ (last = 0) <=> (keys = {})
              /\ \A k \in keys : InOrder(rd[r].kind, k, last)
              /\ rd' = [rd EXCEPT ![r] = rd'[r]]
              /\ rd'[r] \in Rds
              /\ rd'[r].at = IF Cardinality(page) = Limit THEN "page" ELSE "done"
              /\ rd'[r].kind = rd[r].kind /\ rd'[r].kept = rd[r].kept
              /\ rd'[r].changed = rd[r].changed
              /\ rd'[r].cursor = last /\ rd'[r].seen = rd[r].seen \cup keys
<1>1. rd[r] \in Rds
  BY DEF TypeOK
<1>2. PICK last \in keys \cup {0} :
        /\ (last = 0) <=> (keys = {})
        /\ \A k \in keys : InOrder(rd[r].kind, k, last)
        /\ rd' = [rd EXCEPT ![r].at = IF Cardinality(page) = Limit THEN "page" ELSE "done",
                            ![r].cursor = last,
                            ![r].seen = @ \cup keys,
                            ![r].out = {}]
  BY Zenon DEF Answered
<1>3. PICK at, seen : /\ at = IF Cardinality(page) = Limit THEN "page" ELSE "done"
                      /\ seen = rd[r].seen \cup keys
  OBVIOUS
<1>4. last \in Nat /\ at \in {"page", "done"} /\ seen \in SUBSET Nat
  <2>1. rd[r].seen \subseteq Nat
    BY <1>1, ReadFields
  <2> QED
    BY <1>2, <1>3, <2>1
<1>5. rd' = [rd EXCEPT ![r] = [rd[r] EXCEPT !.at = at, !.cursor = last, !.seen = seen, !.out = {}]]
  BY <1>2, <1>3
<1>6. /\ rd'[r] = [rd[r] EXCEPT !.at = at, !.cursor = last, !.seen = seen, !.out = {}]
      /\ rd' = [rd EXCEPT ![r] = rd'[r]]
  BY <1>5 DEF TypeOK
<1>7. /\ rd'[r] \in Rds /\ rd'[r].at = at /\ rd'[r].kind = rd[r].kind /\ rd'[r].kept = rd[r].kept
      /\ rd'[r].changed = rd[r].changed /\ rd'[r].cursor = last /\ rd'[r].seen = seen
  BY <1>1, <1>4, <1>6 DEF Rds
<1> QED
  BY <1>2, <1>3, <1>6, <1>7

\* A full page is not empty, and one that is not full has all there was left.
LEMMA PageFull ==
    ASSUME NEW page, NEW all, IsPage(page, all)
    PROVE  /\ page \subseteq all
           /\ Cardinality(page) = Limit => page # {}
           /\ Cardinality(page) # Limit => page = all
BY FS_EmptySet, LimitAssumption DEF IsPage

\* A page of a table: what is left comes past its last entry.
LEMMA TablePageFits ==
    ASSUME IInv, NEW r \in Readers, TablePage(r), rd[r].kind \in Walks \ {"missing"}
    PROVE  IInv'
<1>1. TypeOK /\ WalkFits(r) /\ rd[r].at = "page" /\ rd[r].kind \in Walks /\ rd[r].kind # "missing"
  BY Halves DEF ReaderFits, TablePage
<1>2. UNCHANGED <<records, refs, metas, file, tmp, conn, up, acked, crossed, writes, uploads>>
  BY DEF TablePage, tables, disk
<1>3. PICK kind, entries : kind = rd[r].kind /\ entries = Entries(kind)
  OBVIOUS
<1>4. entries \subseteq Nat \ {0}
  BY <1>1, <1>3, ListedType DEF TypeOK, Entries
<1>5. PICK page \in SUBSET entries :
        /\ IsPage(page, {e \in entries : Past(r, e)})
        /\ \A d \in page, e \in entries \ page : Past(r, e) => InOrder(kind, d, e)
        /\ Answered(r, page, page)
  BY <1>3 DEF TablePage
<1>6. PICK last \in page \cup {0} :
        /\ (last = 0) <=> (page = {})
        /\ \A k \in page : InOrder(kind, k, last)
        /\ rd' = [rd EXCEPT ![r] = rd'[r]]
        /\ rd'[r] \in Rds
        /\ rd'[r].at = IF Cardinality(page) = Limit THEN "page" ELSE "done"
        /\ rd'[r].kind = kind /\ rd'[r].kept = rd[r].kept
        /\ rd'[r].changed = rd[r].changed
        /\ rd'[r].cursor = last /\ rd'[r].seen = rd[r].seen \cup page
  <2>1. page \in SUBSET (Nat \ {0}) /\ Answered(r, page, page)
    BY <1>4, <1>5
  <2>2. \E last \in page \cup {0} :
          /\ (last = 0) <=> (page = {})
          /\ \A k \in page : InOrder(rd[r].kind, k, last)
          /\ rd' = [rd EXCEPT ![r] = rd'[r]]
          /\ rd'[r] \in Rds
          /\ rd'[r].at = IF Cardinality(page) = Limit THEN "page" ELSE "done"
          /\ rd'[r].kind = rd[r].kind /\ rd'[r].kept = rd[r].kept
          /\ rd'[r].changed = rd[r].changed
          /\ rd'[r].cursor = last /\ rd'[r].seen = rd[r].seen \cup page
    BY <1>1, <2>1, AnsweredRead, Zenon
  <2> QED
    BY <1>3, <2>2, Zenon
<1>7. rd[r].kept \subseteq entries /\ \A e \in rd[r].kept : Past(r, e) \/ e \in rd[r].seen
  BY <1>1, <1>3 DEF WalkFits
<1>8. Entries(kind)' = entries
  BY <1>2, <1>3 DEF Entries, Listed, Missing, OnDisk
<1>9. CASE Cardinality(page) = Limit
  <2>1. page # {} /\ last \in page
    BY <1>5, <1>6, <1>9, PageFull
  <2>2. ASSUME NEW e \in rd[r].kept PROVE Past(r, e)' \/ e \in rd[r].seen \cup page
    <3>1. CASE e \in page \/ e \in rd[r].seen
      BY <3>1
    <3>2. CASE e \notin page /\ e \notin rd[r].seen
      <4>1. InOrder(kind, last, e) /\ e # last
        BY <1>5, <1>7, <2>1, <3>2
      <4>2. e \in Nat /\ last \in Nat
        BY <1>4, <1>7, <2>1
      <4>3. IF kind = "reversed" THEN e < last ELSE e > last
        BY <4>1, <4>2 DEF InOrder
      <4> QED
        BY <1>6, <4>3 DEF Past
    <3> QED
      BY <3>1, <3>2
  <2>3. rd'[r].at = "page"
    BY <1>6, <1>9
  <2>4. WalkFits(r)'
    BY <1>1, <1>3, <1>6, <1>7, <1>8, <2>2, <2>3 DEF WalkFits
  <2>5. ReaderFits(r)'
    BY <2>3, <2>4 DEF ReaderFits, CountFits
  <2> QED
    BY <1>2, <1>6, <2>5, OneReads
<1>10. CASE Cardinality(page) # Limit
  <2>1. page = {e \in entries : Past(r, e)}
    BY <1>5, <1>10, PageFull
  <2>2. rd'[r].at = "done" /\ rd'[r].kept \subseteq rd'[r].seen
    BY <1>6, <1>7, <1>10, <2>1
  <2>3. WalkFits(r)'
    BY <1>1, <1>3, <1>6, <1>7, <1>8, <2>2 DEF WalkFits
  <2>4. ReaderFits(r)'
    BY <2>2, <2>3 DEF ReaderFits, CountFits
  <2> QED
    BY <1>2, <1>6, <2>4, OneReads
<1> QED
  BY <1>9, <1>10

\* A page of missing references: what is left of the blob it ends with was met.
LEMMA EndMissingFits ==
    ASSUME IInv, NEW r \in Readers, EndMissing(r)
    PROVE  IInv'
<1>1. TypeOK /\ WalkFits(r) /\ rd[r] \in Rds /\ rd[r].at = "scan" /\ rd[r].rows = {} /\ conn' = Free
  BY Halves DEF ReaderFits, EndMissing
<1>2. UNCHANGED <<records, refs, metas, file, tmp, up, acked, crossed, writes, uploads>>
  BY DEF EndMissing, tables, disk
<1>3. PICK out : out = rd[r].out
  OBVIOUS
<1>4. /\ conn = r /\ rd[r].kind = "missing" /\ rd[r].kept \subseteq Missing(refs)
      /\ rd[r].kept \subseteq Referenced(out)
      /\ \A e \in rd[r].kept : Past(r, e) \/ e \in rd[r].seen
      /\ ~rd[r].changed => Missing(refs) \subseteq rd[r].kept
  BY <1>1, <1>3 DEF WalkFits, Entries, Listed
<1>5. out \subseteq Blobs \X Nat /\ \A x \in out : x[1] \in Nat \ {0}
  BY <1>1, <1>3, ReadFields, OrderAssumption
<1>6. PICK page \in SUBSET out :
        /\ IsPage(page, {x \in out : Past(r, x[1])})
        /\ \A x \in page, y \in out \ page : Past(r, y[1]) => x[1] <= y[1]
        /\ Answered(r, page, Referenced(page))
  BY <1>3 DEF EndMissing
<1>7. PICK keys : keys = Referenced(page) /\ keys \in SUBSET (Nat \ {0})
  BY <1>5, <1>6 DEF Referenced
<1>8. PICK last \in keys \cup {0} :
        /\ (last = 0) <=> (keys = {})
        /\ rd' = [rd EXCEPT ![r] = rd'[r]]
        /\ rd'[r] \in Rds
        /\ rd'[r].at = IF Cardinality(page) = Limit THEN "page" ELSE "done"
        /\ rd'[r].kind = rd[r].kind /\ rd'[r].kept = rd[r].kept
        /\ rd'[r].changed = rd[r].changed
        /\ rd'[r].cursor = last /\ rd'[r].seen = rd[r].seen \cup keys
  BY <1>1, <1>6, <1>7, AnsweredRead
<1>9. Missing(refs)' = Missing(refs) /\ Entries("missing")' = Missing(refs)
  BY <1>2 DEF Missing, Entries, Listed, OnDisk
<1>10. CASE Cardinality(page) = Limit
  <2>1. page # {}
    BY <1>6, <1>10, PageFull
  <2>2. PICK x \in page : x[1] = last
    BY <1>7, <1>8, <2>1 DEF Referenced
  <2>3. ASSUME NEW e \in rd[r].kept PROVE Past(r, e)' \/ e \in rd[r].seen \cup keys
    <3>1. PICK y \in out : y[1] = e
      BY <1>4 DEF Referenced
    <3>2. CASE y \in page \/ e \in rd[r].seen \/ e = last
      BY <1>7, <2>2, <3>1, <3>2 DEF Referenced
    <3>3. CASE y \notin page /\ e \notin rd[r].seen /\ e # last
      <4>1. last <= e
        BY <1>4, <1>6, <2>2, <3>1, <3>3
      <4>2. e \in Nat /\ last \in Nat
        BY <1>5, <2>2, <3>1
      <4>3. e > last
        BY <3>3, <4>1, <4>2
      <4> QED
        BY <1>4, <1>8, <4>3 DEF Past
    <3> QED
      BY <3>2, <3>3
  <2>4. rd'[r].at = "page"
    BY <1>8, <1>10
  <2>5. WalkFits(r)'
    BY <1>4, <1>8, <1>9, <2>3, <2>4 DEF WalkFits, Walks
  <2>6. ReaderFits(r)'
    BY <2>4, <2>5 DEF ReaderFits, CountFits
  <2> QED
    BY <1>1, <1>2, <1>4, <1>8, <2>6, OneReads
<1>11. CASE Cardinality(page) # Limit
  <2>1. page = {x \in out : Past(r, x[1])}
    BY <1>6, <1>11, PageFull
  <2>2. ASSUME NEW e \in rd[r].kept PROVE e \in rd[r].seen \cup keys
    <3>1. PICK y \in out : y[1] = e
      BY <1>4 DEF Referenced
    <3> QED
      BY <1>4, <1>7, <2>1, <3>1 DEF Referenced
  <2>3. rd'[r].at = "done" /\ rd'[r].kept \subseteq rd'[r].seen
    BY <1>8, <1>11, <2>2
  <2>4. WalkFits(r)'
    BY <1>4, <1>8, <1>9, <2>3 DEF WalkFits, Walks
  <2>5. ReaderFits(r)'
    BY <2>3, <2>4 DEF ReaderFits, CountFits
  <2> QED
    BY <1>1, <1>2, <1>4, <1>8, <2>5, OneReads
<1> QED
  BY <1>10, <1>11

-----------------------------------------------------------------------------
(* The invariant *)

\* Opening and writing a temporary file are no matter of a reader's.
LEMMA UploadStep ==
    ASSUME IInv, NEW u \in Uploaders, Upload(u)
    PROVE  IInv'
<1>1. StoreInv /\ TypeOK
  BY Halves
<1>2. CASE OpenTmp(u)
  <2>1. UNCHANGED <<records, refs, metas, file, conn, rd>>
    BY <1>2 DEF OpenTmp, tables
  <2>2. \A q \in Readers : ReaderFits(q)'
    BY <2>1, ReaderIgnores
  <2> QED
    BY <1>1, <1>2, <2>1, <2>2, OpenTmpFits, Halves DEF TypeOK
<1>3. CASE EndWrite(u)
  <2>1. UNCHANGED <<records, refs, metas, conn, rd>>
    BY <1>3 DEF EndWrite, tables
  <2>2. StoreInv' /\ \A b \in Blobs : OnDisk(b)' <=> OnDisk(b)
    BY <1>1, <1>3, EndWriteFits
  <2>3. Missing(refs)' = Missing(refs)
    BY <1>1, <2>1, <2>2 DEF Missing, Referenced, TypeOK
  <2>4. ASSUME NEW q \in Readers PROVE ReaderFits(q)'
    <3>1. Entries(rd[q].kind)' = Entries(rd[q].kind)
      BY <2>1, <2>3 DEF Entries, Listed
    <3>2. rd[q].at \in {"page", "scan", "done"} => rd[q].kept \subseteq Entries(rd[q].kind)
      BY Halves DEF ReaderFits, WalkFits
    <3> QED
      BY <2>1, <2>2, <3>1, <3>2, ReaderStays
  <2> QED
    BY <1>1, <2>1, <2>2, <2>4, Halves DEF TypeOK
<1>4. CASE Rename(u)
  <2>0. PICK b : b = up[u].blob
    OBVIOUS
  <2>1. /\ UNCHANGED <<records, refs, metas, conn>>
        /\ rd' = [r \in Readers |->
                    IF rd[r].kind = "missing" THEN [rd[r] EXCEPT !.kept = @ \ {b}] ELSE rd[r]]
    BY <1>4, <2>0 DEF Rename, tables
  <2>2. /\ StoreInv' /\ \A c \in Blobs : c # b => (OnDisk(c)' <=> OnDisk(c))
        /\ b \in Blobs
    BY <1>1, <1>4, <2>0, RenameFits DEF Rename, StoreInv, UploadsFit
  <2>3. OnDisk(b)'
    BY <1>1, <1>4, <2>0, <2>2 DEF Rename, OnDisk, StoreInv, StoreTypes
  <2>4. Missing(refs)' = Missing(refs) \ {b}
    BY <1>1, <2>1, <2>2, <2>3 DEF Missing, Referenced, TypeOK
  <2>5. ASSUME NEW q \in Readers PROVE rd'[q] \in Rds /\ ReaderFits(q)'
    <3>0. rd[q] \in Rds /\ rd[q].kept \subseteq Nat
      BY <1>1, ReadFields DEF TypeOK
    <3>1. /\ rd'[q] \in Rds
          /\ rd'[q].at = rd[q].at /\ rd'[q].kind = rd[q].kind /\ rd'[q].rows = rd[q].rows
          /\ rd'[q].out = rd[q].out /\ rd'[q].cursor = rd[q].cursor /\ rd'[q].seen = rd[q].seen
          /\ rd'[q].expected = rd[q].expected /\ rd'[q].total = rd[q].total
          /\ rd'[q].imported = rd[q].imported /\ rd'[q].changed = rd[q].changed
          /\ rd'[q].kept = IF rd[q].kind = "missing" THEN rd[q].kept \ {b} ELSE rd[q].kept
      BY <2>1, <3>0 DEF Rds
    <3>2. Entries(rd[q].kind)' = IF rd[q].kind = "missing" THEN Entries(rd[q].kind) \ {b}
                                 ELSE Entries(rd[q].kind)
      BY <2>1, <2>4, <3>1 DEF Entries, Listed
    <3>3. rd[q].at \in {"page", "scan", "done"} => rd[q].kept \subseteq Entries(rd[q].kind)
      BY Halves DEF ReaderFits, WalkFits
    <3>4. \A c \in Blobs : OnDisk(c) => OnDisk(c)'
      BY <2>2, <2>3
    <3>5. rd[q].kind = "missing" => Missing(refs)' \cap rd[q].kept \subseteq rd'[q].kept
      BY <2>4, <3>1
    <3> QED
      BY <2>1, <3>1, <3>2, <3>3, <3>4, <3>5, ReaderStays
  <2>6. rd' \in [Readers -> Rds]
    BY <2>1, <2>5
  <2> QED
    BY <2>2, <2>5, <2>6, Halves
<1>5. CASE PutMeta(u)
  <2>1. /\ conn = Free /\ UNCHANGED <<records, refs, file, conn>>
        /\ rd' = Noted(records, refs, metas')
    BY <1>5 DEF PutMeta, disk
  <2>2. rd' = Noted(records', refs', metas')
    BY <2>1
  <2>3. \A q \in Readers : rd'[q] \in Rds /\ ReaderFits(q)'
    BY <2>1, <2>2, NotedFits
  <2>4. rd' \in [Readers -> Rds]
    BY <2>1, <2>3, NotedReaders
  <2> QED
    BY <1>1, <1>5, <2>3, <2>4, PutMetaFits, Halves
<1>6. CASE Fail(u)
  <2>1. /\ UNCHANGED <<records, refs, metas, file, tmp, conn, rd, acked, crossed, writes, uploads>>
        /\ up' = [up EXCEPT ![u] = NoUpload]
    BY <1>6 DEF Fail, tables, disk
  <2>2. \A q \in Readers : ReaderFits(q)'
    BY <2>1, ReaderIgnores
  <2>3. up' \in [Uploaders -> Ups] /\ \A v \in Uploaders : up'[v] = up[v] \/ up'[v] = NoUpload
    BY <1>1, <2>1, NoUploadType DEF TypeOK
  <2>4. StoreInv'
    BY <1>1, <2>1, <2>3, StoreStays DEF TypeOK
  <2> QED
    BY <1>1, <2>1, <2>2, <2>4, Halves DEF TypeOK
<1> QED
  BY <1>2, <1>3, <1>4, <1>5, <1>6 DEF Upload

\* Record writes, deletions and imports.
LEMMA WriteStep ==
    ASSUME IInv, WriteRecord \/ DeleteRecord \/ ImportRepo
    PROVE  IInv'
<1>1. StoreInv /\ TypeOK
  BY Halves
<1>2. PICK recs \in SUBSET Paths, rs \in SUBSET (Blobs \X Paths), ms \in SUBSET Blobs :
        /\ Referenced(rs) \subseteq ms /\ \A x \in rs : x[2] \in recs
        /\ Written(recs, rs, ms)
  BY <1>1, WritesFit
<1>3. StoreInv'
  BY <1>1, <1>2, WrittenFits
<1>4. conn = Free /\ UNCHANGED <<file, conn>> /\ rd' = Noted(recs, rs, ms)
      /\ records' = recs /\ refs' = rs /\ metas' = ms
  BY <1>2 DEF Written, disk
<1>5. rd' = Noted(records', refs', metas')
  BY <1>4
<1>6. \A q \in Readers : rd'[q] \in Rds /\ ReaderFits(q)'
  BY <1>4, <1>5, NotedFits
<1>7. rd' \in [Readers -> Rds]
  BY <1>4, <1>6, NotedReaders
<1> QED
  BY <1>3, <1>6, <1>7, Halves

\* A reader's own step.
LEMMA ReadStep ==
    ASSUME IInv, NEW r \in Readers, Read(r)
    PROVE  IInv'
<1>1. StartWalk(r) => IInv'
  BY StartWalkFits
<1>2. RecordsPage(r) \/ BlobsPage(r) => IInv'
  BY TablePageFits DEF RecordsPage, BlobsPage, Walks
<1>3. QueryMissing(r) => IInv'
  BY QueryMissingFits
<1>4. StatRow(r) => IInv'
  BY StatRowFits
<1>5. EndMissing(r) => IInv'
  BY EndMissingFits
<1>6. CountExpected(r) => IInv'
  BY CountExpectedFits
<1>7. CountTotal(r) => IInv'
  BY CountTotalFits
<1>8. QueryCount(r) => IInv'
  BY QueryCountFits
<1>9. EndCount(r) => IInv'
  BY EndCountFits
<1>10. Leave(r) => IInv'
  BY LeaveFits
<1> QED
  BY <1>1, <1>2, <1>3, <1>4, <1>5, <1>6, <1>7, <1>8, <1>9, <1>10 DEF Read

\* A stop forgets uploads and open queries; the client of a walk asks again.
LEMMA CrashStep == IInv /\ Crash => IInv'
<1> SUFFICES ASSUME IInv, Crash PROVE IInv'
  OBVIOUS
<1>1. StoreInv /\ TypeOK
  BY Halves
<1>2. /\ UNCHANGED <<records, refs, metas, file, tmp, acked, crossed, writes, uploads>>
      /\ conn' = Free /\ up' = [u \in Uploaders |-> NoUpload]
  BY DEF Crash, tables, disk
<1>3. StoreInv'
  <2>1. /\ up' \in [Uploaders -> Ups] /\ conn' \in Readers \cup {Free}
        /\ \A v \in Uploaders : up'[v] = up[v] \/ up'[v] = NoUpload
    BY <1>2, NoUploadType
  <2> QED
    BY <1>1, <1>2, <2>1, StoreStays
<1>4. rd' = [r \in Readers |->
               CASE rd[r].at \in {"page", "done", "counted"} -> rd[r]
                 [] rd[r].at = "scan" -> [rd[r] EXCEPT !.at = "page", !.rows = {}, !.out = {}]
                 [] OTHER -> NoRead]
  BY DEF Crash
<1>5. ASSUME NEW q \in Readers PROVE rd'[q] \in Rds /\ ReaderFits(q)'
  <2>1. rd[q] \in Rds /\ WalkFits(q)
    BY Halves DEF ReaderFits
  <2>2. CASE rd[q].at \in {"page", "done", "counted"}
    <3>1. rd'[q] = rd[q]
      BY <1>4, <2>2
    <3> QED
      BY <1>2, <2>1, <2>2, <3>1, ReaderIgnores
  <2>3. CASE rd[q].at = "scan"
    <3>1. rd'[q] = [rd[q] EXCEPT !.at = "page", !.rows = {}, !.out = {}]
      BY <1>4, <2>3
    <3>2. /\ rd'[q] \in Rds /\ rd'[q].at = "page" /\ rd'[q].kind = rd[q].kind
          /\ rd'[q].kept = rd[q].kept /\ rd'[q].seen = rd[q].seen
          /\ rd'[q].cursor = rd[q].cursor /\ rd'[q].changed = rd[q].changed
      BY <2>1, <3>1 DEF Rds
    <3>3. /\ rd[q].kind = "missing" /\ rd[q].kept \subseteq Missing(refs)
          /\ \A e \in rd[q].kept : Past(q, e) \/ e \in rd[q].seen
          /\ ~rd[q].changed => Missing(refs) \subseteq rd[q].kept
      BY <2>1, <2>3 DEF WalkFits, Entries, Listed
    <3>4. Missing(refs)' = Missing(refs) /\ Entries("missing")' = Missing(refs)
      BY <1>2 DEF Missing, Entries, Listed, OnDisk
    <3>5. \A e \in rd'[q].kept : Past(q, e)' \/ e \in rd'[q].seen
      BY <3>2, <3>3 DEF Past
    <3>6. WalkFits(q)'
      BY <3>2, <3>3, <3>4, <3>5 DEF WalkFits, Walks
    <3> QED
      BY <3>2, <3>6 DEF ReaderFits, CountFits
  <2>4. CASE rd[q].at \notin {"page", "done", "counted", "scan"}
    <3>1. rd'[q] = NoRead
      BY <1>4, <2>4
    <3> QED
      BY <3>1, IdleFits
  <2> QED
    BY <2>2, <2>3, <2>4
<1>6. rd' \in [Readers -> Rds]
  <2>1. rd' = [r \in Readers |-> rd'[r]]
    BY <1>4, Zenon
  <2> QED
    BY <1>5, <2>1
<1> QED
  BY <1>3, <1>5, <1>6, Halves

\* No step at all.
LEMMA StutterFits == IInv /\ UNCHANGED vars => IInv'
<1> SUFFICES ASSUME IInv, UNCHANGED vars PROVE IInv'
  OBVIOUS
<1>1. StoreInv /\ TypeOK
  BY Halves
<1>2. UNCHANGED <<records, refs, metas, file, tmp, conn, up, rd, acked, crossed, writes, uploads>>
  BY DEF vars
<1>3. StoreInv'
  BY <1>1, <1>2, StoreStays DEF TypeOK
<1>4. \A q \in Readers : ReaderFits(q)'
  BY <1>2, ReaderIgnores
<1> QED
  BY <1>1, <1>2, <1>3, <1>4, Halves DEF TypeOK

\* Every step of any actor keeps the inductive invariant.
LEMMA InductiveStep == IInv /\ [Next]_vars => IInv'
<1> SUFFICES ASSUME IInv, [Next]_vars PROVE IInv'
  OBVIOUS
<1>1. ASSUME NEW u \in Uploaders, Upload(u) PROVE IInv'
  BY <1>1, UploadStep
<1>2. ASSUME NEW r \in Readers, Read(r) PROVE IInv'
  BY <1>2, ReadStep
<1>3. CASE WriteRecord \/ DeleteRecord \/ ImportRepo
  BY <1>3, WriteStep
<1>4. CASE Crash
  BY <1>4, CrashStep
<1>5. CASE UNCHANGED vars
  BY <1>5, StutterFits
<1> QED
  BY <1>1, <1>2, <1>3, <1>4, <1>5 DEF Next

\* The inductive invariant holds of every reachable state: references have their
\* rows, uploads their files, and walks and counts the entries they account for.
THEOREM Invariance == Spec => []IInv
<1>1. Init => IInv
  BY InitFits
<1>2. IInv /\ [Next]_vars => IInv'
  BY InductiveStep
<1> QED
  BY <1>1, <1>2, PTL DEF Spec

\* Whatever fails or stops, only uploads of one blob that overlap leave a file
\* under a blob's name that is not whole.
THEOREM FilesAreWhole == Spec => []StoredIsWhole
<1>1. IInv => StoredIsWhole
  BY DEF IInv
<1> QED
  BY <1>1, Invariance, PTL

\* An answered upload is served until an import clears its row.
THEOREM AnswersAreServed == Spec => []AnsweredIsServed
<1>1. IInv => AnsweredIsServed
  BY DEF IInv
<1> QED
  BY <1>1, Invariance, PTL

\* A walk to the last page has met every entry that was there all the time, with
\* pages of any length.
THEOREM WalksAreComplete == Spec => []WalksMissNothing
<1>1. IInv => WalksMissNothing
  BY DEF IInv
<1> QED
  BY <1>1, Invariance, PTL

\* A migration that uploads what listMissingBlobs names is complete: what the walk
\* did not name was there, what it named was uploaded, and every reference has
\* its row.
THEOREM MigrationsComplete == Spec => []MigrationCompletes
<1>1. IInv => MigrationCompletes
  <2> SUFFICES ASSUME IInv, NEW r \in Readers, rd[r].at = "done", rd[r].kind = "missing",
                      ~rd[r].changed, rd[r].seen \subseteq acked, NEW b \in Referenced(refs)
               PROVE  Served(b)
    BY DEF MigrationCompletes
  <2>1. Missing(refs) \subseteq rd[r].kept
    BY DEF IInv, WalkFits
  <2>2. rd[r].kept \subseteq rd[r].seen
    BY DEF IInv, WalksMissNothing
  <2>3. \A c \in acked : Served(c)
    BY DEF IInv, AnsweredIsServed
  <2>4. b \in metas
    BY DEF IInv, RefsHaveRows
  <2>5. CASE OnDisk(b)
    BY <2>4, <2>5 DEF OnDisk, Served
  <2>6. CASE ~OnDisk(b)
    BY <2>1, <2>2, <2>3, <2>6 DEF Missing
  <2> QED
    BY <2>5, <2>6
<1> QED
  BY <1>1, Invariance, PTL

\* checkAccountStatus calls a migration complete only when it is, as long as no
\* row comes or goes between its queries.
THEOREM CountsCautious == Spec => []CountsAreCautious
<1>1. IInv => CountsAreCautious
  BY DEF IInv
<1> QED
  BY <1>1, Invariance, PTL
=============================================================================
