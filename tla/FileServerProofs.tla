-------------------------- MODULE FileServerProofs --------------------------
(***************************************************************************)
(* Proofs about FileServer for any chunk size and files of any size: what  *)
(* is sent of a file that is not overwritten meanwhile is the file, and a  *)
(* 304 is true.                                                            *)
(***************************************************************************)
EXTENDS FileServer, SequenceTheorems, TLAPS

Bytes == Tags \X Nat

Shape ==
    /\ file \in Files \cup {Absent}
    /\ fd \in Files \cup {<<>>}
    /\ linked \in BOOLEAN
    /\ edits \in Nat
    /\ pc \in {"idle", "hash", "match", "chunks", "small", "answer"}
    /\ cut \in BOOLEAN

\* How far a request has got with a file that has not been overwritten since it
\* was opened: the bytes hashed, and later the bytes sent, are those before the
\* position, and those sent are cut at multiples of the chunk size.
Progress ==
    /\ pc \in {"hash", "match", "chunks", "small"} =>
          fd # Absent /\ size = Len(fd) /\ hashes \in Nat /\ ~cut
    /\ pc = "hash" =>
          off \in 0..Len(fd) /\ etag = SubSeq(fd, 1, off) /\ sent = <<>> /\ hashes = 0
    /\ pc = "match" => etag = fd /\ sent = <<>> /\ hashes = 0
    /\ pc = "chunks" =>
          /\ etag = fd
          /\ off \in 0..Len(fd) /\ sent = SubSeq(fd, 1, off)
          /\ off = hashes * ChunkSize
    /\ pc = "small" => etag = fd /\ off = 0 /\ Len(fd) <= ChunkSize
    /\ pc = "answer" /\ status = 304 => fd # Absent /\ etag = fd /\ cache.etag = fd
    /\ pc = "answer" /\ ~cut => CleanResponse

\* What the client keeps is what its ETag names, unless the file was overwritten
\* or a read failed while it was sent.
Kept == ~cache.dirty /\ cache.etag # Absent => cache.body = cache.etag

Inv == Shape /\ (edits = 0 => Progress) /\ Kept

-----------------------------------------------------------------------------
(* Sequences and the number of chunks.                                     *)

\* A file is a sequence of bytes.
LEMMA FileType == \A f \in Files \cup {<<>>} : f \in Seq(Bytes) /\ Len(f) \in Nat
<1> SUFFICES ASSUME NEW f \in Files PROVE f \in Seq(Bytes) /\ Len(f) \in Nat
  BY EmptySeq
<1>1. PICK n \in Sizes, t \in Tags : f = [i \in 1..n |-> <<t, i>>]
  BY DEF Files
<1>2. n \in Nat
  BY FileServerAssumption
<1>3. f \in [1..n -> Bytes]
  BY <1>1, <1>2 DEF Bytes
<1>4. f \in Seq(Bytes)
  BY <1>2, <1>3, SeqDef
<1> QED
  BY <1>4

\* The division by which serveChunked counts the chunks.
LEMMA Division ==
    ASSUME NEW c \in Nat \ {0}, NEW q \in Nat, NEW r \in 0..(c - 1)
    PROVE  (q * c + r) \div c = q
  OBVIOUS

\* q whole chunks and a shorter rest make as many chunks as chunkCount says.
LEMMA Chunked ==
    ASSUME NEW q \in Nat, NEW r \in 0..(ChunkSize - 1), size = q * ChunkSize + r
    PROVE  ChunkCount = IF r = 0 THEN q ELSE q + 1
<1> DEFINE c == ChunkSize
<1>1. c \in Nat \ {0}
  BY FileServerAssumption
<1>2. CASE r = 0
  <2>1. size + c - 1 = q * c + (c - 1) /\ c - 1 \in 0..(c - 1)
    BY <1>1, <1>2
  <2> QED
    BY <1>1, <1>2, <2>1, Division DEF ChunkCount
<1>3. CASE r # 0
  <2>1. size + c - 1 = (q + 1) * c + (r - 1) /\ r - 1 \in 0..(c - 1)
    BY <1>1, <1>3
  <2>2. q + 1 \in Nat
    OBVIOUS
  <2> QED
    BY <1>1, <1>3, <2>1, <2>2, Division DEF ChunkCount
<1> QED
  BY <1>2, <1>3

-----------------------------------------------------------------------------
(* The invariant.                                                          *)

\* The initial states satisfy the inductive invariant.
LEMMA InitInv == Init => Inv
<1> SUFFICES ASSUME Init PROVE Inv
  OBVIOUS
<1>1. Shape
  BY DEF Init, Shape
<1>2. Progress
  BY DEF Init, Progress, CleanResponse
<1>3. Kept
  BY DEF Init, Kept, NoCache
<1> QED
  BY <1>1, <1>2, <1>3 DEF Inv

\* A chunk read from a file that has not been overwritten.
LEMMA PieceRead ==
    ASSUME Shape, Progress, pc \in {"hash", "chunks"}
    PROVE  /\ Len(fd) \in Nat /\ fd \in Seq(Bytes)
           /\ Len(Piece) = (IF off + ChunkSize < Len(fd) THEN ChunkSize ELSE Len(fd) - off)
           /\ Piece = <<>> <=> off = Len(fd)
           /\ off + Len(Piece) \in 0..Len(fd)
           /\ SubSeq(fd, 1, off) \o Piece = SubSeq(fd, 1, off + Len(Piece))
<1> DEFINE e == IF off + ChunkSize < Len(fd) THEN off + ChunkSize ELSE Len(fd)
<1>1. fd \in Seq(Bytes) /\ Len(fd) \in Nat
  BY FileType DEF Shape
<1>2. off \in Nat /\ off \in 0..Len(fd) /\ ChunkSize \in Nat \ {0}
  BY <1>1, FileServerAssumption DEF Progress
<1>3. /\ e \in off..Len(fd) /\ e \in Nat
      /\ e - off = IF off + ChunkSize < Len(fd) THEN ChunkSize ELSE Len(fd) - off
      /\ e - off = 0 <=> off = Len(fd)
      /\ off + (e - off) = e
  BY <1>1, <1>2
<1>4. Piece = SubSeq(fd, off + 1, e)
  BY DEF Piece
<1> HIDE DEF e
<1>5. \A i \in (off + 1)..e : fd[i] \in Bytes
  BY <1>1, <1>2, <1>3, ElementOfSeq
<1>6. Piece \in Seq(Bytes) /\ Len(Piece) = e - off
  BY <1>2, <1>3, <1>4, <1>5, SubSeqProperties
<1>7. SubSeq(fd, 1, off) \o Piece = SubSeq(fd, 1, e)
  <2>1. 1 \in 1..(Len(fd) + 1) /\ off \in (1 - 1)..Len(fd)
    BY <1>1, <1>2
  <2>2. SubSeq(fd, 1, off) \o SubSeq(fd, off + 1, e) = SubSeq(fd, 1, e)
    BY <1>1, <1>3, <2>1, ConcatAdjacentSubSeq
  <2> QED
    BY <1>4, <2>2
<1>8. Piece = <<>> <=> Len(Piece) = 0
  BY <1>6, EmptySeq
<1>9. off + Len(Piece) = e /\ e \in 0..Len(fd)
  BY <1>1, <1>2, <1>3, <1>6
<1> QED
  BY <1>1, <1>3, <1>6, <1>7, <1>8, <1>9

\* Every step keeps the types.
LEMMA ShapeStep == Shape /\ [Next]_vars => Shape'
<1> SUFFICES ASSUME Shape, [Next]_vars PROVE Shape'
  OBVIOUS
<1>1. CASE Open
  BY <1>1 DEF Shape, Open, Answer
<1>2. CASE Hash
  BY <1>2 DEF Shape, Hash, fileVars
<1>3. CASE Match
  BY <1>3 DEF Shape, Match, Answer, fileVars
<1>4. CASE Fails
  BY <1>4 DEF Shape, Fails, Answer, fileVars
<1>5. CASE SendChunk
  BY <1>5 DEF Shape, SendChunk, Answer, fileVars
<1>6. CASE SendSmall
  BY <1>6 DEF Shape, SendSmall, Answer, fileVars
<1>7. CASE ReadFails
  BY <1>7 DEF Shape, ReadFails, Answer, fileVars
<1>8. CASE Receive
  BY <1>8 DEF Shape, Receive
<1>9. CASE \E c \in Files : Overwrite(c)
  BY <1>9 DEF Shape, Overwrite
<1>10. CASE \E c \in Files \cup {Absent} : Replace(c)
  BY <1>10 DEF Shape, Replace
<1>11. CASE UNCHANGED vars
  BY <1>11 DEF Shape, vars, fileVars
<1> QED
  BY <1>1, <1>2, <1>3, <1>4, <1>5, <1>6, <1>7, <1>8, <1>9, <1>10, <1>11 DEF Next, Serve

\* The last turn of serveChunked: what it has sent is the file, with one hash for
\* every declared trailer.
LEMMA LastChunk ==
    ASSUME Shape, Progress, pc = "chunks", SendChunk, Len(Piece) # ChunkSize
    PROVE  sent' = fd /\ hashes' = ChunkCount /\ status' = 200
<1>1. ChunkSize \in Nat \ {0} /\ hashes \in Nat /\ off \in Nat
  BY PieceRead, FileServerAssumption DEF Progress
<1>2. size = Len(fd) /\ off = hashes * ChunkSize /\ sent = SubSeq(fd, 1, off)
  BY DEF Progress
<1> DEFINE r == Len(fd) - off
<1>3. Len(Piece) = r /\ r \in 0..(ChunkSize - 1)
  BY <1>1, PieceRead
<1>4. off + r = Len(fd) /\ (r = 0 <=> off = Len(fd))
  BY <1>1, PieceRead
<1>5. sent' = fd
  <2>1. sent' = SubSeq(fd, 1, Len(fd))
    BY <1>2, <1>3, <1>4, PieceRead DEF SendChunk
  <2> QED
    BY <2>1, PieceRead, SubSeqFull
<1>6. hashes' = IF r = 0 THEN hashes ELSE hashes + 1
  BY <1>4, PieceRead DEF SendChunk
<1>7. ChunkCount = IF r = 0 THEN hashes ELSE hashes + 1
  <2>1. size = hashes * ChunkSize + r
    BY <1>2, <1>4
  <2> HIDE DEF r
  <2> QED
    BY <1>1, <1>3, <2>1, Chunked
<1> HIDE DEF r
<1>8. hashes' = ChunkCount /\ ~(hashes' > ChunkCount)
  BY <1>1, <1>6, <1>7
<1> QED
  BY <1>5, <1>8 DEF SendChunk, Answer

\* Every step keeps what is known of a file that is not overwritten.
LEMMA ProgressStep == Inv /\ [Next]_vars => (edits' = 0 => Progress')
<1> SUFFICES ASSUME Inv, [Next]_vars, edits' = 0 PROVE Progress'
  OBVIOUS
<1> USE DEF Inv
<1>1. CASE Open
  <2>1. CASE file = Absent
    BY <1>1, <2>1 DEF Open, Answer, Progress, CleanResponse
  <2>2. CASE file # Absent
    <3>1. file \in Files /\ Len(file) \in Nat
      BY <2>2, FileType DEF Shape
    <3>2. SubSeq(file, 1, 0) = <<>>
      BY SubSeqEmpty
    <3> QED
      BY <1>1, <2>2, <3>1, <3>2 DEF Open, Answer, Progress
  <2> QED
    BY <2>1, <2>2
<1>2. CASE Hash
  <2>1. edits = 0 /\ pc = "hash" /\ UNCHANGED <<fd, size, sent, hashes, cut, status, cache>>
    BY <1>2 DEF Hash, fileVars
  <2>2. Progress
    BY <2>1
  <2>3. /\ off' \in 0..Len(fd) /\ etag' = SubSeq(fd, 1, off')
        /\ off' = off + Len(Piece)
    BY <1>2, <2>1, <2>2, PieceRead DEF Hash, Progress
  <2>4. CASE Piece = <<>>
    <3>1. off' = Len(fd)
      BY <2>1, <2>2, <2>3, <2>4, PieceRead, EmptySeq DEF Progress
    <3>2. etag' = fd
      BY <2>1, <2>2, <2>3, <3>1, PieceRead, SubSeqFull
    <3> QED
      BY <1>2, <2>1, <2>2, <2>4, <3>2 DEF Hash, Progress
  <2>5. CASE Piece # <<>>
    BY <1>2, <2>1, <2>2, <2>3, <2>5 DEF Hash, Progress
  <2> QED
    BY <2>4, <2>5
<1>3. CASE Match
  <2>1. edits = 0 /\ pc = "match" /\ UNCHANGED <<fd, size, etag, sent, hashes, cut, cache>>
    BY <1>3 DEF Match, fileVars
  <2>2. Progress /\ fd \in Seq(Bytes) /\ Len(fd) \in Nat /\ ChunkSize \in Nat \ {0}
    BY <2>1, FileType, FileServerAssumption DEF Shape
  <2>3. CASE cache.etag = etag
    BY <1>3, <2>1, <2>2, <2>3 DEF Match, Answer, Progress, CleanResponse
  <2>4. CASE cache.etag # etag
    <3>1. off' = 0 /\ pc' = IF size > ChunkSize THEN "chunks" ELSE "small"
      BY <1>3, <2>4 DEF Match
    <3>2. SubSeq(fd, 1, 0) = <<>> /\ 0 = 0 * ChunkSize
      BY <2>2, SubSeqEmpty
    <3>3. fd # Absent /\ size = Len(fd) /\ hashes = 0 /\ ~cut /\ etag = fd /\ sent = <<>>
      BY <2>1, <2>2 DEF Progress
    <3>4. CASE size > ChunkSize
      BY <2>1, <2>2, <3>1, <3>2, <3>3, <3>4 DEF Progress
    <3>5. CASE ~(size > ChunkSize)
      BY <2>1, <2>2, <3>1, <3>3, <3>5 DEF Progress
    <3> QED
      BY <3>4, <3>5
  <2> QED
    BY <2>3, <2>4
<1>4. CASE Fails
  BY <1>4 DEF Fails, Answer, fileVars, Progress, CleanResponse
<1>5. CASE SendChunk
  <2>1. edits = 0 /\ pc = "chunks" /\ UNCHANGED <<fd, edits, size, etag, cut, cache>>
    BY <1>5 DEF SendChunk, fileVars
  <2>2. Progress /\ ChunkSize \in Nat \ {0}
    BY <2>1, FileServerAssumption
  <2>3. CASE Len(Piece) = ChunkSize
    <3>1. hashes \in Nat /\ off = hashes * ChunkSize
      BY <2>1, <2>2 DEF Progress
    <3>2. Piece # <<>>
      BY <2>2, <2>3, EmptySeq
    <3>3. hashes' = hashes + 1 /\ off' = off + ChunkSize
      BY <1>5, <2>3, <3>2 DEF SendChunk
    <3>4. off' = hashes' * ChunkSize /\ hashes' \in Nat
      BY <2>2, <3>1, <3>3
    <3>5. off' \in 0..Len(fd) /\ sent' = SubSeq(fd, 1, off')
      BY <1>5, <2>1, <2>2, PieceRead DEF SendChunk, Progress
    <3>6. pc' = "chunks"
      BY <1>5, <2>1, <2>3 DEF SendChunk
    <3> QED
      BY <2>1, <2>2, <3>4, <3>5, <3>6 DEF Progress
  <2>4. CASE Len(Piece) # ChunkSize
    <3>1. sent' = fd /\ hashes' = ChunkCount /\ status' = 200
      BY <1>5, <2>1, <2>2, <2>4, LastChunk
    <3>2. ChunkCount' = ChunkCount /\ pc' = "answer"
      BY <1>5, <2>1, <2>4 DEF SendChunk, Answer, ChunkCount
    <3> QED
      BY <2>1, <2>2, <3>1, <3>2 DEF Progress, CleanResponse
  <2> QED
    BY <2>3, <2>4
<1>6. CASE SendSmall
  <2>1. edits = 0 /\ pc = "small" /\ UNCHANGED <<fd, etag>> /\ pc' = "answer" /\ status' = 200
    BY <1>6 DEF SendSmall, Answer, fileVars
  <2>2. fd \in Seq(Bytes) /\ Len(fd) \in Nat /\ ChunkSize \in Nat
    BY FileType, FileServerAssumption DEF Shape
  <2>3. off = 0 /\ etag = fd /\ Len(fd) <= ChunkSize
    BY <2>1 DEF Progress
  <2>4. sent' = fd
    BY <1>6, <2>2, <2>3, SubSeqFull DEF SendSmall
  <2>5. ~(Len(fd) > ChunkSize)
    BY <2>2, <2>3
  <2> QED
    BY <2>1, <2>3, <2>4, <2>5 DEF Progress, CleanResponse
<1>7. CASE ReadFails
  BY <1>7 DEF ReadFails, Answer, Progress
<1>8. CASE Receive
  BY <1>8 DEF Receive, Progress
<1>9. CASE \E c \in Files : Overwrite(c)
  BY <1>9 DEF Overwrite, Shape, Progress, CleanResponse, ChunkCount
<1>10. CASE \E c \in Files \cup {Absent} : Replace(c)
  BY <1>10 DEF Replace, Progress, CleanResponse, ChunkCount
<1>11. CASE UNCHANGED vars
  BY <1>11 DEF vars, fileVars, Progress, CleanResponse, ChunkCount
<1> QED
  BY <1>1, <1>2, <1>3, <1>4, <1>5, <1>6, <1>7, <1>8, <1>9, <1>10, <1>11 DEF Next, Serve

\* Only Receive changes what the client keeps.
LEMMA KeptStep == Inv /\ [Next]_vars => Kept'
<1> SUFFICES ASSUME Inv, [Next]_vars PROVE Kept'
  OBVIOUS
<1>1. CASE Receive
  <2>1. CASE status = 200
    <3>1. cache' = [etag |-> etag, body |-> sent, dirty |-> cut \/ edits > 0]
      BY <1>1, <2>1 DEF Receive
    <3>2. CASE ~cut /\ edits = 0
      BY <1>1, <2>1, <3>1, <3>2 DEF Receive, Inv, Progress, CleanResponse, Kept
    <3>3. CASE ~(~cut /\ edits = 0)
      <4>1. cut \/ edits > 0
        BY <3>3 DEF Inv, Shape
      <4> QED
        BY <3>1, <4>1 DEF Kept
    <3> QED
      BY <3>2, <3>3
  <2>2. CASE status # 200
    BY <1>1, <2>2 DEF Receive, Inv, Kept, NoCache
  <2> QED
    BY <2>1, <2>2
<1>2. CASE ~Receive
  <2>1. UNCHANGED cache
    BY <1>2 DEF Next, Serve, Open, Hash, Match, Fails, SendChunk, SendSmall, ReadFails,
                Overwrite, Replace, vars
  <2> QED
    BY <2>1 DEF Inv, Kept
<1> QED
  BY <1>1, <1>2

\* The invariant holds in every state.
LEMMA InvHolds == Spec => []Inv
<1>1. Inv /\ [Next]_vars => Inv'
  BY ShapeStep, ProgressStep, KeptStep DEF Inv
<1> QED
  BY InitInv, <1>1, PTL DEF Spec

-----------------------------------------------------------------------------
\* What ServeHTTP sends of a file that nobody overwrites meanwhile is the file its
\* ETag names, with the declared number of chunk hashes, whatever the size of the
\* file and of a chunk, and whatever else happens at its path.
THEOREM ResponseIsClean == Spec => []CleanResponse
<1>1. Inv => CleanResponse
  BY DEF Inv, Progress, CleanResponse
<1> QED
  BY InvHolds, <1>1, PTL

\* A 304 of ServeHTTP tells the client the truth about the copy it keeps.
THEOREM NotModifiedIsTrue == Spec => []CleanNotModified
<1>1. Inv => CleanNotModified
  BY DEF Inv, Progress, Kept, CleanNotModified
<1> QED
  BY InvHolds, <1>1, PTL

=============================================================================
