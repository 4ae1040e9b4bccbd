------------------------------ MODULE FileServer ------------------------------
(***************************************************************************)
(* The file handler of the embedded HTTP server (handler_ygg.go) and one   *)
(* client that keeps what it got.  A request reads the file twice, once to *)
(* compute the ETag and once to send it, in chunks if it was large when it *)
(* was opened, with a hash of every chunk in a trailer.  Meanwhile the     *)
(* file may be overwritten in place, replaced by another or removed.       *)
(* Requests share nothing but the file, so one at a time is enough.        *)
(*                                                                         *)
(* A file is the sequence of its bytes, a byte the tag of the edition it   *)
(* belongs to and its place there; a hash is what was hashed; compression, *)
(* which the client undoes, is left out.                                   *)
(***************************************************************************)
EXTENDS Integers, Sequences

CONSTANTS
    ChunkSize,  \* chunkSize, in bytes of the model
    Sizes,      \* the sizes a file may have
    Tags,       \* the editions of the file
    MaxEdits    \* bound on the overwrites of a file that is being served

ASSUME FileServerAssumption ==
    /\ ChunkSize \in Nat \ {0}
    /\ Sizes \subseteq Nat
    /\ Tags \subseteq Nat \ {0}
    /\ MaxEdits \in Nat

Files == {[i \in 1..n |-> <<t, i>>] : n \in Sizes, t \in Tags}
Absent == << <<0, 0>> >>   \* no file at the path, or nothing cached

VARIABLES
    file,       \* the file at the path
    fd,         \* the file the handler has opened
    linked,     \* fd is still the file at the path
    edits,      \* how often it was overwritten since it was opened
    pc,         \* where ServeHTTP is
    size,       \* stat.Size()
    off,        \* the position of fd
    etag,       \* what was hashed so far, and then the ETag
    sent,       \* the bytes sent
    hashes,     \* the length of chunkHashes: the chunks they were sent in
    cut,        \* a read failed after the headers were sent
    status,     \* the status of the answer
    cache       \* the client's copy: its ETag, its bytes, whether a read of it went wrong

fileVars == <<file, fd, linked, edits>>
vars == <<fileVars, pc, size, off, etag, sent, hashes, cut, status, cache>>

NoCache == [etag |-> Absent, body |-> <<>>, dirty |-> FALSE]

Init ==
    /\ file \in Files \cup {Absent}
    /\ fd = <<>> /\ linked = FALSE /\ edits = 0
    /\ pc = "idle"
    /\ size = 0 /\ off = 0 /\ etag = <<>> /\ sent = <<>> /\ hashes = 0
    /\ cut = FALSE /\ status = 0
    /\ cache = NoCache

-----------------------------------------------------------------------------
(* ServeHTTP.                                                              *)

Answer(s) == pc' = "answer" /\ status' = s

\* resolveFile opens the file and takes its size, or there is none.
Open ==
    /\ pc = "idle"
    /\ edits' = 0 /\ off' = 0 /\ etag' = <<>> /\ sent' = <<>> /\ hashes' = 0 /\ cut' = FALSE
    /\ IF file = Absent
       THEN Answer(404) /\ UNCHANGED <<fd, linked, size>>
       ELSE /\ fd' = file /\ linked' = TRUE
            /\ size' = Len(file)
            /\ pc' = "hash" /\ UNCHANGED status
    /\ UNCHANGED <<file, cache>>

\* The bytes a read of ChunkSize bytes returns.
Piece == SubSeq(fd, off + 1, IF off + ChunkSize < Len(fd) THEN off + ChunkSize ELSE Len(fd))

\* io.Copy(hasher, f) reads until there is nothing more.
Hash ==
    /\ pc = "hash"
    /\ etag' = etag \o Piece
    /\ off' = off + Len(Piece)
    /\ pc' = IF Piece = <<>> THEN "match" ELSE "hash"
    /\ UNCHANGED <<fileVars, size, sent, hashes, cut, status, cache>>

\* Mutant: the ETag is the size of the file and not its hash.
MatchSize ==
    /\ pc = "match"
    /\ IF cache.etag # Absent /\ Len(cache.etag) = Len(etag)
       THEN Answer(304) /\ UNCHANGED off
       ELSE /\ off' = 0
            /\ pc' = IF size > ChunkSize THEN "chunks" ELSE "small"
            /\ UNCHANGED status
    /\ UNCHANGED <<fileVars, size, etag, sent, hashes, cut, cache>>

\* If-None-Match, and the way back to the start of the file.
Match ==
    /\ pc = "match"
    /\ IF cache.etag = etag
       THEN Answer(304) /\ UNCHANGED off
       ELSE /\ off' = 0
            /\ pc' = IF size > ChunkSize THEN "chunks" ELSE "small"
            /\ UNCHANGED status
    /\ UNCHANGED <<fileVars, size, etag, sent, hashes, cut, cache>>

\* A read error while hashing, or a failed seek.
Fails ==
    /\ pc \in {"hash", "match"}
    /\ Answer(500)
    /\ UNCHANGED <<fileVars, size, off, etag, sent, hashes, cut, cache>>

\* Mutant: the division rounds down.
ChunkCountDown == size \div ChunkSize

ChunkCount == (size + ChunkSize - 1) \div ChunkSize

\* One turn of the loop of serveChunked.  After the last one a hash beyond the
\* declared trailers is an index out of range: net/http cuts the connection (0).
SendChunk ==
    /\ pc = "chunks"
    /\ sent' = sent \o Piece
    /\ hashes' = IF Piece = <<>> THEN hashes ELSE hashes + 1
    /\ off' = off + Len(Piece)
    /\ IF Len(Piece) = ChunkSize
       THEN UNCHANGED <<pc, status>>
       ELSE Answer(IF hashes' > ChunkCount THEN 0 ELSE 200)
    /\ UNCHANGED <<fileVars, size, etag, cut, cache>>

\* serveSmall sends what it can read, however much that is by now.
SendSmall ==
    /\ pc = "small"
    /\ sent' = SubSeq(fd, off + 1, Len(fd))
    /\ off' = Len(fd)
    /\ Answer(200)
    /\ UNCHANGED <<fileVars, size, etag, hashes, cut, cache>>

\* A read fails when the answer is on its way: serveSmall sends nothing, the
\* loop of serveChunked ends with what it has, and the status is 200 already.
ReadFails ==
    /\ pc \in {"chunks", "small"}
    /\ \/ UNCHANGED <<sent, hashes>>
       \/ /\ pc = "chunks" /\ hashes' = hashes + 1
          /\ \E n \in 1..(Len(Piece) - 1) : sent' = sent \o SubSeq(Piece, 1, n)
    /\ cut' = TRUE
    /\ Answer(IF pc = "chunks" /\ hashes' > ChunkCount THEN 0 ELSE 200)
    /\ UNCHANGED <<fileVars, size, off, etag, cache>>

\* The client keeps a complete answer under its ETag.
Receive ==
    /\ pc = "answer"
    /\ pc' = "idle"
    /\ cache' = CASE status = 200 -> [etag |-> etag, body |-> sent, dirty |-> cut \/ edits > 0]
                  [] status = 404 -> NoCache
                  [] OTHER -> cache
    /\ fd' = <<>> /\ linked' = FALSE /\ edits' = 0
    /\ size' = 0 /\ off' = 0 /\ etag' = <<>> /\ sent' = <<>> /\ hashes' = 0
    /\ cut' = FALSE /\ status' = 0
    /\ UNCHANGED file

-----------------------------------------------------------------------------
(* Whoever edits the www directory.                                        *)

\* The same file gets other contents, which a handler that has it open sees.
Overwrite(c) ==
    /\ file # Absent
    /\ linked => edits < MaxEdits
    /\ file' = c
    /\ fd' = IF linked THEN c ELSE fd
    /\ edits' = IF linked THEN edits + 1 ELSE edits
    /\ UNCHANGED <<linked, pc, size, off, etag, sent, hashes, cut, status, cache>>

\* Another file is moved to the path, or the file is removed.
Replace(c) ==
    /\ file' = c
    /\ linked' = FALSE
    /\ UNCHANGED <<fd, edits, pc, size, off, etag, sent, hashes, cut, status, cache>>

-----------------------------------------------------------------------------
Serve == Open \/ Hash \/ Match \/ Fails
            \/ SendChunk \/ SendSmall \/ ReadFails \/ Receive

Next ==
    \/ Serve
    \/ \E c \in Files : Overwrite(c)
    \/ \E c \in Files \cup {Absent} : Replace(c)

Spec == Init /\ [][Next]_vars

-----------------------------------------------------------------------------
\* A file that is not overwritten during the request, though it may be replaced
\* or removed, and whose reads succeed is sent whole and as its ETag says, with as
\* many chunk hashes as the Trailer header declares, and never cuts the
\* connection (serveChunked).
CleanResponse ==
    (pc = "answer" /\ edits = 0 /\ ~cut /\ status \in {0, 200}) =>
        /\ status = 200
        /\ sent = fd /\ etag = fd
        /\ Len(fd) > ChunkSize => hashes = ChunkCount

\* A 304 tells the truth: unless one of the two requests saw its file being
\* overwritten or a read of it fail, what the client keeps is what the file held when this request
\* opened it (ServeHTTP).
CleanNotModified ==
    (pc = "answer" /\ status = 304 /\ edits = 0 /\ ~cache.dirty) => cache.body = fd

=============================================================================
