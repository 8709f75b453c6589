------------------------------ MODULE ByteFile ------------------------------
(***************************************************************************)
(* The bytes of one file: how read, write and truncate split a request     *)
(* into chunks (aggregator<chunk_data>::copy), what flush and purge leave  *)
(* of them, and the size in the attribute, against the file the calls have *)
(* written.                                                                *)
(*                                                                         *)
(* Calls are made one after the other and deposits arrive: DataSink has    *)
(* the interleavings of calls and tasks, and the deposits that are lost.   *)
(* A retrieval is still answered when it will.                             *)
(***************************************************************************)
EXTENDS Integers, FiniteSets, Functions

CONSTANTS ChunkSize,  \* CHUNK_SIZE
          IntSize,    \* 2^31: one more than the largest int
          MaxEnd,     \* bound on the end of a request
          MaxCalls,   \* bound on the calls
          Zero,       \* the byte resize fills up with
          Junk        \* a byte from beyond the end of a buffer

ASSUME ByteFileAssumption ==
  ChunkSize \in Nat \ {0} /\ IntSize \in Nat \ {0} /\ MaxEnd \in Nat /\ MaxCalls \in Nat

VARIABLES cached,   \* the chunks in cache_ and their data
          dirty,    \* those with a dirty mark
          index,    \* index_map_[file]
          remote,   \* the chunks on chunk servers, with a location in the DHT
          filling,  \* cached chunks whose retrieval is under way
          loaded,   \* chunks whose CV mutex was locked by a load
          size,     \* st_size
          down,     \* the program has ended: an assertion, or an exception nobody catches
          file,     \* history: the bytes the calls have written, by position
          spoilt,   \* history: positions at which one of the mishaps below happened
          plain,    \* history: no request that PlainFilesAreRead leaves out
          calls

chunkVars == <<cached, dirty, index, remote, filling, loaded>>
history   == <<file, spoilt, plain>>
vars      == <<chunkVars, size, down, history, calls>>

-----------------------------------------------------------------------------
(***************************************************************************)
(* copy: the chunks a request touches, and for each the offset in the      *)
(* chunk, the offset in the buffer and the number of bytes.  buffer_start  *)
(* plus remaining_size is always the size of the whole request.            *)
(***************************************************************************)
FirstChunk(off) == off \div ChunkSize
LastChunk(off, n) == (off + n) \div ChunkSize
Touched(off, n) == FirstChunk(off)..LastChunk(off, n)

\* Mutant of ChunkStart: the offset is not reset after the first chunk.
ChunkStartKept(off, k) == off % ChunkSize

ChunkStart(off, k) == IF k = FirstChunk(off) THEN off % ChunkSize ELSE 0

Delta(off, n, k, from) ==
  LET remaining == n - from
      start     == ChunkStart(off, k)
      end       == IF from + remaining > ChunkSize THEN ChunkSize ELSE start + remaining
  IN  end - start

BufferStart(off, n) ==
  LET from[k \in Touched(off, n)] ==
        IF k = FirstChunk(off) THEN 0
        ELSE from[k - 1] + Delta(off, n, k - 1, from[k - 1])
  IN  from

Piece(off, n, k) ==
  LET from == BufferStart(off, n)[k] IN
    [start |-> ChunkStart(off, k), from |-> from, delta |-> Delta(off, n, k, from)]

-----------------------------------------------------------------------------
(***************************************************************************)
(* Data of a chunk: a function on 0..(length - 1).                         *)
(***************************************************************************)
Empty == <<>>
Length(d) == Cardinality(DOMAIN d)
Byte(d, j) == IF j \in DOMAIN d THEN d[j] ELSE Zero
ResizeTo(d, n) == [j \in 0..(n - 1) |-> Byte(d, j)]

\* Mutant of Overlay: required_size leaves out the offset in the chunk.
OverlayShort(d, p, w, n) ==
  [j \in 0..((IF Length(d) < p.delta THEN p.delta ELSE Length(d)) - 1) |->
     IF j \in p.start..(p.start + p.delta - 1) THEN <<w, p.from + j - p.start>> ELSE Byte(d, j)]

\* write_to_chunk for a piece of write w, whose b-th byte is <<w, b>>: memcpy
\* goes on behind the end of the buffer.
Overlay(d, p, w, n) ==
  LET end    == p.start + p.delta
      From(j) == p.from + j - p.start
  IN  [j \in 0..((IF Length(d) < end THEN end ELSE Length(d)) - 1) |->
         IF j \in p.start..(end - 1)
         THEN IF From(j) < n THEN <<w, From(j)>> ELSE Junk
         ELSE Byte(d, j)]

-----------------------------------------------------------------------------
(***************************************************************************)
(* The mishaps, as positions of the file that a write spoils.              *)
(***************************************************************************)
Positions(k) == (k * ChunkSize)..((k + 1) * ChunkSize - 1)
Request(off, n) == off..(off + n - 1)
Plain(off, n) == (off % ChunkSize) + n <= ChunkSize

\* A request of at most CHUNK_SIZE bytes that crosses the end of a chunk is
\* written into that chunk to its end.
Crossing(off, n) ==
  IF n <= ChunkSize THEN Request(off, n) \ Positions(FirstChunk(off)) ELSE {}

\* One of more than CHUNK_SIZE bytes fills its last chunk from behind the
\* buffer.
Overrun(off, n) ==
  IF n > ChunkSize THEN Positions(LastChunk(off, n)) \ Request(off, n) ELSE {}

\* A chunk that is stored and not cached starts anew, even if the request
\* only ends where the chunk begins.
Forgotten(off, n) ==
  UNION {Positions(k) \ Request(off, n) :
           k \in {i \in Touched(off, n) : i \notin DOMAIN cached /\ i \in DOMAIN remote}}

\* A retrieval that is under way will overwrite what is written.
Overtaken(off, n) == UNION {Positions(k) : k \in Touched(off, n) \cap filling}

\* The end of the request does not fit into the int it is kept in.
Wrapped(off, n) == IF off + n >= IntSize THEN Request(off, n) ELSE {}

-----------------------------------------------------------------------------
Call == ~down /\ calls < MaxCalls /\ calls' = calls + 1

Stored(k) == IF k \in DOMAIN remote THEN remote[k] ELSE Empty
Data(k) == IF k \in DOMAIN cached THEN cached[k] ELSE Empty

(***************************************************************************)
(* write: chunks that are not cached are created empty, all are marked and *)
(* noted in index_map_; then the end of the request, in an int, may become *)
(* the size.                                                               *)
(***************************************************************************)
EndPointer(off, n) == ((off + n + IntSize) % (2 * IntSize)) - IntSize
\* Mutant of NewSize: the end of the request is the size.
NewSizeAlways(off, n) == EndPointer(off, n)

NewSize(off, n) == IF size < EndPointer(off, n) THEN EndPointer(off, n) ELSE size

Write(off, n) ==
  /\ Call
  /\ LET ks == Touched(off, n) IN
       /\ cached' = [k \in DOMAIN cached \cup ks |->
                       IF k \in ks THEN Overlay(Data(k), Piece(off, n, k), calls, n) ELSE cached[k]]
       /\ dirty' = dirty \cup ks /\ index' = index \cup ks
  /\ size' = NewSize(off, n)
  /\ file' = [p \in DOMAIN file \cup Request(off, n) |->
                IF p \in Request(off, n) THEN <<calls, p - off>> ELSE file[p]]
  /\ spoilt' = (spoilt \ Request(off, n)) \cup Crossing(off, n) \cup Overrun(off, n)
                 \cup Forgotten(off, n) \cup Overtaken(off, n) \cup Wrapped(off, n)
  /\ plain' = (plain /\ Plain(off, n) /\ off <= size)
  /\ UNCHANGED <<remote, filling, loaded, down>>

(***************************************************************************)
(* raise_if_missing, for the chunks of a request in turn: those that are   *)
(* cached, those that are loaded, and those that have no location, at      *)
(* which the call and the program end.  A second load of a chunk blocks on *)
(* its CV mutex for ever, and a call that meets it has no step: what it    *)
(* did before a shorter call does.                                         *)
(***************************************************************************)
ToLoad(ks)  == {k \in ks : k \notin DOMAIN cached /\ k \in DOMAIN remote}
Missing(ks) == {k \in ks : k \notin DOMAIN cached /\ k \notin DOMAIN remote}

\* Of the retrievals that are started, those of "came" are answered before
\* the call goes on.
Load(ks, came) ==
  /\ ToLoad(ks) \cap loaded = {} /\ came \subseteq ToLoad(ks)
  /\ cached' = [k \in DOMAIN cached \cup ToLoad(ks) |->
                  IF k \in came THEN Stored(k) ELSE Data(k)]
  /\ filling' = filling \cup (ToLoad(ks) \ came)
  /\ loaded' = loaded \cup ToLoad(ks)

\* read: up to the size of the file, behind which the kernel asks for nothing.
\* read_from_chunk asserts that there are delta bytes.
Read(off, m) ==
  /\ Call /\ off < size
  /\ LET n  == IF off + m > size THEN size - off ELSE m
         ks == Touched(off, n)
     IN /\ \E came \in SUBSET ToLoad(ks) : Load(ks, came)
        /\ down' = (\/ Missing(ks) # {}
                    \/ \E k \in ks : Length(cached'[k]) < Piece(off, n, k).delta)
        /\ plain' = (plain /\ Plain(off, n) /\ filling' = {})
  /\ UNCHANGED <<dirty, index, remote, size, file, spoilt>>

(***************************************************************************)
(* truncate: the chunk of the new end is resized, without a dirty mark;    *)
(* key_missing_error is not the exception that truncate catches.           *)
(***************************************************************************)
Truncate(length) ==
  /\ Call
  /\ LET k == length \div ChunkSize IN
       IF Missing({k}) # {}
         THEN down' = TRUE /\ UNCHANGED <<cached, filling, loaded, size, file, spoilt>>
         ELSE /\ \E came \in SUBSET ToLoad({k}) :
                   /\ ToLoad({k}) \cap loaded = {}
                   /\ cached' = [i \in DOMAIN cached \cup {k} |->
                        IF i = k THEN ResizeTo(IF k \in came THEN Stored(k) ELSE Data(k),
                                               length % ChunkSize)
                        ELSE cached[i]]
                   /\ filling' = filling \cup (ToLoad({k}) \ came)
              /\ loaded' = loaded \cup ToLoad({k})
              /\ size' = length
              /\ file' = Restrict(file, {p \in DOMAIN file : p < length})
              /\ spoilt' = {p \in spoilt : p < length}
              /\ UNCHANGED down
  /\ plain' = (plain /\ length <= size /\ filling' = {})
  /\ UNCHANGED <<dirty, index, remote>>

(***************************************************************************)
(* The file is removed and created again: erase leaves its chunks where    *)
(* they are, marks and index included, and the new file has them.  create  *)
(* ends with a write of no byte at 0, which creates chunk 0 unless it is   *)
(* cached, marks it and notes it in index_map_.                            *)
(***************************************************************************)
Recreate ==
  /\ Call
  /\ cached' = [k \in DOMAIN cached \cup {0} |-> Data(k)]
  /\ dirty' = dirty \cup {0} /\ index' = index \cup {0}
  /\ size' = 0
  /\ file' = Empty /\ spoilt' = {} /\ plain' = (filling = {})
  /\ UNCHANGED <<remote, filling, loaded, down>>

(***************************************************************************)
(* A dht_task: the dirty chunks of the index are deposited, then all of    *)
(* the index is purged, with the objects retrievals were to fill.          *)
(***************************************************************************)
Flush ==
  /\ ~down /\ index \cap DOMAIN cached # {}
  /\ LET ks == index \cap dirty IN
       remote' = [k \in DOMAIN remote \cup ks |-> IF k \in ks THEN cached[k] ELSE remote[k]]
  /\ cached' = Restrict(cached, DOMAIN cached \ index)
  /\ dirty' = dirty \ index /\ filling' = filling \ index
  /\ UNCHANGED <<index, loaded, size, down, history, calls>>

\* receive_data: the archive replaces the data of the object.
Receive(k) ==
  /\ ~down /\ k \in filling
  /\ filling' = filling \ {k}
  /\ cached' = [cached EXCEPT ![k] = Stored(k)]
  /\ UNCHANGED <<dirty, index, remote, loaded, size, down, history, calls>>

-----------------------------------------------------------------------------
\* The file has just been created.
Init ==
  /\ cached = [k \in {0} |-> Empty] /\ dirty = {0} /\ index = {0} /\ remote = Empty
  /\ filling = {} /\ loaded = {} /\ size = 0 /\ down = FALSE
  /\ file = Empty /\ spoilt = {} /\ plain = TRUE /\ calls = 0

Next ==
  \/ \E off \in 0..(MaxEnd - 1) : \E n \in 1..(MaxEnd - off) : Write(off, n) \/ Read(off, n)
  \/ \E length \in 0..MaxEnd : Truncate(length)
  \/ Recreate \/ Flush
  \/ \E k \in filling : Receive(k)

Spec == Init /\ [][Next]_vars

-----------------------------------------------------------------------------
TypeOK ==
  /\ \A k \in DOMAIN cached \cup DOMAIN remote \cup index \cup loaded : k \in Nat
  /\ dirty \cup filling \subseteq DOMAIN cached
  /\ size \in Nat /\ size < IntSize + MaxEnd /\ calls \in 0..MaxCalls
  /\ \A p \in DOMAIN file : p \in 0..MaxEnd
  /\ {down, plain} \subseteq BOOLEAN

\* The byte a call would find at a position once the retrievals are answered.
Visible(p) ==
  LET k == p \div ChunkSize
      d == IF k \in DOMAIN cached \ filling THEN cached[k] ELSE Stored(k)
  IN  IF p % ChunkSize \in DOMAIN d THEN d[p % ChunkSize] ELSE Junk

(***************************************************************************)
(* What was written is found where it was written, through the cache or on *)
(* the chunk servers, and below the end of the file, however writes,       *)
(* truncations, flushes and loads follow each other; the mishaps named     *)
(* above are the only ways to lose a byte.                                 *)
(***************************************************************************)
WrittenAreKept ==
  \A p \in DOMAIN file \ spoilt : Visible(p) = file[p] /\ p < size

(***************************************************************************)
(* A file that was written from the beginning on, in requests that do not  *)
(* cross the end of a chunk, is read without the program ending, also      *)
(* after it was flushed, loaded again or truncated, as long as every       *)
(* retrieval is answered before the call that started it goes on and no    *)
(* byte of the file is spoilt.  Where a request ends with a chunk, read    *)
(* asks for the next one, which write must have created; and a flush may   *)
(* only drop what the chunk servers have.                                  *)
(***************************************************************************)
PlainFilesAreRead == plain /\ spoilt \cap DOMAIN file = {} => ~down

-----------------------------------------------------------------------------
(***************************************************************************)
(* What makes these inductive.  Data have no gap.  A chunk holds what was  *)
(* written unless it is being filled, a chunk without a dirty mark can be  *)
(* dropped because its chunk server has it all, and what is written into a *)
(* chunk that is being filled does not count.                              *)
(***************************************************************************)
IsData(d) == Length(d) \in Nat /\ DOMAIN d = 0..(Length(d) - 1)

Holds(d, p) == p % ChunkSize \in DOMAIN d /\ d[p % ChunkSize] = file[p]

Kept(p) ==
  LET k == p \div ChunkSize IN
    /\ p < size
    /\ k \in DOMAIN cached \ filling => Holds(cached[k], p)
    /\ k \notin dirty => Holds(Stored(k), p)
    /\ k \in dirty => k \notin filling

KeptInv ==
  /\ \A k \in DOMAIN cached : IsData(cached[k])
  /\ \A k \in DOMAIN remote : IsData(remote[k])
  /\ \A p \in DOMAIN file \ spoilt : Kept(p)

\* A plain file has all its bytes and chunks; in any file, a cached chunk
\* without a dirty mark is stored too.
PlainInv ==
  /\ DOMAIN cached \subseteq dirty \cup DOMAIN remote
  /\ plain =>
       /\ filling = {}
       /\ 0..(size - 1) \subseteq DOMAIN file
       /\ 0..(size \div ChunkSize) \subseteq DOMAIN cached \cup DOMAIN remote

=============================================================================
