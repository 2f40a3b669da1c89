----------------------------- MODULE SparseCopy -----------------------------
(***************************************************************************)
(* CopySparse of pkg/os: disk images are copied chunk by chunk, and chunks *)
(* of zeroes are skipped by seeking, so that the copy has holes in their   *)
(* place.  A reader may return less than it is asked for, so the chunks    *)
(* end anywhere.                                                           *)
(***************************************************************************)
EXTENDS Naturals

CONSTANTS
  Bytes,          \* what a file is made of, 0 among them
  copyChunkSize,  \* the length of emptyChunk
  MaxRead,        \* how much one read may return
  MaxLen          \* the length of the longest source

ASSUME SparseAssumption ==
  /\ 0 \in Bytes
  /\ copyChunkSize \in Nat /\ MaxRead \in Nat /\ MaxLen \in Nat

VARIABLES
  len, src,         \* the source: its length and its bytes
  read,             \* how much of it has been read
  offset,           \* where the destination is written next
  size, content,    \* the destination: its length and its bytes
  lastChunkSparse,  \* was the last chunk skipped
  pc

copyVars == <<len, src, read, offset, size, content, lastChunkSparse, pc>>

\* The destination has just been created or truncated.
CopyInit ==
  /\ len \in 0..MaxLen /\ src \in [1..len -> Bytes]
  /\ read = 0 /\ offset = 0
  /\ size = 0 /\ content = [i \in 1..0 |-> 0]
  /\ lastChunkSparse = FALSE
  /\ pc = "copy"

\* Does the k-byte chunk that is read next match a prefix of emptyChunk.
isEmptyChunk(k) ==
  /\ k <= copyChunkSize
  /\ \A i \in (read + 1)..(read + k) : src[i] = 0

\* An empty chunk is skipped,
Skip(k) ==
  /\ read' = read + k
  /\ offset' = offset + k
  /\ lastChunkSparse' = TRUE
  /\ UNCHANGED <<size, content>>

\* and any other is written; a file that is written past its end is filled with zeroes.
WriteChunk(k) ==
  /\ read' = read + k
  /\ offset' = offset + k
  /\ lastChunkSparse' = FALSE
  /\ size' = offset + k
  /\ content' = [i \in 1..(offset + k) |->
                   IF i > offset THEN src[i - offset + read]
                   ELSE IF i <= size THEN content[i] ELSE 0]

\* io.CopyBuffer hands every chunk it has read to sparseWriter.Write.
Write ==
  /\ pc = "copy" /\ read < len
  /\ \E k \in 1..MaxRead :
       /\ read + k <= len
       /\ IF isEmptyChunk(k) THEN Skip(k) ELSE WriteChunk(k)
  /\ UNCHANGED <<len, src, pc>>

\* A hole at the end only becomes part of the file with a zero written at its end.
Close ==
  /\ pc = "copy" /\ read = len
  /\ pc' = "done"
  /\ IF lastChunkSparse
     THEN /\ size' = offset
          /\ content' = [i \in 1..offset |-> IF i <= size THEN content[i] ELSE 0]
     ELSE UNCHANGED <<size, content>>
  /\ UNCHANGED <<len, src, read, offset, lastChunkSparse>>

CopyNext == Write \/ Close

CopySpec == CopyInit /\ [][CopyNext]_copyVars

-----------------------------------------------------------------------------
\* Type invariant.
CopyTypeOK ==
  /\ len \in Nat /\ src \in [1..len -> Bytes]
  /\ read \in 0..len /\ offset \in 0..len /\ size \in 0..len
  /\ content \in [1..size -> Bytes]
  /\ lastChunkSparse \in BOOLEAN
  /\ pc \in {"copy", "done"}

\* Inductive: what is copied so far is the beginning of the source, and only zeroes are
\* missing between the end of the destination and the place of the next write.
CopyInv ==
  /\ CopyTypeOK
  /\ offset = read
  /\ size <= read
  /\ \A i \in 1..size : content[i] = src[i]
  /\ \A i \in (size + 1)..read : src[i] = 0
  /\ (~lastChunkSparse \/ pc = "done") => size = read
  /\ pc = "done" => read = len

(***************************************************************************)
(* CopySparse copies: wherever the reads end and wherever the zeroes are,  *)
(* the destination has the length and the bytes of the source when it      *)
(* returns nil.                                                            *)
(***************************************************************************)
CopyFaithful ==
  pc = "done" => size = len /\ content = src

=============================================================================
