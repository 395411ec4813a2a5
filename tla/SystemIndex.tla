----------------------------- MODULE SystemIndex -----------------------------
(***************************************************************************)
(* How text gets into an index, as functions: a section is cut into chunks *)
(* (ChunkingService), and the index of the system's documents is brought   *)
(* up to date from the one before it (SystemIndexingService).              *)
(*                                                                         *)
(* A text is a sequence of characters, "P" a break between paragraphs; a   *)
(* chunk is the interval of the text it is cut from.  A file is its path   *)
(* and the hash of its contents; what is indexed for it is the hash and    *)
(* the runtime that embedded it.                                           *)
(***************************************************************************)
EXTENDS Integers, SequencesExt

CONSTANTS
  ChunkSize, Overlap,
  Sections,            \* bound: cleaned texts
  Folders,             \* bound: what the documents directory holds, [paths -> hashes]
  Runtimes,            \* embedding models and runtimes
  Unparsable           \* hashes of files the parser rejects

ASSUME SystemAssumptions ==
  /\ ChunkSize \in Nat \ {0} /\ Overlap \in 0 .. ChunkSize - 1
  /\ \A text \in Sections : text \in Seq(STRING)

-----------------------------------------------------------------------------
(* ChunkingService.chunk_sections.                                         *)

Spaces == {" ", "P"}
Separators == << <<"P">>, <<".", " ">>, <<" ">> >>

\* The last place of the first separator that occurs in the second half; the
\* text up to it, with a full stop.
PreferredEnd(text, start, limit) ==
  LET Places(sep) ==
        {p \in start + Max({1, (limit - start) \div 2}) .. limit - Len(sep) :
           SubSeq(text, p + 1, p + Len(sep)) = sep}
      occurring == {k \in DOMAIN Separators : Places(Separators[k]) # {}}
      best == Separators[Min(occurring)]
  IN IF limit >= Len(text) THEN Len(text)
     ELSE IF occurring = {} THEN limit
     ELSE Max(Places(best)) + Len(best) - 1

\* Mutant: the next chunk starts behind a separator that need not be there.
BehindSeparator(text, start, end) == end + 1
NextStart(text, start, end) ==
  Min({n \in Max({start + 1, end - Overlap}) .. end : n = end \/ text[n + 1] \notin Spaces})

Cut(text, sofar) ==
  LET end == PreferredEnd(text, sofar.start, Min({sofar.start + ChunkSize, Len(text)}))
      blank == \A i \in sofar.start + 1 .. end : text[i] \in Spaces
  IN IF sofar.start >= Len(text) THEN sofar
     ELSE [start |-> IF end >= Len(text) THEN end ELSE NextStart(text, sofar.start, end),
           chunks |-> IF blank THEN sofar.chunks
                      ELSE Append(sofar.chunks, [start |-> sofar.start, end |-> end])]

\* The loop starts further on in each round.
chunk_section(text) ==
  LET round[n \in 0 .. Len(text)] ==
        IF n = 0 THEN [start |-> 0, chunks |-> << >>] ELSE Cut(text, round[n - 1])
  IN round[Len(text)]

-----------------------------------------------------------------------------
(* SystemIndexingService.synchronize.                                      *)

NoIndex == [entries |-> << >>, chunks |-> << >>, runtime |-> "none"]

\* Of files with the same contents the first is indexed.
Canonical(files) ==
  {p \in DOMAIN files : \A q \in DOMAIN files : files[q] = files[p] => p <= q}

\* Mutant: a file is known by its path.
KnownPath(old, files, force, runtime, p) ==
  /\ ~force /\ old.runtime = runtime
  /\ p \in DOMAIN old.entries /\ old.entries[p].indexed /\ p \in DOMAIN old.chunks
Unchanged(old, files, force, runtime, p) ==
  /\ ~force /\ old.runtime = runtime
  /\ p \in DOMAIN old.entries
  /\ old.entries[p].indexed /\ old.entries[p].hash = files[p]
  /\ p \in DOMAIN old.chunks

\* A file that cannot be parsed ends it before anything is committed.
Synchronize(old, files, force, runtime) ==
  LET kept == {p \in Canonical(files) : Unchanged(old, files, force, runtime, p)}
  IN IF \E p \in Canonical(files) \ kept : files[p] \in Unparsable THEN old
     ELSE [entries |-> [p \in DOMAIN files |->
                          [hash |-> files[p], indexed |-> p \in Canonical(files)]],
           chunks |-> [p \in Canonical(files) |->
                         IF p \in kept THEN old.chunks[p] ELSE <<files[p], runtime>>],
           runtime |-> runtime]

-----------------------------------------------------------------------------
(* Properties, over the bounded inputs.                                    *)

\* Every character of a text but white space is in a chunk; no chunk exceeds
\* the size; each goes further than the one before it and repeats no more of
\* it than the overlap.
ChunksCoverText ==
  \A text \in Sections :
    LET chunks == chunk_section(text).chunks
    IN /\ \A i \in DOMAIN text : text[i] \in Spaces
            \/ \E k \in DOMAIN chunks : i \in chunks[k].start + 1 .. chunks[k].end
       /\ \A k \in DOMAIN chunks : chunks[k].end - chunks[k].start \in 1 .. ChunkSize
       /\ \A k \in 2 .. Len(chunks) :
            /\ chunks[k].start > chunks[k - 1].start
            /\ chunks[k].start >= chunks[k - 1].end - Overlap

\* However the directory and the runtime changed, and whatever earlier runs
\* failed, a synchronisation that commits leaves the index a full one builds:
\* each content once, as it is now.
SyncsAreFull ==
  \A first, second, third \in Folders, r, s \in Runtimes, force \in BOOLEAN :
    LET before == Synchronize(Synchronize(NoIndex, first, FALSE, r), second, FALSE, r)
        after == Synchronize(before, third, force, s)
    IN after # before =>
         after.chunks = [p \in Canonical(third) |-> <<third[p], s>>]
=============================================================================
