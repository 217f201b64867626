------------------------------- MODULE Chunks -------------------------------
(***************************************************************************)
(* coingecko_common/process_in_chunks.go: how a list of ids is cut into    *)
(* requests.  Of an id only its length matters.                            *)
(***************************************************************************)
EXTENDS Integers, Sequences

\* The inner loop of processInChunks: the position of the last id of the chunk
\* that begins after `start`.  It goes on while the next id fits within both
\* limits, and takes an id that is too long for any chunk alone.
ChunkEnd(lengths, start, itemsLimit, lengthLimit) ==
  LET currentLength[end \in start .. Len(lengths)] ==
        IF end = start THEN 0 ELSE currentLength[end - 1] + lengths[end]
      fits(end) == /\ end - start <= itemsLimit
                   /\ lengthLimit > 0 => currentLength[end] <= lengthLimit
      last == CHOOSE end \in start .. Len(lengths) :
                /\ \A i \in start + 1 .. end : fits(i)
                /\ end < Len(lengths) => ~fits(end + 1)
  IN IF last = start THEN start + 1 ELSE last
=============================================================================
