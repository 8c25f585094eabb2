------------------------- MODULE SegmentCacheStore -------------------------
(***************************************************************************)
(* SegmentCache implements SegmentStore for each of its segments.          *)
(***************************************************************************)
EXTENDS SegmentCache

StoreOf(s) == INSTANCE SegmentStore WITH
    Bodies <- Complete, Missing <- "none",
    content <- file[s], paid <- cost[s] # 0,
    doubted <- s \in misread, spoiled <- s \in torn

StoreInit == \A s \in Segments : StoreOf(s)!Init
StoreNext == \A s \in Segments : [StoreOf(s)!Next]_(StoreOf(s)!vars)

\* However many requests miss a segment together, and whatever fails, is swept,
\* deleted or killed meanwhile: it is downloaded once, appears whole, and its bytes
\* do not change before it is removed or cannot be read, unless a client hung up
\* during a write of it (segment_cache.rs:18, 41-79, stream.rs:97-99).
ImplementsStore == StoreInit /\ [][StoreNext]_vars

\* "A segment id never points at different bytes" (stream.rs:97-98): a cached file
\* is removed before the same name has other content, or whoever had the lock
\* could not read it, with the same exception.
NeverRewritten ==
    [][\A s \in Segments \ (torn' \cup misread) :
          file[s] # "none" /\ file'[s] # "none" => file'[s] = file[s]]_vars

=============================================================================
