------------------------------- MODULE Chunked -------------------------------
(***************************************************************************)
(* Chunked values in chrome.storage.sync (lib/storage/chunked.ts).  A value*)
(* too large for one item is split over several behind a manifest, the item*)
(* under the key itself.  One set() stores them together, but reading takes*)
(* two calls, and a write takes three: what is stored now, the set(), and  *)
(* the removal of what a larger predecessor leaves behind.  Windows do not *)
(* exclude each other here, a panel can close between any two calls, and a *)
(* value written on another device arrives item by item.                   *)
(***************************************************************************)
EXTENDS Naturals, FiniteSets

CONSTANTS ChunkedValue,  \* records [tag, n, last]: n pieces, the last of last units
          Writer,        \* windows, each making one call at a time
          MaxCalls,      \* bound on the calls made
          FullChunk      \* CHUNK_BUDGET in the units of last

MaxChunks == 3

\* A value that fits one item has no pieces.
ASSUME ChunkAssumption ==
    /\ FullChunk \in Nat \ {0} /\ MaxCalls \in Nat
    /\ \A v \in ChunkedValue :
          /\ v = [tag |-> v.tag, n |-> v.n, last |-> v.last]
          /\ v.n \in 0 .. MaxChunks /\ v.last \in 0 .. FullChunk

ChunkIx == 1 .. MaxChunks
Missing == [tag |-> 0, n |-> 0, last |-> 0]

\* What an item holds: nothing, a short value itself, a manifest, a piece.
NoItem == [kind |-> "none", of |-> Missing, ix |-> 0]
Piece(v, i) == [kind |-> "piece", of |-> v, ix |-> i]
Manifest(v) == [kind |-> "manifest", of |-> v, ix |-> 0]
Verbatim(v) == [kind |-> "value", of |-> v, ix |-> 0]

IsManifest(item) == item.kind = "manifest"
PieceLen(item) == IF item.ix < item.of.n THEN FullChunk ELSE item.of.last
ValueLen(v) == FullChunk * (v.n - 1) + v.last
HeadFor(v) == IF v.n = 0 THEN Verbatim(v) ELSE Manifest(v)
ChunksOf(head) == IF IsManifest(head) THEN head.of.n ELSE 0

VARIABLES head,        \* the item under the key
          chunk,       \* the items under key::sc0, key::sc1, ...
          calls,       \* each window's call
          incoming,    \* items of another device's write still to arrive
          made,        \* calls made so far (bound)
          disturbed    \* what has happened that the code cannot exclude (observer)

chunkVars == <<head, chunk, calls, incoming, made, disturbed>>

NoRead == [kind |-> "none", of |-> Missing]
Idle == [pc |-> "idle", v |-> Missing, seen |-> NoItem, got |-> NoRead]

ChunkTypeOK ==
    /\ head \in {NoItem} \cup {HeadFor(v) : v \in ChunkedValue}
    /\ chunk \in [ChunkIx -> {NoItem} \cup {Piece(v, i) : v \in ChunkedValue, i \in ChunkIx}]
    /\ \A w \in Writer :
          calls[w].pc \in {"idle", "set", "trim", "assemble", "unchunk", "unhead"}
    /\ made \in 0 .. MaxCalls
    /\ disturbed \subseteq {"overlap", "crash", "unchunked", "remote", "exact", "twice"}

ChunkInit ==
    /\ head = NoItem
    /\ chunk = [i \in ChunkIx |-> NoItem]
    /\ calls = [w \in Writer |-> Idle]
    /\ incoming = {}
    /\ made = 0
    /\ disturbed = {}

Writing(w) == calls[w].pc \in {"set", "trim", "unchunk", "unhead"}
\* A write landing while another window is inside one.
Overlap(w) == IF \E u \in Writer \ {w} : Writing(u) THEN {"overlap"} ELSE {}

\* A value that fills its last item to the byte.
Exact(v) == IF v.last = FullChunk THEN {"exact"} ELSE {}
\* A second write since a reader saw the manifest it assembles.
Twice == IF \E r \in Writer : calls[r].pc = "assemble" /\ head # calls[r].seen
         THEN {"twice"} ELSE {}

\* area.get(key): how setChunked, getChunked and removeChunked all begin.
Begin(w, pc, v) ==
    /\ calls[w].pc = "idle" /\ made < MaxCalls
    /\ made' = made + 1
    /\ calls' = [calls EXCEPT ![w] = [pc |-> pc, v |-> v, seen |-> head, got |-> NoRead]]
    /\ UNCHANGED <<head, chunk, incoming, disturbed>>

\* getChunked answers at once for a value that is not chunked.
ReadHead(w) ==
    IF IsManifest(head) THEN Begin(w, "assemble", Missing)
    ELSE /\ calls[w].pc = "idle" /\ made < MaxCalls
         /\ made' = made + 1
         /\ calls' = [calls EXCEPT ![w].got =
                        IF head = NoItem THEN NoRead ELSE [kind |-> "whole", of |-> head.of]]
         /\ UNCHANGED <<head, chunk, incoming, disturbed>>

\* removeChunked only removes chunk items when it saw a manifest.
RemoveHead(w) == Begin(w, IF IsManifest(head) THEN "unchunk" ELSE "unhead", Missing)

\* The items one set() stores.
ChunksOfValue(v) == {i \in ChunkIx : i <= v.n}

\* area.set(writes): all items or, over the quota, none.
SetItems(w) ==
    LET v == calls[w].v
        stale == ChunksOf(calls[w].seen) > v.n
    IN  /\ calls[w].pc = "set"
        /\ \/ /\ head' = HeadFor(v)
              /\ chunk' = [i \in ChunkIx |->
                             IF i \in ChunksOfValue(v) THEN Piece(v, i) ELSE chunk[i]]
              /\ calls' = [calls EXCEPT ![w] =
                             IF stale THEN [@ EXCEPT !.pc = "trim"] ELSE Idle]
              /\ disturbed' = disturbed \cup Overlap(w) \cup Exact(v) \cup Twice
           \/ /\ calls' = [calls EXCEPT ![w] = Idle]     \* quota exceeded
              /\ UNCHANGED <<head, chunk, disturbed>>
        /\ UNCHANGED <<incoming, made>>

\* removeChunkItems after a set(): from the new count to the one seen before it.
LeftOver(w) ==
    {i \in ChunkIx : calls[w].v.n < i /\ i <= ChunksOf(calls[w].seen)}

Trim(w) ==
    /\ calls[w].pc = "trim"
    /\ chunk' = [i \in ChunkIx |-> IF i \in LeftOver(w) THEN NoItem ELSE chunk[i]]
    /\ calls' = [calls EXCEPT ![w] = Idle]
    /\ disturbed' = disturbed \cup Overlap(w)
    /\ UNCHANGED <<head, incoming, made>>

\* removeChunked: the chunk items go first, the manifest after them.
RemoveChunks(w) ==
    /\ calls[w].pc = "unchunk"
    /\ chunk' = [i \in ChunkIx |-> IF i <= ChunksOf(calls[w].seen) THEN NoItem ELSE chunk[i]]
    /\ calls' = [calls EXCEPT ![w].pc = "unhead"]
    /\ disturbed' = disturbed \cup Overlap(w) \cup {"unchunked"}
    /\ UNCHANGED <<head, incoming, made>>

RemoveKey(w) ==
    /\ calls[w].pc = "unhead"
    /\ head' = NoItem
    /\ calls' = [calls EXCEPT ![w] = Idle]
    /\ disturbed' = (disturbed \ {"unchunked"}) \cup Overlap(w)
    /\ UNCHANGED <<chunk, incoming, made>>

\* The pieces a manifest asks for, and what reassembling them comes to.
Pieces(m) == {chunk[i] : i \in 1 .. m.of.n}
LenOfPieces(m) == LET p(i) == IF chunk[i] = NoItem THEN 0 ELSE PieceLen(chunk[i])
                  IN  p(1) + (IF m.of.n > 1 THEN p(2) ELSE 0) + (IF m.of.n = 3 THEN p(3) ELSE 0)
AnyLength(m) == TRUE  \* mutant
LengthMatches(m) == LenOfPieces(m) = ValueLen(m.of)
Origins(m) == {p.of : p \in Pieces(m)}

\* The second half of getChunked.  A prefix of a longer JSON text never parses.
Reassembled(m) ==
    IF NoItem \in Pieces(m) \/ ~LengthMatches(m) THEN [kind |-> "refused", of |-> Missing]
    ELSE IF Cardinality(Origins(m)) > 1 THEN [kind |-> "mixture", of |-> Missing]
    ELSE LET v == CHOOSE o \in Origins(m) : TRUE
         IN  IF v.n = m.of.n THEN [kind |-> "whole", of |-> v]
             ELSE [kind |-> "refused", of |-> Missing]

Assemble(w) ==
    /\ calls[w].pc = "assemble"
    /\ calls' = [calls EXCEPT ![w] = [Idle EXCEPT !.got = Reassembled(calls[w].seen)]]
    /\ UNCHANGED <<head, chunk, incoming, made, disturbed>>

\* The panel closes in the middle of a call.
Close(w) ==
    /\ Writing(w)
    /\ calls' = [calls EXCEPT ![w] = Idle]
    /\ disturbed' = disturbed \cup {"crash"}
    /\ UNCHANGED <<head, chunk, incoming, made>>

\* Another device stores a value: its items arrive here one at a time.
RemoteWrite ==
    /\ made < MaxCalls /\ incoming = {}
    /\ made' = made + 1
    /\ \E v \in ChunkedValue :
          incoming' = {HeadFor(v)} \cup {Piece(v, i) : i \in ChunksOfValue(v)}
    /\ disturbed' = disturbed \cup {"remote"}
    /\ UNCHANGED <<head, chunk, calls>>

Arrive ==
    /\ \E item \in incoming :
          /\ incoming' = incoming \ {item}
          /\ IF item.kind = "piece"
             THEN chunk' = [chunk EXCEPT ![item.ix] = item] /\ UNCHANGED head
             ELSE head' = item /\ UNCHANGED chunk
    /\ UNCHANGED <<calls, made, disturbed>>

ChunkStep(w) == SetItems(w) \/ Trim(w) \/ RemoveChunks(w) \/ RemoveKey(w) \/ Assemble(w)

ChunkNext ==
    \/ \E w \in Writer :
          \/ \E v \in ChunkedValue : Begin(w, "set", v)
          \/ ReadHead(w)
          \/ RemoveHead(w)
          \/ ChunkStep(w)
          \/ Close(w)
    \/ RemoteWrite
    \/ Arrive

ChunkSpec == ChunkInit /\ [][ChunkNext]_chunkVars

-----------------------------------------------------------------------------
HeadReadable == IsManifest(head) => Reassembled(head) = [kind |-> "whole", of |-> head.of]

\* A read that overlaps this device's writes returns one stored value whole or
\* is refused (chunked.ts:16, the reason for the manifest's __len).  Pieces of
\* two values pass as one only when another device's write is half arrived, when
\* two values are stored during one read, or when a value fills its last item
\* exactly: its pieces and one left over from the larger value before it can add
\* up to the length the reader expects.
ReadIsWhole ==
    \A w \in Writer : calls[w].got.kind = "mixture" => disturbed \cap {"remote", "exact", "twice"} # {}

\* What is stored can be read again, also when the panel closed inside a write
\* or the quota refused one: the set() is all or nothing and the cleanup only
\* takes what is left over.  It is not so while a removal is between its two
\* calls (or closed there), when two windows' writes overlapped, or while
\* another device's write is arriving.
StoredIsReadable == disturbed \cap {"overlap", "unchunked", "remote"} = {} => HeadReadable

\* Once its writer is done, a smaller value leaves no piece of a larger one.
NothingLeftOver ==
    /\ disturbed \subseteq {"exact", "twice"}
    /\ \A w \in Writer : ~Writing(w)
    => \A i \in ChunkIx : chunk[i] # NoItem => i <= ChunksOf(head)

(* What a chunked value promises (chunked.ts): a read gives the whole of a  *)
(* value some writer wrote, or says that it cannot; what is stored can be   *)
(* read once nobody writes; and a finished write leaves none of the chunks  *)
(* of a longer value behind.                                                *)
ChunksAreWhole == ChunkTypeOK /\ ReadIsWhole /\ StoredIsReadable /\ NothingLeftOver
=============================================================================
