------------------------------ MODULE History ------------------------------
(***************************************************************************)
(* The opt-in operation history (lib/storage/history.ts): entries in sealed*)
(* segments, a plaintext manifest of them, and the two ways they go, by the*)
(* budget and by a wipe (lib/never-cache.ts).                              *)
(*                                                                         *)
(* A window runs one history task at a time (withLock); the two windows    *)
(* share the storage and nothing else, so their tasks interleave between   *)
(* every two storage calls, and a window can close, or its session drop,   *)
(* anywhere.  An entry is a number; a segment's padded size is the number  *)
(* of its entries.                                                         *)
(***************************************************************************)
EXTENDS Naturals, Sequences, FiniteSets, Functions

CONSTANTS HistWindow,  \* windows of the panel
          PerSegment,  \* entries that fit into SEGMENT_SEAL_BYTES
          MaxEntries,  \* bound on captures
          MaxUpsets    \* bound on closings, locks, wipes and lost permissions

ASSUME HistAssumption == MaxEntries \in Nat

VARIABLES segment,   \* sealed segments in chrome.storage.local: number -> entries
          manifest,  \* the stored manifest, a sequence of [n, bytes]
          capturing, \* historyEnabled and not neverCacheKeys, as stored
          unlimited, \* the unlimitedStorage permission
          live,      \* windows with a session
          hist,      \* per window: its history task
          entries,   \* captures so far
          raced,     \* two windows wrote at once, or a session dropped in a task
          wiped,     \* never-cache mode was entered (observer)
          upsets

histVars == <<segment, manifest, capturing, unlimited, live, hist, entries, raced,
              wiped, upsets>>

SegNo == 0 .. MaxEntries
Refs == [n : SegNo, bytes : 0 .. MaxEntries]
None == {}
Resting == [at |-> "rest", man |-> <<>>, entry |-> 0, head |-> 0, isNew |-> FALSE,
            found |-> {}, all |-> {}, changed |-> FALSE, keys |-> {}]

HistTypeOK ==
    /\ segment \in [SegNo -> SUBSET (1 .. MaxEntries)]
    /\ \A i \in 1 .. Len(manifest) : manifest[i] \in Refs
    /\ capturing \in BOOLEAN /\ unlimited \in BOOLEAN /\ live \subseteq HistWindow
    /\ \A w \in HistWindow : \A i \in 1 .. Len(hist[w].man) : hist[w].man[i] \in Refs

HistInit ==
    /\ segment = [n \in SegNo |-> None] /\ manifest = <<>>
    /\ capturing = TRUE /\ unlimited \in BOOLEAN
    /\ live = HistWindow
    /\ hist = [w \in HistWindow |-> Resting]
    /\ entries = 0 /\ raced = FALSE /\ wiped = FALSE /\ upsets = 0

-----------------------------------------------------------------------------
Task(w, place) == hist[w].at = place
Lives(w) == w \in live
StoredEntries == UNION {segment[n] : n \in SegNo}

\* readSegment: throw-safe, so a segment that does not open reads as empty.
ReadSegment(w, n) == IF Lives(w) THEN segment[n] ELSE {}
Size(es) == Cardinality(es)

\* Budget: the weight of a segment is capped at the seal size.
BudgetFor(perm) == IF perm THEN 10 * PerSegment ELSE PerSegment
Weight(ref) == IF ref.bytes > PerSegment THEN PerSegment ELSE ref.bytes
Total(man) == FoldFunction(LAMBDA ref, sum : sum + Weight(ref), 0, man)

\* pruneToBudget: the oldest go first, never the head.
PrunedMan(man) ==
    LET fits(k) == Total(SubSeq(man, k, Len(man))) <= BudgetFor(unlimited)
        first == CHOOSE k \in 1 .. Len(man) :
                    /\ fits(k) \/ k = Len(man)
                    /\ \A j \in 1 .. k - 1 : ~fits(j)
    IN  IF man = <<>> THEN man ELSE SubSeq(man, first, Len(man))
Numbers(man) == {man[i].n : i \in 1 .. Len(man)}
Removed(ns) == [n \in SegNo |-> IF n \in ns THEN None ELSE segment[n]]

\* A task that begins while the other window's is past its first read is in a
\* race with it.
Races(w) == \E u \in HistWindow \ {w} :
                hist[u].at \notin {"rest", "captured", "list keys"}

-----------------------------------------------------------------------------
(* Capturing: recordHistory reads the preferences, then appends.           *)

Record(w) ==
    /\ Task(w, "rest") /\ capturing /\ entries < MaxEntries
    /\ entries' = entries + 1
    /\ hist' = [hist EXCEPT ![w] = [Resting EXCEPT !.at = "captured", !.entry = entries']]
    /\ UNCHANGED <<segment, manifest, capturing, unlimited, live, raced, wiped, upsets>>

\* A locked vault keeps no history; the check is repeated inside the lock.
BeginAppend(w) ==
    /\ Task(w, "captured")
    /\ hist' = [hist EXCEPT ![w] = IF Lives(w) THEN [@ EXCEPT !.at = "append", !.man = manifest]
                                   ELSE Resting]
    /\ raced' = (raced \/ (Lives(w) /\ Races(w)))
    /\ UNCHANGED <<segment, manifest, capturing, unlimited, live, entries, wiped, upsets>>

HeadOf(man) == man[Len(man)]
CountedNumber(man) == Len(man)  \* mutant
NextNumber(man) == IF man = <<>> THEN 0 ELSE HeadOf(man).n + 1

\* The head takes the entry while the result stays within the seal size; else
\* a new segment is begun.  The segment is written before the manifest.
AppendEntry(w) ==
    LET man == hist[w].man
        hasHead == man # <<>> /\ HeadOf(man).bytes \in 1 .. PerSegment
        grown == ReadSegment(w, HeadOf(man).n) \cup {hist[w].entry}
        intoHead == hasHead /\ (Size(grown) = 1 \/ Size(grown) <= PerSegment)
        n == IF intoHead THEN HeadOf(man).n ELSE NextNumber(man)
        content == IF intoHead THEN grown ELSE {hist[w].entry}
        ref == [n |-> n, bytes |-> Size(content)]
    IN  /\ Task(w, "append") /\ n \in SegNo
        /\ IF Lives(w)
           THEN /\ segment' = [segment EXCEPT ![n] = content]
                /\ hist' = [hist EXCEPT ![w] =
                     [@ EXCEPT !.at = "prune", !.head = n, !.isNew = ~intoHead,
                               !.man = IF intoHead THEN [man EXCEPT ![Len(man)] = ref]
                                       ELSE Append(man, ref)]]
           ELSE hist' = [hist EXCEPT ![w] = Resting] /\ UNCHANGED segment
        /\ UNCHANGED <<manifest, capturing, unlimited, live, entries, raced, wiped, upsets>>

PruneAppend(w) ==
    LET kept == PrunedMan(hist[w].man) IN
    /\ Task(w, "prune")
    /\ segment' = Removed(Numbers(hist[w].man) \ Numbers(kept))
    /\ hist' = [hist EXCEPT ![w] = [@ EXCEPT !.at = "record", !.man = kept]]
    /\ UNCHANGED <<manifest, capturing, unlimited, live, entries, raced, wiped, upsets>>

\* The manifest; when it is refused, a new segment is taken back.
RecordSegment(w) ==
    /\ Task(w, "record")
    /\ \/ /\ manifest' = hist[w].man
          /\ hist' = [hist EXCEPT ![w] = Resting]
       \/ /\ hist' = [hist EXCEPT ![w] = IF @.isNew THEN [@ EXCEPT !.at = "undo"] ELSE Resting]
          /\ UNCHANGED manifest
    /\ UNCHANGED <<segment, capturing, unlimited, live, entries, raced, wiped, upsets>>

UndoAppend(w) ==
    /\ Task(w, "undo")
    /\ segment' \in {Removed({hist[w].head}), segment}   \* best effort
    /\ hist' = [hist EXCEPT ![w] = Resting]
    /\ UNCHANGED <<manifest, capturing, unlimited, live, entries, raced, wiped, upsets>>

-----------------------------------------------------------------------------
(* Listing: loadHistory, from the manifest and what else there is.         *)

BeginLoad(w) ==
    /\ Task(w, "rest") /\ Lives(w)
    /\ hist' = [hist EXCEPT ![w] = [Resting EXCEPT !.at = "adopt", !.man = manifest,
                                                    !.all = StoredEntries]]
    /\ raced' = (raced \/ Races(w))
    /\ UNCHANGED <<segment, manifest, capturing, unlimited, live, entries, wiped, upsets>>

\* adoptStraySegments: by the prefix of their names, those that open.
Strays(w, man) == {n \in SegNo \ Numbers(man) : ReadSegment(w, n) # {}}

StrayRefs(w, man) == {[n |-> n, bytes |-> Size(segment[n])] : n \in Strays(w, man)}

\* Sorted by number: each reference behind those that are smaller.
InOrder(refs) ==
    [k \in 1 .. Cardinality(refs) |->
        CHOOSE ref \in refs : Cardinality({r \in refs : r.n < ref.n}) = k - 1]

\* A reading corrects the size the manifest has.
Resized(w, ref) ==
    LET es == ReadSegment(w, ref.n) IN IF es = {} THEN ref ELSE [n |-> ref.n, bytes |-> Size(es)]
ResizedMan(w, man) == [i \in 1 .. Len(man) |-> Resized(w, man[i])]

\* Adopted, pruned and read.
AdoptAndRead(w) ==
    LET man == hist[w].man
        found == InOrder(Range(man) \cup StrayRefs(w, man))
        kept == PrunedMan(found)
        read == ResizedMan(w, kept)
    IN  /\ Task(w, "adopt")
        /\ segment' = Removed(Numbers(found) \ Numbers(kept))
        /\ hist' = [hist EXCEPT ![w] =
             [@ EXCEPT !.at = "store", !.man = read,
                       !.changed = (found # man \/ kept # found \/ read # kept),
                       !.all = hist[w].all \cap UNION {segment'[n] : n \in SegNo},
                       !.found = UNION {ReadSegment(w, n) : n \in Numbers(kept)}]]
        /\ UNCHANGED <<manifest, capturing, unlimited, live, entries, raced, wiped, upsets>>

EndLoad(w) ==
    /\ Task(w, "store")
    /\ manifest' = IF hist[w].changed THEN hist[w].man ELSE manifest
    /\ hist' = [hist EXCEPT ![w] = Resting]
    /\ UNCHANGED <<segment, capturing, unlimited, live, entries, raced, wiped, upsets>>

-----------------------------------------------------------------------------
(* Wiping: never-cache mode saves the settings, then clears.               *)

Upset == upsets < MaxUpsets /\ upsets' = upsets + 1

EnterNeverCache(w) ==
    /\ Task(w, "rest") /\ capturing /\ Upset
    /\ capturing' = FALSE
    /\ hist' = [hist EXCEPT ![w] = [Resting EXCEPT !.at = "list keys"]]
    /\ UNCHANGED <<segment, manifest, unlimited, live, entries, raced, wiped>>

ListKeys(w) ==
    /\ Task(w, "list keys")
    /\ hist' = [hist EXCEPT ![w] = [@ EXCEPT !.at = "sweep",
                                                    !.keys = {n \in SegNo : segment[n] # None}]]
    /\ raced' = (raced \/ Races(w) \/ \E u \in HistWindow : Task(u, "captured"))
    /\ UNCHANGED <<segment, manifest, capturing, unlimited, live, entries, wiped, upsets>>

\* A sweep by prefix, not by the manifest.
SweptKeys(w) == hist[w].keys
Sweep(w) ==
    /\ Task(w, "sweep")
    /\ segment' = Removed(SweptKeys(w))
    /\ manifest' = <<>>
    /\ wiped' = TRUE
    /\ hist' = [hist EXCEPT ![w] = Resting]
    /\ UNCHANGED <<capturing, unlimited, live, entries, raced, upsets>>

-----------------------------------------------------------------------------
CloseHistWindow(w) ==
    /\ ~Task(w, "rest") /\ Upset
    /\ hist' = [hist EXCEPT ![w] = Resting]
    /\ UNCHANGED <<segment, manifest, capturing, unlimited, live, entries, raced, wiped>>

FlipSession(w) ==
    /\ Upset
    /\ live' = IF Lives(w) THEN live \ {w} ELSE live \cup {w}
    /\ raced' = (raced \/ ~Task(w, "rest"))
    /\ UNCHANGED <<segment, manifest, capturing, unlimited, hist, entries, wiped>>

RevokePermission ==
    /\ unlimited /\ Upset
    /\ unlimited' = FALSE
    /\ UNCHANGED <<segment, manifest, capturing, live, hist, entries, raced, wiped>>

HistNext ==
    \/ RevokePermission
    \/ \E w \in HistWindow :
          \/ Record(w) \/ BeginAppend(w) \/ AppendEntry(w) \/ PruneAppend(w)
          \/ RecordSegment(w) \/ UndoAppend(w)
          \/ BeginLoad(w) \/ AdoptAndRead(w) \/ EndLoad(w)
          \/ EnterNeverCache(w) \/ ListKeys(w) \/ Sweep(w)
          \/ CloseHistWindow(w) \/ FlipSession(w)

HistSpec == HistInit /\ [][HistNext]_histVars

-----------------------------------------------------------------------------
\* An entry of a listed segment leaves the history only by the budget or by a
\* wipe: no append replaces another entry, whatever was pruned or adopted
\* before it.  Two windows at once can (the accepted residual, history.ts:243),
\* and a segment that a crash left out of the manifest is replaced.
AppendsKeepTheRest ==
    [][\A w \in HistWindow : AppendEntry(w) /\ ~raced =>
          UNION {segment[n] : n \in Numbers(manifest)} \subseteq StoredEntries']_histVars

\* A listing shows every entry that was stored throughout, also of a segment
\* that no manifest knows, after a crash or another window's manifest.
ListingsAreComplete ==
    \A w \in HistWindow : Task(w, "store") /\ Lives(w) /\ ~raced => hist[w].all \subseteq hist[w].found

\* Pruning fits the budget of the moment, whatever became of the permission,
\* and spares the newest entries (the head).
BudgetIsKept ==
    [][\A w \in HistWindow : PruneAppend(w) =>
          LET kept == hist'[w].man IN
          /\ Len(kept) > 1 => Total(kept) <= BudgetFor(unlimited)
          /\ hist[w].head \in Numbers(kept)]_histVars

\* A wipe leaves nothing behind, strays included, unless a capture of some
\* window was under way.
WipesAreComplete == wiped /\ ~raced => StoredEntries = {}

\* "never-cache on, history capture off AND stored history wiped"
\* (never-cache.ts:5), whatever was under way.
NeverCacheWipes == wiped /\ (\A w \in HistWindow : Task(w, "rest")) => StoredEntries = {}

(* What the history promises (history.ts): a listing holds every entry,     *)
(* strays of a crash included; the budget is kept; a wipe leaves nothing;   *)
(* and an entry that is added costs no other but by the budget.             *)
HistoryIsWhole ==
    /\ [](HistTypeOK /\ ListingsAreComplete /\ WipesAreComplete)
    /\ AppendsKeepTheRest /\ BudgetIsKept
=============================================================================
