----------------------------- MODULE CafsReader -----------------------------
(***************************************************************************)
(* Reading a file back from the content-addressable store                  *)
(* (pkg/cafs/reader.go, freelists.go, hasher.go): ReadAt over the shared   *)
(* LRU cache of leaf buffers and the free list that recycles them, with    *)
(* prefetching; Read, which streams the leaves one after the other; and    *)
(* WriteTo, which fetches them in parallel.  The uploads of CafsWriter     *)
(* have ended when reading starts; Root is the file that is read.          *)
(***************************************************************************)
EXTENDS CafsWriter, SequencesExt

CONSTANTS
  Root,          \* the Put whose file is read
  Readers,       \* goroutines in ReadAt, each with its own chunkReader
  Requests,      \* Requests[t]: the calls t may make, [off, len]
  CacheBuffers,  \* capacity of the LRU
  Spare,         \* buffersForparallelReaders
  ReadSizes,     \* lengths of the buffer given to Read
  MaxWrites      \* concurrentChunkWrites

VARIABLES
  mode,        \* "put" while uploading, then which way the file is read
  prefetch,    \* maxFetchAhead
  keys,        \* keys of the chunkReaders
  rd,          \* the readers in ReadAt
  latch,       \* {t}: t holds lruLatch
  lru,         \* the cache, oldest first: [key, buf]
  bufs,        \* every buffer allocated: [bytes, pin]
  free,        \* the free list
  releasing,   \* how many Release goroutines wait for each buffer
  fetching,    \* fetching[t]: leaf index -> "busy" or "err"
  pre,         \* prefetching goroutines
  serial,      \* the reader in Read
  wt           \* the goroutines of WriteTo

sVars == <<crc, verify, piece, blobs, put, tasks, keysCache, damaged>>
atVars == <<rd, latch, lru, bufs, free, releasing, fetching, pre>>
rVars == <<mode, prefetch, keys, atVars, serial, wt>>

NoBuffer == 0
Idle == [pc |-> "idle", off |-> 0, len |-> 0, index |-> 1, offset |-> 0, got |-> <<>>,
         buf |-> NoBuffer, cached |-> FALSE, stale |-> FALSE]

\* leavesForHash: the root blob must hold keys that hash to the key it ends with.
LeavesForHash(root) == IF Whole(root) THEN [ok |-> TRUE, keys |-> root[2]]
                       ELSE [ok |-> FALSE, keys |-> <<>>]
RootKey == RootHash(LeafKeysOf(Src[Root]))

\* Get / GetAt: the leaf keys come from keysCache or from the root blob.  The
\* process that reads may be the one that uploaded, with its cache, or another.
\* Of the uploads only the blobs of the file matter from here on.
OpenReader ==
  /\ mode = "put" /\ \A p \in Puts : Ended(p)
  /\ \E cached \in {keysCache, {}} :
       LET r == IF RootKey \in cached THEN [ok |-> TRUE, keys |-> RootKey[2]]
                ELSE LeavesForHash(RootKey)
       IN /\ keys' = r.keys
          /\ \/ ~r.ok /\ mode' = "failed"
             \/ r.ok /\ mode' \in {"readat", "read", "writeto"}
  /\ prefetch' \in (IF mode' = "readat" THEN {0, 1} ELSE {0})
  /\ put' = [p \in Puts |-> [NewWriter EXCEPT !.pc = "gone"]]
  /\ blobs' = Restrict(blobs, KeysOf(Src[Root]) \intersect DOMAIN blobs)
  /\ keysCache' = {} /\ damaged' = {} /\ piece' = LeafSize /\ crc' = TRUE /\ verify' = TRUE
  /\ UNCHANGED <<tasks, faults, atVars, serial, wt>>

\* verifyHash follows the numbering of the writer.
VerifyHash(index, bytes) ==
  IF index = Len(keys) /\ Len(bytes) # LeafSize
  THEN KeyFromBytes(bytes, index - 1, TRUE) = keys[index]
  ELSE KeyFromBytes(bytes, index, FALSE) = keys[index]
\* What the backend returns for a leaf.
Stored(key) == SubSeq(Content(key), 1, blobs[key])

-----------------------------------------------------------------------------
(* The buffer pool. *)

Pinned(b) == bufs[b].pin
InCache(key) == \E i \in 1..Len(lru) : lru[i].key = key
Entry(key) == CHOOSE i \in 1..Len(lru) : lru[i].key = key

\* Get of the free list: the last buffer, reset, or a new one.
Recycled == IF free = <<>> THEN Len(bufs) + 1 ELSE Last(free)
GetBuffer ==
  /\ free' = IF free = <<>> THEN free ELSE Front(free)
  /\ bufs' = IF free = <<>> THEN Append(bufs, [bytes |-> <<>>, pin |-> FALSE])
             ELSE [bufs EXCEPT ![Last(free)].bytes = <<>>]
  /\ releasing' = IF free = <<>> THEN Append(releasing, 0) ELSE releasing

\* Release is asynchronous.
Releasing(B) == [b \in 1..Len(bufs) |-> releasing[b] + IF b \in B THEN 1 ELSE 0]
\* Mutant: the buffer goes to the list whoever has it pinned.
ReleaseAnyway(b) ==
  /\ mode = "readat" /\ releasing[b] > 0
  /\ releasing' = [releasing EXCEPT ![b] = @ - 1]
  /\ free' = IF Len(free) > CacheBuffers + Spare THEN free ELSE Append(free, b)
  /\ UNCHANGED <<wVars, mode, prefetch, keys, rd, latch, lru, bufs, fetching, pre, serial, wt>>
\* The goroutine waits for the buffer to be idle and puts it on the list, or
\* drops it above the watermark.
Release(b) ==
  /\ mode = "readat" /\ releasing[b] > 0 /\ ~Pinned(b)
  /\ releasing' = [releasing EXCEPT ![b] = @ - 1]
  /\ free' = IF Len(free) > CacheBuffers + Spare THEN free ELSE Append(free, b)
  /\ UNCHANGED <<wVars, mode, prefetch, keys, rd, latch, lru, bufs, fetching, pre, serial, wt>>

\* Mutant: the buffer is released whether or not the cache took it.
AddAndRelease(key, b) ==
  LET full == Append(lru, [key |-> key, buf |-> b])
  IN IF InCache(key)
     THEN lru' = lru /\ releasing' = Releasing({b})
     ELSE /\ lru' = IF Len(full) > CacheBuffers THEN Tail(full) ELSE full
          /\ releasing' = Releasing((IF Len(full) > CacheBuffers THEN {full[1].buf} ELSE {}) \union {b})
\* addToCache: ContainsOrAdd, which holds no latch.  What is in the cache already,
\* and what the cache evicts, is released.
AddToCache(key, b) ==
  LET full == Append(lru, [key |-> key, buf |-> b])
  IN IF InCache(key)
     THEN lru' = lru /\ releasing' = Releasing({b})
     ELSE /\ lru' = IF Len(full) > CacheBuffers THEN Tail(full) ELSE full
          /\ releasing' = Releasing(IF Len(full) > CacheBuffers THEN {full[1].buf} ELSE {})

-----------------------------------------------------------------------------
(* ReadAt. *)

SetRd(t, r) == rd' = [rd EXCEPT ![t] = r]
AtStep(t, pc) == mode = "readat" /\ rd[t].pc = pc
atRest == <<wVars, mode, prefetch, keys, serial, wt>>

\* calculateKeyAndOffset: the leaf the offset falls in, and where.
StartReadAt(t, q) ==
  LET index == q.off \div LeafSize + 1
  IN /\ AtStep(t, "idle")
     /\ SetRd(t, [Idle EXCEPT !.pc = IF index > Len(keys) THEN "done" ELSE "lookup",
                              !.off = q.off, !.len = q.len,
                              !.index = index, !.offset = q.off % LeafSize])
     /\ UNCHANGED <<atRest, latch, lru, bufs, free, releasing, fetching, pre>>

\* lru.Get under lruLatch: a hit makes the leaf the newest and is about to be
\* pinned with the latch held.
Lookup(t) ==
  LET key == keys[rd[t].index]
      i == Entry(key)
  IN /\ AtStep(t, "lookup") /\ latch = {}
     /\ IF InCache(key)
        THEN /\ SetRd(t, [rd[t] EXCEPT !.pc = "pin", !.buf = lru[i].buf, !.cached = TRUE])
             /\ lru' = Append(RemoveAt(lru, i), lru[i]) /\ latch' = {t}
        ELSE SetRd(t, [rd[t] EXCEPT !.pc = "fetch", !.cached = FALSE]) /\ UNCHANGED <<lru, latch>>
     /\ UNCHANGED <<atRest, bufs, free, releasing, fetching, pre>>

\* Pin of a buffer found in the cache.  The cache may have evicted it since, for
\* eviction does not take the latch: the buffer is stale when it has been
\* recycled, so that it is neither in the cache nor waiting to be released.
PinCached(t) ==
  LET b == rd[t].buf
      here == InCache(keys[rd[t].index]) /\ lru[Entry(keys[rd[t].index])].buf = b
  IN /\ AtStep(t, "pin") /\ ~Pinned(b)
     /\ bufs' = [bufs EXCEPT ![b].pin = TRUE]
     /\ SetRd(t, [rd[t] EXCEPT !.pc = "copy", !.stale = @ \/ ~(here \/ releasing[b] > 0)])
     /\ latch' = {}
     /\ UNCHANGED <<atRest, lru, free, releasing, fetching, pre>>

Failed(t) == SetRd(t, [rd[t] EXCEPT !.pc = "error"])

\* seekAhead: the next leaf, unless there is none, it is cached or too far.
SeekAhead(index, initiator) ==
  /\ index + 1 <= Len(keys) /\ index + 1 - initiator <= prefetch
  /\ ~InCache(keys[index + 1])

Marked(f, I) == [i \in DOMAIN f \union I |-> IF i \in I THEN "busy" ELSE f[i]]

\* readLeaf: open the blob; then take a buffer, having started to prefetch the
\* next leaf (doPrefetch).  A leaf that is marked as being fetched may have been
\* brought to the cache meanwhile; an error left by a prefetcher is returned.
Fetch(t) ==
  LET i == rd[t].index
      key == keys[i]
      f == fetching[t]
      ahead == prefetch > 0 /\ i + 1 \notin DOMAIN f /\ SeekAhead(i, i)
      marked == Marked(f, IF ahead THEN {i + 1} ELSE {})
      launched == pre \union (IF ahead THEN {[t |-> t, index |-> i + 1, initiator |-> i,
                                              stage |-> "get", buf |-> NoBuffer]} ELSE {})
  IN /\ AtStep(t, "fetch")
     /\ \/ /\ key \notin DOMAIN blobs
           /\ Failed(t)
           /\ UNCHANGED <<latch, lru, bufs, free, releasing, fetching, pre>>
        \/ /\ key \in DOMAIN blobs /\ pre' = launched
           /\ IF i \in DOMAIN f /\ f[i] = "err"
              THEN /\ Failed(t) /\ fetching' = [fetching EXCEPT ![t] = marked]
                   /\ UNCHANGED <<latch, lru, bufs, free, releasing>>
              ELSE \/ /\ i \in DOMAIN f /\ InCache(key) /\ latch = {}
                      /\ fetching' = [fetching EXCEPT ![t] = Restrict(marked, DOMAIN marked \ {i})]
                      /\ SetRd(t, [rd[t] EXCEPT !.pc = "pin", !.cached = TRUE,
                                                !.buf = lru[Entry(key)].buf])
                      /\ lru' = Append(RemoveAt(lru, Entry(key)), lru[Entry(key)])
                      /\ latch' = {t}
                      /\ UNCHANGED <<bufs, free, releasing>>
                   \/ /\ ~(i \in DOMAIN f /\ InCache(key)) /\ (i \in DOMAIN f => latch = {})
                      /\ fetching' = [fetching EXCEPT ![t] =
                                        IF prefetch = 0 THEN @ ELSE Marked(marked, {i})]
                      /\ SetRd(t, [rd[t] EXCEPT !.pc = "new", !.buf = Recycled])
                      /\ GetBuffer
                      /\ UNCHANGED <<lru, latch>>
     /\ UNCHANGED atRest

\* A buffer from the free list is pinned too; it must be clean.
PinNew(t) ==
  LET b == rd[t].buf
  IN /\ AtStep(t, "new") /\ ~Pinned(b)
     /\ bufs' = [bufs EXCEPT ![b].pin = TRUE]
     /\ SetRd(t, [rd[t] EXCEPT !.pc = IF bufs[b].bytes = <<>> THEN "read" ELSE "panic"])
     /\ UNCHANGED <<atRest, latch, lru, free, releasing, fetching, pre>>

\* The leaf is read to its end and verified.  A failing read gives the buffer
\* back; a leaf that is not what its key says is an error, and its buffer is
\* neither unpinned nor released.
ReadLeaf(t) ==
  LET b == rd[t].buf
      bytes == Stored(keys[rd[t].index])
  IN /\ AtStep(t, "read")
     /\ \/ /\ bufs' = [bufs EXCEPT ![b].bytes = bytes]
           /\ IF VerifyHash(rd[t].index, bytes) THEN SetRd(t, [rd[t] EXCEPT !.pc = "copy"])
              ELSE Failed(t)
           /\ UNCHANGED <<releasing, faults>>
        \/ /\ faults < MaxFaults /\ faults' = faults + 1
           /\ bufs' = [bufs EXCEPT ![b].pin = FALSE]
           /\ releasing' = Releasing({b})
           /\ Failed(t)
     /\ UNCHANGED <<sVars, mode, prefetch, keys, serial, wt, latch, lru, free, fetching, pre>>

\* On to the next leaf, until the caller's buffer or the file is at its end.
NextLeaf(r) ==
  [r EXCEPT !.index = @ + 1, !.offset = 0, !.buf = NoBuffer,
            !.pc = IF Len(r.got) = r.len \/ r.index + 1 > Len(keys) THEN "done" ELSE "lookup"]

\* The bytes wanted are copied and the buffer unpinned.
CopyOut(t) ==
  LET r == rd[t]
      b == bufs[r.buf]
      end == Min({r.offset + r.len - Len(r.got), Len(b.bytes)})
      got == [r EXCEPT !.got = @ \o SubSeq(b.bytes, r.offset + 1, end)]
  IN /\ AtStep(t, "copy")
     /\ IF r.offset > Len(b.bytes)
        THEN SetRd(t, [r EXCEPT !.pc = "panic"]) /\ UNCHANGED bufs
        ELSE /\ bufs' = [bufs EXCEPT ![r.buf].pin = FALSE]
             /\ SetRd(t, IF r.cached THEN NextLeaf(got) ELSE [got EXCEPT !.pc = "add"])
     /\ UNCHANGED <<atRest, latch, lru, free, releasing, fetching, pre>>

\* A leaf that was read goes to the cache.
Stash(t) ==
  /\ AtStep(t, "add")
  /\ AddToCache(keys[rd[t].index], rd[t].buf)
  /\ SetRd(t, NextLeaf(rd[t]))
  /\ UNCHANGED <<atRest, latch, bufs, free, fetching, pre>>

-----------------------------------------------------------------------------
(* Prefetching: the goroutines of seekAhead. *)

Prefetched(f, g) == pre' = (pre \ {f}) \union {g}
\* watchPrefetched records an error under the zero index, the first leaf's.
PrefetchFails(f) ==
  /\ pre' = pre \ {f}
  /\ fetching' = [fetching EXCEPT ![f.t] = [i \in DOMAIN @ \union {1} |-> IF i = 1 THEN "err" ELSE @[i]]]

\* readLeaf for a prefetcher: the leaf is skipped when it is marked as being
\* fetched, which the reader that launched the goroutine did itself; only when
\* that reader found the leaf in the cache meanwhile is it read again.
Prefetch(f) ==
  LET key == keys[f.index]
  IN /\ mode = "readat" /\ f.stage = "get"
     /\ \/ /\ \/ key \notin DOMAIN blobs /\ UNCHANGED faults
              \/ faults < MaxFaults /\ faults' = faults + 1
           /\ PrefetchFails(f)
           /\ UNCHANGED <<bufs, free, releasing>>
        \/ /\ key \in DOMAIN blobs /\ UNCHANGED faults
           /\ IF f.index \in DOMAIN fetching[f.t]
              THEN pre' = pre \ {f} /\ UNCHANGED <<bufs, free, releasing, fetching>>
              ELSE /\ fetching' = [fetching EXCEPT ![f.t] = Marked(@, {f.index})]
                   /\ GetBuffer
                   /\ Prefetched(f, [f EXCEPT !.stage = "new", !.buf = Recycled])
     /\ UNCHANGED <<sVars, mode, prefetch, keys, serial, wt, rd, latch, lru>>

PrefetchPin(f) ==
  /\ mode = "readat" /\ f.stage = "new" /\ ~Pinned(f.buf)
  /\ bufs' = [bufs EXCEPT ![f.buf].pin = TRUE]
  /\ Prefetched(f, [f EXCEPT !.stage = "read"])
  /\ UNCHANGED <<atRest, rd, latch, lru, free, releasing, fetching>>

PrefetchRead(f) ==
  LET bytes == Stored(keys[f.index])
  IN /\ mode = "readat" /\ f.stage = "read"
     /\ \/ /\ VerifyHash(f.index, bytes)
           /\ bufs' = [bufs EXCEPT ![f.buf] = [bytes |-> bytes, pin |-> FALSE]]
           /\ fetching' = [fetching EXCEPT ![f.t] = Marked(@, {f.index})]
           /\ Prefetched(f, [f EXCEPT !.stage = "add"])
           /\ UNCHANGED releasing
        \/ /\ ~VerifyHash(f.index, bytes)
           /\ PrefetchFails(f) /\ UNCHANGED <<bufs, releasing>>
     /\ UNCHANGED <<atRest, rd, latch, lru, free>>

PrefetchAdd(f) ==
  /\ mode = "readat" /\ f.stage = "add"
  /\ AddToCache(keys[f.index], f.buf)
  /\ pre' = pre \ {f}
  /\ UNCHANGED <<atRest, rd, latch, bufs, free, fetching>>

\* destroy: prefetchers of a reader that is gone stop before or during the read.
Interrupt(f) ==
  /\ mode = "readat" /\ rd[f.t].pc \in {"done", "error"} /\ f.stage \in {"get", "read"}
  /\ pre' = pre \ {f}
  /\ UNCHANGED <<atRest, rd, latch, lru, bufs, free, releasing, fetching>>

-----------------------------------------------------------------------------
(* Read: the leaves one after the other, through buffers of the caller's size. *)

NewSerial == [pc |-> "call", idx |-> 1, open |-> FALSE, pos |-> 0, data |-> <<>>,
              last |-> FALSE, out |-> <<>>]

\* A call of Read: nothing is left after the last leaf.
ReadCall ==
  /\ mode = "read" /\ serial.pc = "call"
  /\ serial' = [serial EXCEPT !.pc = CASE serial.last /\ ~serial.open -> "eof"
                                       [] keys = <<>> -> "panic"
                                       [] OTHER -> "in"]
  /\ UNCHANGED <<wVars, mode, prefetch, keys, atVars, wt>>

\* Read returns what it has in the caller's buffer.
Returned(s, pc) == [s EXCEPT !.pc = pc, !.out = @ \o s.data, !.data = <<>>]

\* The end of a leaf: it is verified; after the last one a full buffer is
\* returned as such, a part of one as the end of the file.
EndOfLeaf(s, m, n) ==
  LET leaf == [s EXCEPT !.idx = @ + 1, !.open = FALSE, !.pos = 0, !.last = s.idx = Len(keys)]
  IN IF ~VerifyHash(s.idx, SubSeq(Content(keys[s.idx]), 1, s.pos))
     THEN [leaf EXCEPT !.pc = "error", !.data = <<>>]
     ELSE IF ~leaf.last THEN leaf
     ELSE Returned(leaf, IF m = n THEN "call" ELSE "eof")

\* One turn of the loop: the backend's reader gives m bytes, and may tell the end
\* of the blob with the last of them or at the next call.
ReadLoop(n) ==
  LET s == serial
      key == keys[s.idx]
      left == blobs[key] - s.pos
      room == n - Len(s.data)
  IN /\ mode = "read" /\ s.pc = "in"
     /\ \/ /\ key \notin DOMAIN blobs
           /\ serial' = [s EXCEPT !.pc = "error"] /\ UNCHANGED faults
        \/ /\ faults < MaxFaults /\ faults' = faults + 1
           /\ serial' = [s EXCEPT !.pc = "error"]
        \/ /\ key \in DOMAIN blobs /\ UNCHANGED faults
           /\ \E m \in 0..Min({left, room}), eof \in BOOLEAN :
                LET t == [s EXCEPT !.open = TRUE, !.pos = @ + m,
                            !.data = @ \o SubSeq(Content(key), s.pos + 1, s.pos + m)]
                IN /\ eof => m = left
                   /\ m = 0 => eof \/ room = 0
                   /\ serial' = IF eof THEN EndOfLeaf(t, m, n)
                                ELSE IF Len(t.data) >= n THEN Returned(t, "call") ELSE t
     /\ UNCHANGED <<sVars, mode, prefetch, keys, atVars, wt>>

-----------------------------------------------------------------------------
(* WriteTo: one goroutine per leaf, each writing at its own offset. *)

NewWriteTo == [pc |-> "run", next |-> 1, running |-> {}, errors |-> 0, file |-> <<>>]

WriteToStart ==
  /\ mode = "writeto" /\ wt.pc = "run" /\ wt.next <= Len(keys)
  /\ Cardinality(wt.running) < MaxWrites
  /\ wt' = [wt EXCEPT !.next = @ + 1, !.running = @ \union {wt.next}]
  /\ UNCHANGED <<wVars, mode, prefetch, keys, atVars, serial>>

\* WriteAt at index * leafSize.
WriteAt(file, i, bytes) ==
  LET at == (i - 1) * LeafSize
  IN [j \in DOMAIN file \union (at + 1 .. at + Len(bytes)) |->
        IF j > at /\ j <= at + Len(bytes) THEN bytes[j - at] ELSE file[j]]

\* The goroutine of a leaf copies the blob, whatever it holds, or reports.
WriteToLeaf(i) ==
  LET key == keys[i]
      ended == [wt EXCEPT !.running = @ \ {i}]
  IN /\ mode = "writeto" /\ i \in wt.running
     /\ \/ /\ key \in DOMAIN blobs /\ UNCHANGED faults
           /\ wt' = [ended EXCEPT !.file = WriteAt(@, i, Stored(key))]
        \/ /\ key \notin DOMAIN blobs /\ UNCHANGED faults
           /\ wt' = [ended EXCEPT !.errors = @ + 1]
        \/ /\ faults < MaxFaults /\ faults' = faults + 1
           /\ wt' = [ended EXCEPT !.errors = @ + 1]
     /\ UNCHANGED <<sVars, mode, prefetch, keys, atVars, serial>>

\* All have ended: one error is enough, for then the results never add up to
\* the number of keys.
WriteToReturn ==
  /\ mode = "writeto" /\ wt.pc = "run" /\ wt.next > Len(keys) /\ wt.running = {}
  /\ wt' = [wt EXCEPT !.pc = IF wt.errors = 0 THEN "ok" ELSE "error"]
  /\ UNCHANGED <<wVars, mode, prefetch, keys, atVars, serial>>

-----------------------------------------------------------------------------
ReaderInit(m) ==
  /\ mode = m /\ prefetch = 0 /\ keys = <<>>
  /\ rd = [t \in Readers |-> Idle] /\ latch = {} /\ lru = <<>> /\ bufs = <<>>
  /\ free = <<>> /\ releasing = <<>> /\ fetching = [t \in Readers |-> <<>>] /\ pre = {}
  /\ serial = NewSerial /\ wt = NewWriteTo

ReadAtStep(t) ==
  \/ Lookup(t) \/ PinCached(t) \/ Fetch(t) \/ PinNew(t)
  \/ ReadLeaf(t) \/ CopyOut(t) \/ Stash(t)
PrefetchStep(f) ==
  Prefetch(f) \/ PrefetchPin(f) \/ PrefetchRead(f) \/ PrefetchAdd(f) \/ Interrupt(f)
StreamStep ==
  \/ ReadCall \/ \E n \in ReadSizes : ReadLoop(n)
  \/ WriteToStart \/ (\E i \in 1..Len(keys) : WriteToLeaf(i)) \/ WriteToReturn

\* What a caller is given is what was uploaded.  ReadAt returns the bytes asked
\* for, up to the end of the file, or an error, also from a backend whose blobs
\* were cut short; unless the buffer it found in the cache was recycled before
\* it could be pinned.  It does not index past a leaf for an offset inside the
\* file.  Read delivers a prefix of the file, and all of it when it reports the
\* end.  WriteTo, which does not verify, writes the file when its blobs are
\* complete.
ReadRight ==
  LET src == Src[Root]
  IN /\ \A t \in Readers :
          /\ rd[t].pc = "done" /\ ~rd[t].stale =>
               rd[t].got = SubSeq(src, rd[t].off + 1, Min({rd[t].off + rd[t].len, Len(src)}))
          /\ rd[t].pc = "panic" => rd[t].stale \/ rd[t].off > Len(src)
     /\ IsPrefix(serial.out, src)
     /\ serial.pc = "eof" => serial.out = src
     /\ wt.pc = "ok" /\ (\A k \in Range(keys) : Whole(k)) => wt.file = src

\* A leaf buffer has one place: in the cache, on the free list, on its way
\* there, or with the one goroutine that fills it.
BuffersOwned ==
  \A b \in 1..Len(bufs) :
    releasing[b] + Cardinality({i \in 1..Len(lru) : lru[i].buf = b})
                 + Cardinality({i \in 1..Len(free) : free[i] = b})
                 + Cardinality({t \in Readers : rd[t].buf = b /\ ~rd[t].cached
                                                /\ rd[t].pc \in {"new", "read", "copy", "add"}})
                 + Cardinality({f \in pre : f.buf = b}) <= 1

\* A panic ends the process, and so whoever reads in it.
Reading == \/ /\ mode = "readat" /\ \A t \in Readers : rd[t].pc # "panic"
              /\ \E t \in Readers : rd[t].pc \notin {"idle", "done", "error"}
           \/ mode = "read" /\ serial.pc \notin {"eof", "error", "panic"}
           \/ mode = "writeto" /\ wt.pc = "run"

Busy == (mode = "put" /\ \E p \in Puts : ~Ended(p)) \/ Reading
\* Uploads and reads end, whatever fails: no pFlush keeps its slot, no reader
\* waits forever for a latch or for a pinned buffer.
CafsEnds == Busy ~> ~Busy
=============================================================================
