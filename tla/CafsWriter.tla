----------------------------- MODULE CafsWriter -----------------------------
(***************************************************************************)
(* Put of the content-addressable store (pkg/cafs/cafs.go, writer.go,      *)
(* check_blob.go, hasher.go) over one of its two backends: an object store *)
(* that replaces an object at once and checks its CRC32C (pkg/storage/gcs) *)
(* and a local directory that truncates the file and then writes it        *)
(* (pkg/storage/localfs).  Several uploads share the backend: their equal  *)
(* leaves are one blob.                                                    *)
(*                                                                         *)
(* A hash is the value it is computed from, so a leaf's key is             *)
(* <<"leaf", bytes, node offset, last node>> and a root's is               *)
(* <<"root", leaf keys>>.  A blob is a prefix of what its key stands for,  *)
(* and only the length of the prefix is kept: bytes of a leaf, keys of a   *)
(* root.                                                                   *)
(***************************************************************************)
EXTENDS Naturals, Sequences, FiniteSets, Functions

CONSTANTS
  Puts,         \* calls of Put
  Src,          \* Src[p]: the bytes p uploads
  LeafSize,     \* leafSize
  Pieces,       \* sizes io.Copy may hand to Write
  MaxFlushes,   \* concurrentFlushes
  MaxFaults     \* bound on failing store calls and crashes

ASSUME CafsAssumption ==
  /\ Src \in [Puts -> Seq(STRING)]
  /\ LeafSize \in Nat \ {0} /\ MaxFlushes \in Nat \ {0} /\ MaxFaults \in Nat
  /\ Pieces \subseteq 1..LeafSize

VARIABLES
  crc,         \* TRUE: the backend is a StoreCRC
  verify,      \* withVerifyBlobHash
  piece,       \* what io.Copy hands to Write at a time
  blobs,       \* key -> how much of the blob the backend holds
  put,         \* fsWriter of each Put, and where Put stands
  tasks,       \* writeBlob / writeRootKey calls in progress
  keysCache,   \* the roots keysCache resolves
  damaged,     \* blobs a local write left short or was cut off in
  faults       \* failures so far

wVars == <<crc, verify, piece, blobs, put, tasks, keysCache, damaged, faults>>

\* keyFromBytes and rootHash: a hash is as good as what it is computed from.
KeyFromBytes(data, n, isLastNode) == <<"leaf", data, n, isLastNode>>
RootHash(leaves) == <<"root", leaves>>

\* What the blob of a key should hold: the bytes of a leaf; for a root, its
\* leaf keys and the root itself (makeRootKey).
Content(key) == IF key[1] = "leaf" THEN key[2] ELSE Append(key[2], key)
Size(key) == Len(Content(key))
Whole(key) == key \in DOMAIN blobs /\ blobs[key] = Size(key)

\* Mutant: a blob that is there is taken as valid whatever it holds.
ExistsAndValidAny(key) == [found |-> key \in DOMAIN blobs, overwrite |-> FALSE]
\* Found, and found corrupted: empty, or of another checksum where the backend
\* has one.
ExistsAndValidBlob(key) ==
  LET found == key \in DOMAIN blobs
  IN [found |-> found,
      overwrite |-> /\ found
                    /\ blobs[key] = 0 \/ (crc /\ blobs[key] # Size(key))]

\* The size of the blob, and its checksum, are those of the data.
VerifyBlob(key) == Whole(key)

NewWriter == [pc |-> "copy", read |-> 0, written |-> 0, buf |-> <<>>, count |-> 0,
              flushes |-> <<>>, errors |-> 0, leaves |-> <<>>]

Task(p, kind, n, key) == [put |-> p, kind |-> kind, n |-> n, key |-> key, stage |-> "check"]
LeafTasks(p) == {t \in tasks : t.put = p /\ t.kind = "leaf"}

\* What io.Copy hands to Write: the next piece of the source.
PieceLen(p) == LET left == Len(Src[p]) - put[p].read IN IF piece < left THEN piece ELSE left

\* One turn of the loop of Write: fill the leaf buffer from the piece and, when
\* it is full, hand it to a pFlush goroutine, waiting for one of the
\* concurrentFlushes slots.  io.Copy goes on when the piece is consumed.
Write(p) ==
  LET w == put[p]
      len == PieceLen(p)
      writable == IF len < LeafSize - Len(w.buf) THEN len ELSE LeafSize - Len(w.buf)
      data == w.buf \o SubSeq(Src[p], w.read + w.written + 1, w.read + writable)
      full == Len(data) = LeafSize
      leaf == Task(p, "leaf", w.count + 1, KeyFromBytes(data, w.count + 1, FALSE))
      all == writable = len
  IN /\ w.pc = "copy" /\ w.written < len /\ w.written <= writable
     /\ full => Cardinality(LeafTasks(p)) < MaxFlushes
     /\ put' = [put EXCEPT ![p] =
          [w EXCEPT !.read = IF all THEN @ + len ELSE @,
                    !.written = IF all THEN 0 ELSE writable,
                    !.buf = IF full THEN <<>> ELSE data,
                    !.count = IF full THEN @ + 1 ELSE @]]
     /\ tasks' = IF full THEN tasks \union {leaf} ELSE tasks
     /\ UNCHANGED <<crc, verify, piece, blobs, keysCache, damaged, faults>>

\* Mutant: the leaves are listed in the order their goroutines ended.
LeavesAsFlushed(w) == [i \in 1..Len(w.flushes) |-> w.flushes[i].key]
\* w.leaves[bf.count-1] = bf.key for every flushed leaf.
FlushedLeaves(w) ==
  [i \in 1..Len(w.flushes) |->
     w.flushes[CHOOSE j \in 1..Len(w.flushes) : w.flushes[j].n = i].key]

\* The root blob is looked up and written once the leaves are.
RootTask(p, leaves) == Task(p, "root", 0, RootHash(leaves))

\* Flush: every slot taken means that no pFlush runs and flushThread has seen
\* all they had to say.  A leaf that failed fails the Put; what is left in the
\* buffer is the last leaf, written here.
Flush(p) ==
  LET w == put[p]
      leaves == FlushedLeaves(w)
      tail == Task(p, "tail", Len(leaves), KeyFromBytes(w.buf, Len(leaves), TRUE))
  IN /\ w.pc = "copy" /\ w.read = Len(Src[p]) /\ LeafTasks(p) = {}
     /\ IF w.errors > 0
        THEN put' = [put EXCEPT ![p].pc = "error"] /\ UNCHANGED tasks
        ELSE /\ put' = [put EXCEPT ![p].pc = "wait", ![p].leaves = leaves]
             /\ tasks' = tasks \union {IF w.buf = <<>> THEN RootTask(p, leaves) ELSE tail}
     /\ UNCHANGED <<crc, verify, piece, blobs, keysCache, damaged, faults>>

\* flushThread collects what the pFlush goroutines send.
FlushThread(w, t, ok) ==
  IF ok THEN [w EXCEPT !.flushes = Append(@, [n |-> t.n, key |-> t.key])]
  ELSE [w EXCEPT !.errors = @ + 1]

\* Mutant: a leaf that fails keeps its slot.
EndLeafKeepsSlot(t, ok) ==
  /\ tasks' = IF ok THEN tasks \ {t} ELSE (tasks \ {t}) \union {[t EXCEPT !.stage = "ended"]}
  /\ put' = [put EXCEPT ![t.put] = FlushThread(@, t, ok)]
  /\ UNCHANGED keysCache
\* pFlush reports the leaf or its error to flushThread and frees its slot.
EndLeaf(t, ok) ==
  /\ tasks' = tasks \ {t}
  /\ put' = [put EXCEPT ![t.put] = FlushThread(@, t, ok)]
  /\ UNCHANGED keysCache

\* The last leaf joins the others and the root is next.
EndTail(t, ok) ==
  LET leaves == Append(put[t.put].leaves, t.key)
  IN /\ tasks' = (tasks \ {t}) \union (IF ok THEN {RootTask(t.put, leaves)} ELSE {})
     /\ put' = [put EXCEPT ![t.put] = IF ok THEN [@ EXCEPT !.leaves = leaves]
                                      ELSE [@ EXCEPT !.pc = "error"]]
     /\ UNCHANGED keysCache

\* With its root in place Put remembers the leaf keys and returns.
EndRoot(t, ok) ==
  /\ tasks' = tasks \ {t}
  /\ put' = [put EXCEPT ![t.put].pc = IF ok THEN "ok" ELSE "error"]
  /\ keysCache' = IF ok THEN keysCache \union {t.key} ELSE keysCache

End(t, ok) == CASE t.kind = "leaf" -> EndLeaf(t, ok)
                [] t.kind = "tail" -> EndTail(t, ok)
                [] t.kind = "root" -> EndRoot(t, ok)

Stage(t, stage) ==
  /\ tasks' = (tasks \ {t}) \union {[t EXCEPT !.stage = stage]}
  /\ UNCHANGED <<put, keysCache>>

\* writeBlob, and Put for its root, first look for the blob.
CheckBlob(t) ==
  LET r == ExistsAndValidBlob(t.key)
  IN /\ t.stage = "check"
     /\ IF r.found /\ ~r.overwrite THEN End(t, TRUE) ELSE Stage(t, "put")
     /\ UNCHANGED <<crc, verify, piece, blobs, damaged, faults>>

SetBlob(key, n) == blobs' = [k \in DOMAIN blobs \union {key} |-> IF k = key THEN n ELSE blobs[k]]

\* A write is verified when it is the root's, or a leaf's in paranoid mode.
Written(t) == IF t.kind = "root" \/ verify THEN Stage(t, "verify") ELSE End(t, TRUE)

\* gcs putObject with a CRC: the new object replaces the old one whole, or the
\* call fails and leaves it alone; a retry of the consumed reader fails the CRC.
PutCRC(t) ==
  /\ crc /\ t.stage = "put"
  /\ \/ SetBlob(t.key, Size(t.key)) /\ Written(t) /\ UNCHANGED faults
     \/ faults < MaxFaults /\ faults' = faults + 1 /\ End(t, FALSE) /\ UNCHANGED blobs
  /\ UNCHANGED <<crc, verify, piece, damaged>>

\* localfs Put opens the file and truncates it.
OpenFile(t) ==
  /\ ~crc /\ t.stage = "put"
  /\ \/ SetBlob(t.key, 0) /\ Stage(t, "open") /\ UNCHANGED faults
     \/ faults < MaxFaults /\ faults' = faults + 1 /\ End(t, FALSE) /\ UNCHANGED blobs
  /\ UNCHANGED <<crc, verify, piece, damaged>>

\* localfs Put writes and closes it.  The error of a short write is replaced by
\* the result of Close, so the Put succeeds; only a failing Close fails it.
WriteFile(t) ==
  /\ ~crc /\ t.stage = "open"
  /\ \/ /\ SetBlob(t.key, Size(t.key)) /\ Written(t)
        /\ UNCHANGED <<damaged, faults>>
     \/ /\ faults < MaxFaults /\ faults' = faults + 1
        /\ \E n \in 0..Size(t.key) - 1 : SetBlob(t.key, n)
        /\ damaged' = damaged \union {t.key}
        /\ Written(t) \/ End(t, FALSE)
  /\ UNCHANGED <<crc, verify, piece>>

\* verifyBlob reads the attributes back.
Verify(t) ==
  /\ t.stage = "verify"
  /\ End(t, VerifyBlob(t.key))
  /\ UNCHANGED <<crc, verify, piece, blobs, damaged, faults>>

Ended(p) == put[p].pc \in {"ok", "error", "crashed", "gone"}

\* The uploading process dies; a file it had open stays as it is.
Crash(p) ==
  /\ ~Ended(p) /\ faults < MaxFaults
  /\ faults' = faults + 1
  /\ put' = [put EXCEPT ![p].pc = "crashed"]
  /\ tasks' = {t \in tasks : t.put # p}
  /\ damaged' = damaged \union {t.key : t \in {u \in tasks : u.put = p /\ u.stage = "open"}}
  /\ UNCHANGED <<crc, verify, piece, blobs, keysCache>>

-----------------------------------------------------------------------------
(* What Put promises, as functions of the bytes alone. *)

FullLeaves(data) == Len(data) \div LeafSize
\* The keys of a content: full leaves count from 1 and are never the last node,
\* a shorter one at the end counts from 0 and is.
LeafKeysOf(data) ==
  [i \in 1..FullLeaves(data) |->
     KeyFromBytes(SubSeq(data, (i - 1) * LeafSize + 1, i * LeafSize), i, FALSE)]
  \o IF Len(data) % LeafSize = 0 THEN <<>>
     ELSE <<KeyFromBytes(SubSeq(data, FullLeaves(data) * LeafSize + 1, Len(data)),
                         FullLeaves(data), TRUE)>>
KeysOf(data) == Range(LeafKeysOf(data)) \union {RootHash(LeafKeysOf(data))}

\* What an earlier upload may have left: nothing, or one leaf cut short.
Leftovers ==
  {<<>>} \union
  UNION {{[k \in {key} |-> n] : n \in 0..Size(key) - 1} :
           key \in {LeafKeysOf(Src[p])[1] : p \in {q \in Puts : Src[q] # <<>>}}}

WriterInit ==
  /\ crc \in BOOLEAN /\ verify \in BOOLEAN /\ piece \in Pieces
  /\ blobs \in Leftovers
  /\ put = [p \in Puts |-> NewWriter]
  /\ tasks = {} /\ keysCache = {} /\ faults = 0
  /\ damaged = DOMAIN blobs

PutStep(p) == Write(p) \/ Flush(p)
BlobStep(t) == CheckBlob(t) \/ PutCRC(t) \/ OpenFile(t) \/ WriteFile(t) \/ Verify(t)

\* What a running upload does next, and its end when the process dies.
Upload == (\E p \in Puts : PutStep(p)) \/ (\E t \in tasks : BlobStep(t))
WriterNext == Upload \/ \E p \in Puts : Crash(p)
WriterSpec == WriterInit /\ [][WriterNext]_wVars

\* The result of a Put names its content: whatever the order in which the
\* concurrent pFlush goroutines ended and however io.Copy cut the stream, the
\* leaves are those of the source, in order, under the key they were stored as.
PutKeys ==
  \A p \in Puts : put[p].pc = "ok" => put[p].leaves = LeafKeysOf(Src[p])

\* A Put that returned without an error has every blob of its file in the
\* backend, complete, and no other upload takes that back.  With checksums
\* (gcs) that is so whatever failed or crashed, also over what an earlier
\* upload left.  On a local directory a blob may be short where a write of it
\* was cut off, and while another Put, which looked before, rewrites it.
PutDurable ==
  \A p \in Puts : put[p].pc = "ok" =>
    \A key \in KeysOf(Src[p]) :
      \/ Whole(key)
      \/ ~crc /\ (key \in damaged \/ \E t \in tasks : t.key = key /\ t.stage = "open")
=============================================================================
