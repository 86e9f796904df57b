----------------------------- MODULE CafsProofs -----------------------------
(***************************************************************************)
(* Put of the content-addressable store, for any sources, leaf size, way   *)
(* io.Copy cuts the stream, number of concurrent flushes and of failures:  *)
(* a Put that returns names its content, and its blobs are in the backend. *)
(***************************************************************************)
EXTENDS CafsWriter, SequenceTheorems, FiniteSetTheorems, TLAPS

LeafKeys == {KeyFromBytes(d, n, b) : d \in Seq(STRING), n \in Nat, b \in BOOLEAN}
RootKeys == {RootHash(s) : s \in Seq(LeafKeys)}

WriterRecord ==
  [pc : {"copy", "wait", "ok", "error", "crashed"}, read : Nat, written : Nat,
   buf : Seq(STRING), count : Nat, flushes : Seq([n : Nat, key : LeafKeys]),
   errors : Nat, leaves : Seq(LeafKeys)]
TaskRecord ==
  [put : Puts, kind : {"leaf", "tail", "root"}, n : Nat, key : LeafKeys \union RootKeys,
   stage : {"check", "put", "open", "verify"}]

\* The values of the variables; a goroutine that writes a leaf has a leaf's key.
WriterTypes ==
  /\ crc \in BOOLEAN /\ verify \in BOOLEAN /\ piece \in Pieces
  /\ put \in [Puts -> WriterRecord]
  /\ tasks \in SUBSET TaskRecord
  /\ \A t \in tasks : t.kind # "root" => t.key \in LeafKeys

TasksOf(p) == {t \in tasks : t.put = p}
LeafKey(p, i) ==
  KeyFromBytes(SubSeq(Src[p], (i - 1) * LeafSize + 1, i * LeafSize), i, FALSE)
TailKey(p) ==
  KeyFromBytes(SubSeq(Src[p], FullLeaves(Src[p]) * LeafSize + 1, Len(Src[p])),
               FullLeaves(Src[p]), TRUE)
FullKeys(p) == [i \in 1..FullLeaves(Src[p]) |-> LeafKey(p, i)]

\* Reports F of the c leaves with the keys f: each leaf once, in any order.
Numbered(F, c, f) ==
  /\ \A i \in 1..Len(F) : F[i].n \in 1..c /\ F[i].key = f[F[i].n]
  /\ \A i, j \in 1..Len(F) : F[i].n = F[j].n => i = j
  /\ \A n \in 1..c : \E i \in 1..Len(F) : F[i].n = n

\* The buffer holds the source from the last full leaf to where io.Copy is; a
\* piece is consumed in part only when its first part has filled a leaf.
CopyInv(p) ==
  LET w == put[p]
      at == w.read + w.written
  IN /\ at <= Len(Src[p])
     /\ w.count * LeafSize <= at /\ at < w.count * LeafSize + LeafSize
     /\ w.buf = SubSeq(Src[p], w.count * LeafSize + 1, at)
     /\ w.written = 0 \/ (w.buf = <<>> /\ w.written < PieceLen(p))

\* Each full leaf handed over is with one goroutine, has been reported once, or
\* has failed, and is under its own key.
LeafInv(p) ==
  LET F == put[p].flushes
      c == put[p].count
  IN /\ \A t \in TasksOf(p) : t.kind = "leaf" /\ t.n \in 1..c /\ t.key = LeafKey(p, t.n)
     /\ \A t, u \in TasksOf(p) : t.n = u.n => t = u
     /\ \A i \in 1..Len(F) : F[i].n \in 1..c /\ F[i].key = LeafKey(p, F[i].n)
     /\ \A i, j \in 1..Len(F) : F[i].n = F[j].n => i = j
     /\ \A i \in 1..Len(F), t \in TasksOf(p) : F[i].n # t.n
     /\ put[p].errors = 0 => \A n \in 1..c : \/ \E t \in TasksOf(p) : t.n = n
                                             \/ \E i \in 1..Len(F) : F[i].n = n

\* After the full leaves one goroutine at a time: the last leaf's, the root's.
TailInv(p) ==
  /\ \A t \in TasksOf(p) :
       \/ /\ t.kind = "tail" /\ put[p].leaves = FullKeys(p)
          /\ Len(Src[p]) % LeafSize # 0 /\ t.key = TailKey(p)
       \/ /\ t.kind = "root" /\ put[p].leaves = LeafKeysOf(Src[p])
          /\ t.key = RootHash(put[p].leaves)
  /\ \A t, u \in TasksOf(p) : t = u

OnePut(p) ==
  /\ put[p].pc = "copy" => CopyInv(p) /\ LeafInv(p)
  /\ put[p].pc = "wait" => TailInv(p)
  /\ put[p].pc \notin {"copy", "wait"} => TasksOf(p) = {}
  /\ put[p].pc = "ok" => put[p].leaves = LeafKeysOf(Src[p])

\* What a Put relies on: the blob is there, and whole where there are checksums.
Kept == {key \in DOMAIN blobs : crc => blobs[key] = Size(key)}
KeptInv(p) ==
  LET w == put[p]
  IN /\ w.pc = "copy" => \A i \in 1..Len(w.flushes) : w.flushes[i].key \in Kept
     /\ w.pc \in {"wait", "ok"} => \A i \in 1..Len(w.leaves) : w.leaves[i] \in Kept
     /\ w.pc = "ok" => RootHash(w.leaves) \in Kept

\* On a local directory a blob that is not whole is being written, or damaged.
BlobInv ==
  ~crc => \A key \in DOMAIN blobs :
            \/ Whole(key) \/ key \in damaged
            \/ \E t \in tasks : t.key = key /\ t.stage = "open"

WriterInv ==
  /\ WriterTypes
  /\ \A p \in Puts : OnePut(p) /\ KeptInv(p)
  /\ BlobInv

-----------------------------------------------------------------------------
(* Types. *)

\* The bytes of a Put and the leaf size are what their types say.
LEMMA Sources ==
  ASSUME NEW p \in Puts
  PROVE  /\ Src[p] \in Seq(STRING) /\ Len(Src[p]) \in Nat
         /\ LeafSize \in Nat /\ LeafSize > 0
         /\ \A n \in Pieces : n \in Nat /\ n > 0 /\ n <= LeafSize
BY CafsAssumption, LenProperties

\* A Put's record is replaced, the others are left alone.
LEMMA PutReplaced ==
  ASSUME put \in [Puts -> WriterRecord], NEW p \in Puts, NEW r \in WriterRecord,
         put' = [put EXCEPT ![p] = r]
  PROVE  /\ put' \in [Puts -> WriterRecord] /\ put'[p] = r
         /\ \A q \in Puts : q # p => put'[q] = put[q]
OBVIOUS

\* A part of the source is bytes, of the length its ends tell.
LEMMA SourcePart ==
  ASSUME NEW p \in Puts, NEW a \in Nat, NEW b \in Nat, a <= b, b <= Len(Src[p])
  PROVE  /\ SubSeq(Src[p], a + 1, b) \in Seq(STRING)
         /\ Len(SubSeq(Src[p], a + 1, b)) = b - a
<1>1. \A i \in a + 1 .. b : Src[p][i] \in STRING
  BY Sources, ElementOfSeq
<1> QED BY <1>1, SubSeqProperties

\* What Write puts after the buffer prolongs it.
LEMMA Prolonged ==
  ASSUME NEW p \in Puts, NEW a \in Nat, NEW b \in Nat, NEW c \in Nat,
         a <= b, b <= c, c <= Len(Src[p])
  PROVE  SubSeq(Src[p], a + 1, b) \o SubSeq(Src[p], b + 1, c) = SubSeq(Src[p], a + 1, c)
<1>1. Len(Src[p]) \in Nat /\ Src[p] \in Seq(STRING)
  BY Sources
<1>2. a + 1 \in 1 .. Len(Src[p]) + 1 /\ b \in (a + 1) - 1 .. Len(Src[p]) /\ c \in b .. Len(Src[p])
  BY <1>1
<1> QED BY <1>1, <1>2, ConcatAdjacentSubSeq

\* Division leaves less than the divisor.
LEMMA Quotient ==
  ASSUME NEW n \in Nat, NEW L \in Nat, L > 0
  PROVE  /\ n \div L \in Nat /\ (n \div L) * L \in Nat
         /\ (n \div L) * L <= n /\ n < (n \div L) * L + L
<1> DEFINE q == n \div L
           r == n % L
<1>1. n = L * q + r /\ q \in Nat /\ r \in 0..L - 1
  OBVIOUS
<1> HIDE DEF q, r
<1>2. q * L \in Nat /\ q * L <= n /\ n < q * L + L
  BY <1>1
<1> QED BY <1>1, <1>2 DEF q

\* The quotient is the multiple that is less than a divisor away.
LEMMA DivSmall ==
  ASSUME NEW n \in Nat, NEW c \in Nat, NEW L \in Nat, L > 0,
         c * L <= n, n < c * L + L
  PROVE  n \div L = c /\ (n % L = 0 <=> n = c * L)
<1> DEFINE q == n \div L
           r == n % L
<1>1. n = L * q + r /\ q \in Nat /\ r \in 0..L - 1
  OBVIOUS
<1> HIDE DEF q, r
<1>2. q = c
  BY <1>1
<1>3. r = 0 <=> n = c * L
  BY <1>1, <1>2
<1> QED BY <1>2, <1>3 DEF q, r



\* Reports of c leaves, each under its number and each once, are listed in the
\* order of the numbers, whatever the order they came in.
LEMMA Flushed ==
  ASSUME NEW w, w.flushes \in Seq([n : Nat, key : LeafKeys]), NEW c \in Nat, NEW f,
         Numbered(w.flushes, c, f)
  PROVE  /\ FlushedLeaves(w) \in [1..c -> LeafKeys]
         /\ \A i \in 1..c : FlushedLeaves(w)[i] = f[i]
<1> DEFINE F == w.flushes
           m == Len(F)
           g == [i \in 1..m |-> F[i].n]
<1>1. m \in Nat /\ \A i \in 1..m : F[i] \in [n : Nat, key : LeafKeys]
  BY ZenonT(60), ElementOfSeq, LenProperties
<1>2. /\ \A i \in 1..m : F[i].n \in 1..c /\ F[i].key = f[F[i].n]
      /\ \A i, j \in 1..m : F[i].n = F[j].n => i = j
      /\ \A n \in 1..c : \E i \in 1..m : F[i].n = n
  BY DEF Numbered
<1>3. m = c
  <2>1. /\ g \in [1..m -> 1..c]
        /\ \A i, j \in 1..m : g[i] = g[j] => i = j
        /\ \A n \in 1..c : \E i \in 1..m : g[i] = n
    BY <1>2
  <2> HIDE DEF g, m
  <2>2. g \in Bijection(1..m, 1..c)
    BY <2>1 DEF Bijection, Injection, Surjection, IsInjective
  <2>3. IsFiniteSet(1..m) /\ Cardinality(1..m) = m /\ Cardinality(1..c) = c
    BY <1>1, FS_Interval
  <2>4. ExistsBijection(1..m, 1..c)
    BY <2>2 DEF ExistsBijection
  <2> QED BY <2>3, <2>4, FS_Bijection
<1> DEFINE at(i) == CHOOSE j \in 1..m : F[j].n = i
<1>4. FlushedLeaves(w) = [i \in 1..m |-> F[at(i)].key]
  BY DEF FlushedLeaves
<1> HIDE DEF F, m
<1>5. ASSUME NEW i \in 1..c
      PROVE  F[at(i)].key = f[i] /\ F[at(i)].key \in LeafKeys
  <2>1. \E j \in 1..m : F[j].n = i
    BY <1>2
  <2>2. at(i) \in 1..m /\ F[at(i)].n = i
    BY <2>1
  <2> HIDE DEF at
  <2> QED BY <1>1, <1>2, <2>2
<1> HIDE DEF at
<1> QED BY <1>3, <1>4, <1>5

\* The full leaves and what is left of a content.
LEMMA Division ==
  ASSUME NEW p \in Puts
  PROVE  /\ FullLeaves(Src[p]) \in Nat
         /\ FullLeaves(Src[p]) * LeafSize \in Nat
         /\ FullLeaves(Src[p]) * LeafSize <= Len(Src[p])
         /\ Len(Src[p]) < FullLeaves(Src[p]) * LeafSize + LeafSize
BY Sources, Quotient DEF FullLeaves

\* keyFromBytes of bytes is a leaf's key.
LEMMA KeyTypes ==
  ASSUME NEW d \in Seq(STRING), NEW n \in Nat, NEW b \in BOOLEAN
  PROVE  KeyFromBytes(d, n, b) \in LeafKeys
BY DEF LeafKeys

\* The keys of the parts of a content are leaves' keys.
LEMMA LeafKeyTypes ==
  ASSUME NEW p \in Puts
  PROVE  /\ \A i \in 1..FullLeaves(Src[p]) : LeafKey(p, i) \in LeafKeys
         /\ FullKeys(p) \in Seq(LeafKeys) /\ Len(FullKeys(p)) = FullLeaves(Src[p])
         /\ TailKey(p) \in LeafKeys
<1> DEFINE L == FullLeaves(Src[p])
<1>1. L \in Nat /\ L * LeafSize \in Nat /\ L * LeafSize <= Len(Src[p]) /\ Len(Src[p]) \in Nat
      /\ LeafSize \in Nat
  BY Division, Sources
<1> HIDE DEF L
<1>2. ASSUME NEW i \in 1..L PROVE LeafKey(p, i) \in LeafKeys
  <2>1. /\ (i - 1) * LeafSize \in Nat /\ i * LeafSize \in Nat
        /\ (i - 1) * LeafSize <= i * LeafSize /\ i * LeafSize <= L * LeafSize
    BY <1>1
  <2>2. SubSeq(Src[p], (i - 1) * LeafSize + 1, i * LeafSize) \in Seq(STRING)
    <3> DEFINE a == (i - 1) * LeafSize
               b == i * LeafSize
    <3>1. a \in Nat /\ b \in Nat /\ a <= b /\ b <= Len(Src[p])
      BY <1>1, <2>1
    <3> HIDE DEF a, b
    <3>2. SubSeq(Src[p], a + 1, b) \in Seq(STRING)
      BY ZenonT(60), <3>1, SourcePart
    <3> QED BY <3>2 DEF a, b
  <2>3. i \in Nat
    BY <1>1
  <2> QED BY ZenonT(60), <2>2, <2>3, KeyTypes DEF LeafKey
<1>3. TailKey(p) \in LeafKeys
  <2>1. SubSeq(Src[p], L * LeafSize + 1, Len(Src[p])) \in Seq(STRING)
    BY <1>1, SourcePart
  <2> QED BY ZenonT(60), <1>1, <2>1, KeyTypes DEF TailKey, L
<1>4. FullKeys(p) = [i \in 1..L |-> LeafKey(p, i)]
  BY DEF FullKeys, L
<1>5. FullKeys(p) \in Seq(LeafKeys) /\ Len(FullKeys(p)) = L
  BY <1>1, <1>2, <1>4
<1> QED BY <1>2, <1>3, <1>5 DEF L

\* The keys of a content: its full leaves, and the rest when there is one.
LEMMA KeysOfContent ==
  ASSUME NEW p \in Puts
  PROVE  LeafKeysOf(Src[p]) =
           IF Len(Src[p]) % LeafSize = 0 THEN FullKeys(p) ELSE Append(FullKeys(p), TailKey(p))
<1>1. LeafKeysOf(Src[p]) =
        FullKeys(p) \o (IF Len(Src[p]) % LeafSize = 0 THEN <<>> ELSE <<TailKey(p)>>)
  BY DEF LeafKeysOf, FullKeys, TailKey, LeafKey
<1>2. FullKeys(p) \o <<>> = FullKeys(p)
  BY LeafKeyTypes, ConcatEmptySeq
<1>3. FullKeys(p) \o <<TailKey(p)>> = Append(FullKeys(p), TailKey(p))
  BY LeafKeyTypes, AppendIsConcat
<1> QED BY ZenonT(60), <1>1, <1>2, <1>3

-----------------------------------------------------------------------------
(* One Put. *)

\* What is said of a Put is a matter of its record and its goroutines.
LEMMA PutKept ==
  ASSUME NEW p \in Puts, OnePut(p), put'[p] = put[p], TasksOf(p)' = TasksOf(p),
         piece' = piece
  PROVE  OnePut(p)'
<1>1. CopyInv(p) => CopyInv(p)'
  BY DEF CopyInv, PieceLen
<1>2. LeafInv(p) => LeafInv(p)'
  BY DEF LeafInv
<1>3. TailInv(p) => TailInv(p)'
  BY DEF TailInv
<1> QED BY <1>1, <1>2, <1>3 DEF OnePut

\* The goroutine of a Put goes on to its next call.
LEMMA StagePut ==
  ASSUME WriterTypes, NEW t \in tasks, NEW s \in {"check", "put", "open", "verify"}, Stage(t, s),
         piece' = piece, \A p \in Puts : OnePut(p)
  PROVE  /\ \A p \in Puts : OnePut(p)'
         /\ tasks' \in SUBSET TaskRecord
         /\ \A u \in tasks' : u.kind # "root" => u.key \in LeafKeys
<1> DEFINE v == [t EXCEPT !.stage = s]
<1>1. /\ v \in TaskRecord /\ v.put = t.put /\ v.kind = t.kind /\ v.n = t.n /\ v.key = t.key
      /\ t \in TaskRecord /\ t.put \in Puts /\ t.n \in Nat
  BY DEF WriterTypes, TaskRecord
<1>2. tasks' = (tasks \ {t}) \union {v} /\ put' = put
  BY DEF Stage
<1> HIDE DEF v
<1>3. ASSUME NEW p \in Puts, p # t.put PROVE OnePut(p)'
  <2>1. TasksOf(p)' = TasksOf(p)
    BY <1>1, <1>2, <1>3 DEF TasksOf
  <2> QED BY <1>2, <2>1, PutKept
<1>4. ASSUME NEW p \in Puts, p = t.put PROVE OnePut(p)'
  <2>1. TasksOf(p)' = (TasksOf(p) \ {t}) \union {v} /\ t \in TasksOf(p)
    BY <1>1, <1>2, <1>4 DEF TasksOf
  <2>2. OnePut(p)
    OBVIOUS
  <2>3. CASE put[p].pc = "copy"
    <3>1. CopyInv(p)'
      BY <1>2, <2>2, <2>3 DEF OnePut, CopyInv, PieceLen
    <3>2. LeafInv(p)
      BY <2>2, <2>3 DEF OnePut
    <3>3. LeafInv(p)'
      BY <1>1, <1>2, <2>1, <3>2 DEF LeafInv
    <3> QED BY <1>2, <2>3, <3>1, <3>3 DEF OnePut
  <2>4. CASE put[p].pc = "wait"
    <3>1. TailInv(p)
      BY <2>2, <2>4 DEF OnePut
    <3>2. TailInv(p)'
      BY <1>1, <1>2, <2>1, <3>1 DEF TailInv
    <3> QED BY <1>2, <2>4, <3>2 DEF OnePut
  <2>5. CASE put[p].pc \notin {"copy", "wait"}
    BY <2>1, <2>2, <2>5 DEF OnePut
  <2> QED BY <2>3, <2>4, <2>5
<1>5. tasks' \in SUBSET TaskRecord /\ \A u \in tasks' : u.kind # "root" => u.key \in LeafKeys
  BY <1>1, <1>2 DEF WriterTypes
<1> QED BY <1>3, <1>4, <1>5

-----------------------------------------------------------------------------
(* The steps of a Put. *)

\* The key of the leaf after c full ones.
LEMMA NextLeafKey ==
  ASSUME NEW p \in Puts, NEW c \in Nat, NEW a \in Nat, a = c * LeafSize
  PROVE  LeafKey(p, c + 1) = KeyFromBytes(SubSeq(Src[p], a + 1, a + LeafSize), c + 1, FALSE)
<1>1. LeafSize \in Nat
  BY CafsAssumption
<1>2. (c + 1 - 1) * LeafSize = a /\ (c + 1) * LeafSize = a + LeafSize
  BY <1>1
<1> DEFINE n == c + 1
<1>3. LeafKey(p, n) = KeyFromBytes(SubSeq(Src[p], (n - 1) * LeafSize + 1, n * LeafSize), n, FALSE)
  BY DEF LeafKey
<1>4. (n - 1) * LeafSize = a /\ n * LeafSize = a + LeafSize
  BY <1>2
<1> HIDE DEF n
<1>5. LeafKey(p, n) = KeyFromBytes(SubSeq(Src[p], a + 1, a + LeafSize), n, FALSE)
  BY ZenonT(60), <1>3, <1>4
<1> QED BY ZenonT(60), <1>5 DEF n

\* One turn of the loop of Write: the bytes go to the buffer in order, and what
\* fills it is the next leaf of the source.
LEMMA WritePut ==
  ASSUME WriterTypes, NEW p \in Puts, Write(p), \A q \in Puts : OnePut(q)
  PROVE  /\ put' \in [Puts -> WriterRecord] /\ put'[p].pc = "copy"
         /\ put'[p].flushes = put[p].flushes
         /\ \A q \in Puts : OnePut(q)'
         /\ \A q \in Puts : q # p => put'[q] = put[q]
         /\ tasks \subseteq tasks'
         /\ tasks' \in SUBSET TaskRecord
         /\ \A t \in tasks' : t.kind # "root" => t.key \in LeafKeys
<1> DEFINE w == put[p]
           len == PieceLen(p)
           writable == IF len < LeafSize - Len(w.buf) THEN len ELSE LeafSize - Len(w.buf)
           data == w.buf \o SubSeq(Src[p], w.read + w.written + 1, w.read + writable)
           full == Len(data) = LeafSize
           leaf == Task(p, "leaf", w.count + 1, KeyFromBytes(data, w.count + 1, FALSE))
           all == writable = len
           r == [w EXCEPT !.read = IF all THEN w.read + len ELSE w.read,
                          !.written = IF all THEN 0 ELSE writable,
                          !.buf = IF full THEN <<>> ELSE data,
                          !.count = IF full THEN w.count + 1 ELSE w.count]
           a == w.count * LeafSize
           e == w.read + writable
<1>1. /\ w.pc = "copy" /\ w.written < len /\ w.written <= writable
      /\ put' = [put EXCEPT ![p] = r]
      /\ tasks' = IF full THEN tasks \union {leaf} ELSE tasks
      /\ piece' = piece
  BY DEF Write
<1>0. w \in WriterRecord /\ w.buf \in Seq(STRING) /\ Len(w.buf) \in Nat
  BY ZenonT(60), LenProperties DEF WriterTypes, WriterRecord
<1>2. /\ w.read \in Nat /\ w.written \in Nat /\ w.count \in Nat
      /\ piece \in Nat /\ piece > 0 /\ piece <= LeafSize
      /\ LeafSize \in Nat /\ LeafSize > 0 /\ Len(Src[p]) \in Nat
  BY <1>0, Sources DEF WriterTypes, WriterRecord
<1>3. CopyInv(p) /\ LeafInv(p)
  BY <1>1 DEF OnePut
<1>4. a \in Nat
  BY <1>2
<1>5. /\ w.read + w.written <= Len(Src[p]) /\ a <= w.read + w.written
      /\ w.read + w.written < a + LeafSize
  BY <1>3 DEF CopyInv
<1>6. w.buf = SubSeq(Src[p], a + 1, w.read + w.written)
  BY <1>3 DEF CopyInv
<1>7. w.written = 0 \/ w.buf = <<>>
  BY <1>3 DEF CopyInv
<1>8. /\ len = (IF piece < Len(Src[p]) - w.read THEN piece ELSE Len(Src[p]) - w.read)
      /\ writable = (IF len < LeafSize - Len(w.buf) THEN len ELSE LeafSize - Len(w.buf))
      /\ e = w.read + writable
  BY DEF PieceLen
<1>9. /\ (w.count + 1) * LeafSize = a + LeafSize
      /\ (w.count + 1 - 1) * LeafSize = a
      /\ a = w.count * LeafSize
  BY <1>2
<1>10. data = w.buf \o SubSeq(Src[p], w.read + w.written + 1, e)
  OBVIOUS
<1> HIDE DEF w, len, a, writable, e, data
<1>11. /\ len \in Nat /\ writable \in Nat /\ writable <= len
       /\ w.read + w.written <= e /\ e <= Len(Src[p]) /\ e \in Nat
       /\ a <= e /\ e - a <= LeafSize
       /\ ~all => writable < len /\ e - a = LeafSize
  <2> DEFINE held == Len(w.buf)
             n == Len(Src[p])
             at == w.read + w.written
  <2>1. at \in Nat /\ n \in Nat /\ held \in Nat
    BY <1>0, <1>2
  <2>2. held = at - a
    <3>1. a <= at /\ at <= Len(Src[p]) /\ w.buf = SubSeq(Src[p], a + 1, at)
      BY <1>5, <1>6
    <3> HIDE DEF at
    <3> QED BY <1>4, <2>1, <3>1, SourcePart
  <2>3. w.written = 0 \/ held = 0
    BY <1>7
  <2> DEFINE rd == w.read
             wr == w.written
  <2>4. /\ len = (IF piece < n - rd THEN piece ELSE n - rd)
        /\ writable = (IF len < LeafSize - held THEN len ELSE LeafSize - held)
        /\ e = rd + writable
    BY <1>8
  <2>5. /\ rd \in Nat /\ wr \in Nat /\ at = rd + wr /\ at <= n /\ a <= at /\ at < a + LeafSize
        /\ wr < len /\ wr <= writable /\ (wr = 0 \/ held = 0)
    BY <1>1, <1>2, <1>5, <2>3
  <2>6. piece \in Nat /\ piece <= LeafSize /\ LeafSize \in Nat
    BY <1>2
  <2> HIDE DEF held, n, at, rd, wr
  <2>7. len \in Nat /\ len <= piece /\ rd + len <= n
    BY <2>1, <2>4, <2>5, <2>6
  <2>8. writable \in Nat /\ writable <= len
    BY <1>4, <2>1, <2>2, <2>4, <2>5, <2>6, <2>7
  <2>9. at <= e /\ e <= n /\ e \in Nat /\ a <= e
    BY <1>4, <2>1, <2>4, <2>5, <2>7, <2>8
  <2>10. e - a <= LeafSize
    BY <1>4, <2>1, <2>2, <2>4, <2>5, <2>6, <2>7, <2>8
  <2>11. writable # len => writable < len /\ e - a = LeafSize
    BY <1>4, <2>1, <2>2, <2>4, <2>5, <2>6, <2>7, <2>8
  <2> QED BY <2>7, <2>8, <2>9, <2>10, <2>11 DEF n, at
<1>12. data = SubSeq(Src[p], a + 1, e)
  <2> DEFINE at == w.read + w.written
  <2>1. at \in Nat /\ a <= at /\ at <= e
    BY <1>2, <1>5, <1>11
  <2>2. w.buf = SubSeq(Src[p], a + 1, at) /\ data = w.buf \o SubSeq(Src[p], at + 1, e)
    BY <1>6, <1>10
  <2> HIDE DEF at
  <2>3. SubSeq(Src[p], a + 1, at) \o SubSeq(Src[p], at + 1, e) = SubSeq(Src[p], a + 1, e)
    BY <1>4, <1>11, <2>1, Prolonged
  <2> QED BY ZenonT(60), <2>2, <2>3
<1>13. data \in Seq(STRING) /\ Len(data) = e - a
  BY ZenonT(60), <1>4, <1>11, <1>12, SourcePart
<1>14. r \in WriterRecord
  <2> DEFINE rd == IF all THEN w.read + len ELSE w.read
             wr == IF all THEN 0 ELSE writable
             bf == IF full THEN <<>> ELSE data
             ct == IF full THEN w.count + 1 ELSE w.count
  <2>1. rd \in Nat /\ wr \in Nat /\ ct \in Nat
    BY <1>2, <1>11
  <2>3. bf \in Seq(STRING)
    BY ZenonT(60), <1>13, EmptySeq
  <2>2. r = [w EXCEPT !.read = rd, !.written = wr, !.buf = bf, !.count = ct]
    OBVIOUS
  <2> HIDE DEF rd, wr, bf, ct
  <2> QED BY ZenonT(60), <1>0, <2>1, <2>2, <2>3 DEF WriterRecord
<1>15. /\ r.pc = w.pc /\ r.flushes = w.flushes /\ r.errors = w.errors /\ r.leaves = w.leaves
       /\ r.read = (IF all THEN w.read + len ELSE w.read)
       /\ r.written = (IF all THEN 0 ELSE writable)
       /\ r.buf = (IF full THEN <<>> ELSE data)
       /\ r.count = (IF full THEN w.count + 1 ELSE w.count)
  BY <1>0 DEF WriterRecord
<1> HIDE DEF r
<1>16. put' \in [Puts -> WriterRecord] /\ put'[p] = r /\ \A q \in Puts : q # p => put'[q] = put[q]
  BY <1>1, <1>14, PutReplaced DEF WriterTypes
<1>17. r.read + r.written = e
  BY <1>2, <1>8, <1>11, <1>15
<1>19. CopyInv(p)'
  <2>1. /\ r.count * LeafSize <= e /\ e < r.count * LeafSize + LeafSize
        /\ r.buf = SubSeq(Src[p], r.count * LeafSize + 1, e)
    <3>1. CASE full
      <4>1. r.count * LeafSize = e
        BY <1>2, <1>4, <1>9, <1>11, <1>13, <1>15, <3>1
      <4>2. SubSeq(Src[p], e + 1, e) = <<>>
        BY <1>11, SubSeqEmpty
      <4>3. r.buf = <<>>
        BY <1>15, <3>1
      <4> QED BY <1>2, <1>11, <4>1, <4>2, <4>3
    <3>2. CASE ~full
      <4>1. r.count * LeafSize = a /\ r.buf = data
        BY <1>9, <1>15, <3>2
      <4>2. e < a + LeafSize /\ a <= e
        BY <1>2, <1>4, <1>11, <1>13, <3>2
      <4> QED BY ZenonT(60), <1>12, <4>1, <4>2
    <3> QED BY <3>1, <3>2
  <2>2. r.written = 0 \/ (r.buf = <<>> /\ r.written < PieceLen(p)')
    <3>1. CASE all
      BY <1>15, <3>1
    <3>2. CASE ~all
      <4>1. PieceLen(p)' = len
        <5>1. put'[p].read = w.read
          BY <1>15, <1>16, <3>2
        <5> QED BY <1>1, <1>8, <5>1 DEF PieceLen
      <4>2. full
        BY <1>11, <1>13, <3>2
      <4> QED BY <1>11, <1>15, <3>2, <4>1, <4>2
    <3> QED BY <3>1, <3>2
  <2> QED BY ZenonT(60), <1>11, <1>16, <1>17, <2>1, <2>2 DEF CopyInv
<1>20. /\ leaf.put = p /\ leaf.kind = "leaf" /\ leaf.n = w.count + 1
       /\ leaf.key = KeyFromBytes(data, w.count + 1, FALSE)
       /\ leaf \in TaskRecord /\ leaf.key \in LeafKeys
  <2>1. KeyFromBytes(data, w.count + 1, FALSE) \in LeafKeys
    <3>1. w.count + 1 \in Nat
      BY <1>2
    <3> QED BY ZenonT(60), <1>13, <3>1, KeyTypes
  <2> DEFINE k == KeyFromBytes(data, w.count + 1, FALSE)
  <2>2. leaf = Task(p, "leaf", w.count + 1, k) /\ k \in LeafKeys
    BY ZenonT(60), <2>1
  <2> HIDE DEF k, leaf
  <2>3. /\ leaf.put = p /\ leaf.kind = "leaf" /\ leaf.n = w.count + 1 /\ leaf.key = k
        /\ leaf \in TaskRecord
    BY <1>2, <2>2 DEF Task, TaskRecord
  <2> QED BY ZenonT(60), <2>2, <2>3 DEF k
<1>21. full => leaf.key = LeafKey(p, w.count + 1)
  <2>1. SUFFICES ASSUME full PROVE leaf.key = LeafKey(p, w.count + 1)
    BY ZenonT(60)
  <2>2. e = a + LeafSize
    BY <1>2, <1>4, <1>11, <1>13, <2>1
  <2> HIDE DEF leaf
  <2>3. LeafKey(p, w.count + 1) = KeyFromBytes(SubSeq(Src[p], a + 1, e), w.count + 1, FALSE)
    BY ZenonT(60), <1>2, <1>4, <1>9, <2>2, NextLeafKey
  <2> QED BY ZenonT(60), <1>12, <1>20, <2>3
<1> HIDE DEF leaf
<1>22. TasksOf(p)' = IF full THEN TasksOf(p) \union {leaf} ELSE TasksOf(p)
  BY <1>1, <1>20 DEF TasksOf
<1>23. LeafInv(p)'
  <2> DEFINE F == w.flushes
  <2>0. /\ F \in Seq([n : Nat, key : LeafKeys]) /\ Len(F) \in Nat
        /\ \A t \in TasksOf(p) : t.n \in Nat
    BY <1>0, LenProperties DEF WriterRecord, WriterTypes, TasksOf, TaskRecord
  <2>1. /\ \A t \in TasksOf(p) : t.kind = "leaf" /\ t.n \in 1..w.count /\ t.key = LeafKey(p, t.n)
        /\ \A t, u \in TasksOf(p) : t.n = u.n => t = u
        /\ \A i \in 1..Len(F) : F[i].n \in 1..w.count /\ F[i].key = LeafKey(p, F[i].n)
        /\ \A i, j \in 1..Len(F) : F[i].n = F[j].n => i = j
        /\ \A i \in 1..Len(F), t \in TasksOf(p) : F[i].n # t.n
        /\ w.errors = 0 => \A n \in 1..w.count : \/ \E t \in TasksOf(p) : t.n = n
                                                 \/ \E i \in 1..Len(F) : F[i].n = n
    BY <1>3 DEF LeafInv, w
  <2> HIDE DEF F
  <2> DEFINE c == w.count
             T == TasksOf(p)
  <2>a. c \in Nat
    BY <1>2
  <2>b. CASE full
    <3>1. TasksOf(p)' = T \union {leaf} /\ r.count = c + 1 /\ leaf.n = c + 1
      BY <1>15, <1>20, <1>22, <2>b
    <3>2. leaf.kind = "leaf" /\ leaf.key = LeafKey(p, c + 1)
      BY ZenonT(60), <1>20, <1>21, <2>b
    <3> HIDE DEF c, T
    <3>3. /\ \A t \in T : t.kind = "leaf" /\ t.n \in 1..c /\ t.key = LeafKey(p, t.n)
          /\ \A t, u \in T : t.n = u.n => t = u
      BY <2>1 DEF c, T
    <3>4. /\ \A t \in T \union {leaf} : t.kind = "leaf" /\ t.n \in 1..c + 1 /\ t.key = LeafKey(p, t.n)
          /\ \A t, u \in T \union {leaf} : t.n = u.n => t = u
      BY <2>a, <3>1, <3>2, <3>3
    <3>5. /\ \A i \in 1..Len(F) : F[i].n \in 1..c + 1 /\ F[i].key = LeafKey(p, F[i].n)
          /\ \A i \in 1..Len(F), t \in T \union {leaf} : F[i].n # t.n
      <4>1. \A i \in 1..Len(F) : F[i].n \in 1..c /\ F[i].key = LeafKey(p, F[i].n)
        BY <2>1 DEF c
      <4>2. \A i \in 1..Len(F), t \in T : F[i].n # t.n
        BY <2>1 DEF T
      <4> QED BY <2>a, <3>1, <4>1, <4>2
    <3>6. w.errors = 0 => \A n \in 1..c + 1 : \/ \E t \in T \union {leaf} : t.n = n
                                              \/ \E i \in 1..Len(F) : F[i].n = n
      <4>1. w.errors = 0 => \A n \in 1..c : (\E t \in T : t.n = n) \/ \E i \in 1..Len(F) : F[i].n = n
        BY <2>1 DEF c, T
      <4> QED BY <2>a, <3>1, <4>1
    <3>7. put'[p].flushes = F /\ put'[p].count = c + 1 /\ put'[p].errors = w.errors
      BY <1>15, <1>16, <3>1 DEF F
    <3>8. \A i, j \in 1..Len(F) : F[i].n = F[j].n => i = j
      BY <2>1
    <3> QED BY <3>1, <3>4, <3>5, <3>6, <3>7, <3>8 DEF LeafInv
  <2>c. CASE ~full
    <3>1. put'[p].flushes = F /\ put'[p].count = c /\ put'[p].errors = w.errors
      BY <1>15, <1>16, <2>c DEF F
    <3>2. TasksOf(p)' = T
      BY <1>22, <2>c
    <3> QED BY <2>1, <3>1, <3>2 DEF LeafInv
  <2> QED BY <2>b, <2>c
<1>24. OnePut(p)'
  BY <1>1, <1>15, <1>16, <1>19, <1>23 DEF OnePut
<1>25. ASSUME NEW q \in Puts, q # p PROVE OnePut(q)'
  <2>1. TasksOf(q)' = TasksOf(q)
    BY <1>1, <1>20, <1>25 DEF TasksOf
  <2> QED BY <1>1, <1>16, <1>25, <2>1, PutKept
<1>26. /\ tasks \subseteq tasks' /\ tasks' \in SUBSET TaskRecord
       /\ \A t \in tasks' : t.kind # "root" => t.key \in LeafKeys
  BY ZenonT(60), <1>1, <1>20 DEF WriterTypes
<1> QED BY <1>1, <1>15, <1>16, <1>24, <1>25, <1>26 DEF w

\* The end of a pFlush goroutine: its leaf is reported, once, or counts as an error.
LEMMA EndLeafPut ==
  ASSUME WriterTypes, NEW t \in tasks, NEW ok \in BOOLEAN, t.kind = "leaf", EndLeaf(t, ok),
         piece' = piece, OnePut(t.put)
  PROVE  /\ put' \in [Puts -> WriterRecord]
         /\ \A q \in Puts : q # t.put => put'[q] = put[q]
         /\ put[t.put].pc = "copy" /\ put'[t.put].pc = "copy"
         /\ put'[t.put].flushes = IF ok THEN Append(put[t.put].flushes, [n |-> t.n, key |-> t.key])
                                  ELSE put[t.put].flushes
         /\ OnePut(t.put)'
<1> DEFINE p == t.put
           w == put[p]
           F == w.flushes
           x == [n |-> t.n, key |-> t.key]
           r == FlushThread(w, t, ok)
<1>1. p \in Puts /\ t \in TaskRecord /\ t.n \in Nat /\ t.key \in LeafKeys /\ t \in TasksOf(p)
  BY DEF WriterTypes, TaskRecord, TasksOf
<1>2. /\ w \in WriterRecord /\ F \in Seq([n : Nat, key : LeafKeys]) /\ w.errors \in Nat
      /\ Len(F) \in Nat
  BY ZenonT(60), <1>1, LenProperties DEF WriterTypes, WriterRecord
<1>3. w.pc = "copy" /\ CopyInv(p) /\ LeafInv(p)
  <2>1. w.pc \in {"copy", "wait"}
    BY <1>1 DEF OnePut
  <2>2. w.pc # "wait"
    BY <1>1 DEF OnePut, TailInv
  <2> QED BY <2>1, <2>2 DEF OnePut
<1>4. x \in [n : Nat, key : LeafKeys] /\ x.n = t.n /\ x.key = t.key
  BY <1>1
<1>5. put' = [put EXCEPT ![p] = r] /\ tasks' = tasks \ {t}
  BY DEF EndLeaf, FlushThread
<1> HIDE DEF F, x
<1>6. /\ Append(F, x) \in Seq([n : Nat, key : LeafKeys]) /\ Len(Append(F, x)) = Len(F) + 1
      /\ \A i \in 1..Len(F) : Append(F, x)[i] = F[i]
      /\ Append(F, x)[Len(F) + 1] = x
  BY <1>2, <1>4, AppendProperties
<1>7. r = IF ok THEN [w EXCEPT !.flushes = Append(F, x)] ELSE [w EXCEPT !.errors = w.errors + 1]
  BY DEF FlushThread, F, x
<1> DEFINE G == IF ok THEN Append(F, x) ELSE F
<1>8. /\ r \in WriterRecord /\ r.pc = w.pc /\ r.read = w.read /\ r.written = w.written
      /\ r.buf = w.buf /\ r.count = w.count /\ r.leaves = w.leaves
      /\ r.flushes = G
      /\ r.errors = IF ok THEN w.errors ELSE w.errors + 1
  <2>1. CASE ok
    BY ZenonT(60), <1>2, <1>6, <1>7, <2>1 DEF WriterRecord, F
  <2>2. CASE ~ok
    <3> DEFINE m == w.errors + 1
    <3>1. m \in Nat /\ r = [w EXCEPT !.errors = m]
      BY <1>2, <1>7, <2>2
    <3>2. G = F
      BY <2>2
    <3> HIDE DEF m, r, G
    <3>3. /\ r \in WriterRecord /\ r.pc = w.pc /\ r.read = w.read /\ r.written = w.written
          /\ r.buf = w.buf /\ r.count = w.count /\ r.leaves = w.leaves
          /\ r.flushes = w.flushes /\ r.errors = m
      BY ZenonT(60), <1>2, <3>1 DEF WriterRecord
    <3> QED BY <2>2, <3>2, <3>3 DEF F, m
  <2> QED BY <2>1, <2>2
<1> HIDE DEF r, w, G
<1>9. put' \in [Puts -> WriterRecord] /\ put'[p] = r /\ \A q \in Puts : q # p => put'[q] = put[q]
  BY <1>1, <1>5, <1>8, PutReplaced DEF WriterTypes
<1>10. TasksOf(p)' = TasksOf(p) \ {t}
  BY <1>5 DEF TasksOf
<1>11. CopyInv(p)'
  <2>1. CopyInv(p) => CopyInv(p)'
    BY ZenonT(60), <1>8, <1>9 DEF CopyInv, PieceLen, w
  <2> QED BY <1>3, <2>1
<1>12. LeafInv(p)'
  <2> DEFINE c == w.count
             T == TasksOf(p)
  <2>1. /\ \A u \in T : u.kind = "leaf" /\ u.n \in 1..c /\ u.key = LeafKey(p, u.n)
        /\ \A u, v \in T : u.n = v.n => u = v
        /\ \A i \in 1..Len(F) : F[i].n \in 1..c /\ F[i].key = LeafKey(p, F[i].n)
        /\ \A i, j \in 1..Len(F) : F[i].n = F[j].n => i = j
        /\ \A i \in 1..Len(F), u \in T : F[i].n # u.n
    BY <1>3 DEF LeafInv, F, w
  <2>2. w.errors = 0 => \A n \in 1..c : (\E u \in T : u.n = n) \/ \E i \in 1..Len(F) : F[i].n = n
    BY <1>3 DEF LeafInv, F, w
  <2>3. put'[p].flushes = G /\ put'[p].count = c /\ put'[p].errors = r.errors
    BY <1>8, <1>9
  <2>4. TasksOf(p)' = T \ {t} /\ t \in T
    BY <1>1, <1>10
  <2> HIDE DEF c, T
  <2>5. CASE ok
    <3>1. Len(G) = Len(F) + 1 /\ (\A i \in 1..Len(F) : G[i] = F[i]) /\ G[Len(F) + 1] = x
      BY <1>6, <2>5 DEF G
    <3>2. \A i \in 1..Len(G) : i \in 1..Len(F) \/ i = Len(F) + 1
      BY <1>2, <3>1
    <3>3. \A i \in 1..Len(G) : G[i].n \in 1..c /\ G[i].key = LeafKey(p, G[i].n)
      BY <1>4, <2>1, <2>4, <3>1, <3>2
    <3>4. \A i, j \in 1..Len(G) : G[i].n = G[j].n => i = j
      BY <1>4, <2>1, <2>4, <3>1, <3>2
    <3>5. \A i \in 1..Len(G), u \in T \ {t} : G[i].n # u.n
      BY <1>4, <2>1, <2>4, <3>1, <3>2
    <3>6. r.errors = 0 => \A n \in 1..c : \/ \E u \in T \ {t} : u.n = n
                                          \/ \E i \in 1..Len(G) : G[i].n = n
      <4>1. SUFFICES ASSUME w.errors = 0, NEW n \in 1..c
                     PROVE  (\E u \in T \ {t} : u.n = n) \/ \E i \in 1..Len(G) : G[i].n = n
        BY <1>8, <2>5
      <4>2. CASE n = t.n
        <5>1. G[Len(F) + 1].n = n /\ Len(F) + 1 \in 1..Len(G)
          BY <1>2, <1>4, <3>1, <4>2
        <5> QED BY <5>1
      <4>3. ASSUME NEW i \in 1..Len(F), F[i].n = n
            PROVE  G[i].n = n /\ i \in 1..Len(G)
        BY <1>2, <3>1, <4>3
      <4> QED BY <2>2, <4>1, <4>2, <4>3
    <3> HIDE DEF G
    <3> QED BY <2>1, <2>3, <2>4, <3>3, <3>4, <3>5, <3>6 DEF LeafInv
  <2>6. CASE ~ok
    <3>1. G = F /\ r.errors # 0
      BY <1>2, <1>8, <2>6 DEF G, w
    <3> QED BY <2>1, <2>3, <2>4, <3>1 DEF LeafInv
  <2> QED BY <2>5, <2>6
<1>13. OnePut(p)'
  BY <1>3, <1>8, <1>9, <1>11, <1>12 DEF OnePut, w
<1> QED BY <1>3, <1>8, <1>9, <1>13 DEF F, G, x, w

\* The end of the last leaf, and with it of the leaves; the root is next.
LEMMA EndTailPut ==
  ASSUME WriterTypes, NEW t \in tasks, NEW ok \in BOOLEAN, t.kind = "tail", EndTail(t, ok),
         OnePut(t.put)
  PROVE  /\ put' \in [Puts -> WriterRecord]
         /\ \A q \in Puts : q # t.put => put'[q] = put[q]
         /\ put[t.put].pc = "wait"
         /\ put'[t.put].pc = IF ok THEN "wait" ELSE "error"
         /\ ok => put'[t.put].leaves = Append(put[t.put].leaves, t.key)
         /\ ok => \E u \in TaskRecord : u.put = t.put /\ u.kind = "root" /\ tasks' = (tasks \ {t}) \union {u}
         /\ ~ok => tasks' = tasks \ {t}
         /\ OnePut(t.put)'
<1> DEFINE p == t.put
           w == put[p]
           leaves == Append(w.leaves, t.key)
           u == RootTask(p, leaves)
<1>1. p \in Puts /\ t \in TaskRecord /\ t.key \in LeafKeys /\ t \in TasksOf(p)
  BY DEF WriterTypes, TaskRecord, TasksOf
<1>2. w \in WriterRecord /\ w.leaves \in Seq(LeafKeys)
  BY ZenonT(60), <1>1 DEF WriterTypes, WriterRecord
<1>3. w.pc = "wait" /\ TailInv(p)
  <2>1. w.pc \in {"copy", "wait"}
    BY <1>1 DEF OnePut
  <2>2. w.pc # "copy"
    BY <1>1 DEF OnePut, LeafInv
  <2> QED BY <2>1, <2>2 DEF OnePut
<1>4. leaves \in Seq(LeafKeys)
  BY <1>1, <1>2, AppendProperties
<1>5. w.leaves = FullKeys(p) /\ Len(Src[p]) % LeafSize # 0 /\ t.key = TailKey(p) /\ TasksOf(p) = {t}
  BY <1>1, <1>3 DEF TailInv
<1>6. leaves = LeafKeysOf(Src[p])
  BY ZenonT(60), <1>1, <1>5, KeysOfContent
<1>7. /\ tasks' = (tasks \ {t}) \union (IF ok THEN {u} ELSE {})
      /\ put' = [put EXCEPT ![p] = IF ok THEN [w EXCEPT !.leaves = leaves]
                                   ELSE [w EXCEPT !.pc = "error"]]
  BY DEF EndTail
<1> HIDE DEF leaves, w
<1>8. /\ u \in TaskRecord /\ u.put = p /\ u.kind = "root" /\ u.key = RootHash(leaves)
  <2>1. RootHash(leaves) \in RootKeys
    BY <1>4 DEF RootKeys
  <2> DEFINE k == RootHash(leaves)
  <2>2. u = [put |-> p, kind |-> "root", n |-> 0, key |-> k, stage |-> "check"]
    BY DEF RootTask, Task
  <2> HIDE DEF k, u
  <2>3. u \in TaskRecord /\ u.put = p /\ u.kind = "root" /\ u.key = k
    BY <1>1, <2>1, <2>2 DEF TaskRecord, k
  <2> QED BY <2>3 DEF k
<1> HIDE DEF u
<1>9. CASE ok
  <2> DEFINE r == [w EXCEPT !.leaves = leaves]
  <2>1. r \in WriterRecord /\ r.pc = w.pc /\ r.leaves = leaves
    BY ZenonT(60), <1>2, <1>4 DEF WriterRecord
  <2>2. put' = [put EXCEPT ![p] = r] /\ tasks' = (tasks \ {t}) \union {u}
    BY <1>7, <1>9
  <2> HIDE DEF r
  <2>3. put' \in [Puts -> WriterRecord] /\ put'[p] = r /\ \A q \in Puts : q # p => put'[q] = put[q]
    BY <1>1, <2>1, <2>2, PutReplaced DEF WriterTypes
  <2>4. TasksOf(p)' = {u}
    BY <1>5, <1>8, <2>2 DEF TasksOf
  <2>5. TailInv(p)'
    BY <1>6, <1>8, <2>1, <2>3, <2>4 DEF TailInv
  <2>6. OnePut(p)'
    BY <1>3, <2>1, <2>3, <2>5 DEF OnePut
  <2> QED BY <1>3, <1>8, <1>9, <2>1, <2>2, <2>3, <2>6 DEF w, leaves
<1>10. CASE ~ok
  <2> DEFINE r == [w EXCEPT !.pc = "error"]
  <2>1. r \in WriterRecord /\ r.pc = "error"
    BY <1>2 DEF WriterRecord
  <2>2. put' = [put EXCEPT ![p] = r] /\ tasks' = tasks \ {t}
    BY <1>7, <1>10
  <2> HIDE DEF r
  <2>3. put' \in [Puts -> WriterRecord] /\ put'[p] = r /\ \A q \in Puts : q # p => put'[q] = put[q]
    BY <1>1, <2>1, <2>2, PutReplaced DEF WriterTypes
  <2>4. TasksOf(p)' = {}
    BY <1>5, <2>2 DEF TasksOf
  <2>5. OnePut(p)'
    BY <2>1, <2>3, <2>4 DEF OnePut
  <2> QED BY <1>3, <1>10, <2>1, <2>2, <2>3, <2>5 DEF w
<1> QED BY <1>9, <1>10

\* The end of the root, and of the Put.
LEMMA EndRootPut ==
  ASSUME WriterTypes, NEW t \in tasks, NEW ok \in BOOLEAN, t.kind = "root", EndRoot(t, ok),
         OnePut(t.put)
  PROVE  /\ put' \in [Puts -> WriterRecord]
         /\ \A q \in Puts : q # t.put => put'[q] = put[q]
         /\ put[t.put].pc = "wait"
         /\ put'[t.put].pc = IF ok THEN "ok" ELSE "error"
         /\ put'[t.put].leaves = put[t.put].leaves
         /\ t.key = RootHash(put[t.put].leaves)
         /\ OnePut(t.put)'
<1> DEFINE p == t.put
           w == put[p]
           r == [w EXCEPT !.pc = IF ok THEN "ok" ELSE "error"]
<1>1. p \in Puts /\ t \in TaskRecord /\ t \in TasksOf(p)
  BY DEF WriterTypes, TaskRecord, TasksOf
<1>2. w \in WriterRecord
  BY <1>1 DEF WriterTypes
<1>3. w.pc = "wait" /\ TailInv(p)
  <2>1. w.pc \in {"copy", "wait"}
    BY <1>1 DEF OnePut
  <2>2. w.pc # "copy"
    BY <1>1 DEF OnePut, LeafInv
  <2> QED BY <2>1, <2>2 DEF OnePut
<1>4. w.leaves = LeafKeysOf(Src[p]) /\ t.key = RootHash(w.leaves) /\ TasksOf(p) = {t}
  BY <1>1, <1>3 DEF TailInv
<1>5. put' = [put EXCEPT ![p] = r] /\ tasks' = tasks \ {t}
  BY DEF EndRoot
<1>6. r \in WriterRecord /\ r.pc = (IF ok THEN "ok" ELSE "error") /\ r.leaves = w.leaves
  <2> HIDE DEF w
  <2> QED BY ZenonT(60), <1>2 DEF WriterRecord
<1> HIDE DEF r, w
<1>7. put' \in [Puts -> WriterRecord] /\ put'[p] = r /\ \A q \in Puts : q # p => put'[q] = put[q]
  BY <1>1, <1>5, <1>6, PutReplaced DEF WriterTypes
<1>8. TasksOf(p)' = {}
  BY <1>4, <1>5 DEF TasksOf
<1>9. OnePut(p)'
  BY <1>4, <1>6, <1>7, <1>8 DEF OnePut
<1> QED BY <1>3, <1>4, <1>6, <1>7, <1>9 DEF w

\* Flush lists the full leaves in the order of the source; what the buffer still
\* holds is the last leaf.
LEMMA FlushPut ==
  ASSUME WriterTypes, NEW p \in Puts, Flush(p), OnePut(p)
  PROVE  /\ put' \in [Puts -> WriterRecord]
         /\ \A q \in Puts : q # p => put'[q] = put[q]
         /\ put[p].pc = "copy" /\ put'[p].pc \in {"wait", "error"}
         /\ put'[p].pc = "wait" =>
              \A i \in 1..Len(put'[p].leaves) :
                \E j \in 1..Len(put[p].flushes) : put'[p].leaves[i] = put[p].flushes[j].key
         /\ tasks' = tasks \/ \E u \in TaskRecord : /\ u.put = p /\ tasks' = tasks \union {u}
                                                    /\ u.kind # "root" => u.key \in LeafKeys
         /\ OnePut(p)'
<1> DEFINE w == put[p]
           F == w.flushes
           leaves == FlushedLeaves(w)
           tail == Task(p, "tail", Len(leaves), KeyFromBytes(w.buf, Len(leaves), TRUE))
           u == IF w.buf = <<>> THEN RootTask(p, leaves) ELSE tail
<1>1. w.pc = "copy" /\ w.read = Len(Src[p]) /\ LeafTasks(p) = {}
  BY DEF Flush
<1>2. /\ w.errors > 0 => put' = [put EXCEPT ![p].pc = "error"] /\ tasks' = tasks
      /\ ~(w.errors > 0) => /\ put' = [put EXCEPT ![p].pc = "wait", ![p].leaves = leaves]
                            /\ tasks' = tasks \union {u}
  BY ZenonT(60) DEF Flush
<1>3. CopyInv(p) /\ LeafInv(p)
  BY <1>1 DEF OnePut
<1>4. TasksOf(p) = {}
  BY <1>1, <1>3 DEF LeafInv, LeafTasks, TasksOf
<1>5. /\ w \in WriterRecord /\ F \in Seq([n : Nat, key : LeafKeys]) /\ w.errors \in Nat
      /\ w.count \in Nat /\ w.read \in Nat /\ w.written \in Nat
  BY ZenonT(60) DEF WriterTypes, WriterRecord
<1>6. CASE w.errors > 0
  <2> DEFINE r == [w EXCEPT !.pc = "error"]
  <2>1. r \in WriterRecord /\ r.pc = "error"
    BY ZenonT(60), <1>5 DEF WriterRecord
  <2>2. put' = [put EXCEPT ![p] = r] /\ tasks' = tasks
    BY <1>2, <1>6
  <2> HIDE DEF r
  <2>3. put' \in [Puts -> WriterRecord] /\ put'[p] = r /\ \A q \in Puts : q # p => put'[q] = put[q]
    BY <2>1, <2>2, PutReplaced DEF WriterTypes
  <2>4. TasksOf(p)' = {}
    BY <1>4, <2>2 DEF TasksOf
  <2>5. OnePut(p)'
    BY <2>1, <2>3, <2>4 DEF OnePut
  <2> QED BY <1>1, <2>1, <2>2, <2>3, <2>5
<1>7. CASE ~(w.errors > 0)
  <2> DEFINE c == w.count
             L == FullLeaves(Src[p])
             n == Len(Src[p])
  <2>1. w.errors = 0
    BY <1>5, <1>7
  <2>2. n \in Nat /\ LeafSize \in Nat /\ LeafSize > 0 /\ c * LeafSize \in Nat /\ piece \in Nat
    BY <1>5, Sources DEF WriterTypes
  <2>3. w.written = 0
    <3>1. PieceLen(p) = 0
      BY <1>1, <2>2 DEF PieceLen
    <3>2. w.written = 0 \/ w.written < PieceLen(p)
      BY <1>3 DEF CopyInv
    <3> QED BY <1>5, <3>1, <3>2
  <2>4. c * LeafSize <= n /\ n < c * LeafSize + LeafSize /\ w.buf = SubSeq(Src[p], c * LeafSize + 1, n)
    <3>1. w.read + w.written = n
      BY <1>1, <2>2, <2>3
    <3> QED BY ZenonT(60), <1>3, <3>1 DEF CopyInv
  <2>5. c = L /\ (n % LeafSize = 0 <=> n = c * LeafSize)
    <3> HIDE DEF c, n
    <3>1. n \div LeafSize = c /\ (n % LeafSize = 0 <=> n = c * LeafSize)
      BY ZenonT(60), <1>5, <2>2, <2>4, DivSmall DEF c
    <3> QED BY <3>1 DEF FullLeaves, n
  <2>6. Len(w.buf) = n - c * LeafSize
    <3> DEFINE a == c * LeafSize
    <3>1. a \in Nat /\ a <= n /\ w.buf = SubSeq(Src[p], a + 1, n)
      BY <2>2, <2>4
    <3> HIDE DEF a
    <3>2. Len(w.buf) = n - a
      BY <2>2, <3>1, SourcePart
    <3> QED BY <3>2 DEF a
  <2>7. w.buf = <<>> <=> n % LeafSize = 0
    <3> DEFINE a == c * LeafSize
               m == Len(w.buf)
    <3>1. m = n - a /\ a \in Nat /\ n \in Nat /\ (n % LeafSize = 0 <=> n = a)
      BY ZenonT(60), <2>2, <2>5, <2>6
    <3>2. w.buf = <<>> <=> m = 0
      BY <1>5, EmptySeq DEF WriterRecord
    <3> HIDE DEF a, m, n
    <3>3. m = 0 <=> n = a
      BY <3>1
    <3> QED BY <3>1, <3>2, <3>3
  <2>8. /\ \A i \in 1..Len(F) : F[i].n \in 1..c /\ F[i].key = LeafKey(p, F[i].n)
        /\ \A i, j \in 1..Len(F) : F[i].n = F[j].n => i = j
        /\ \A m \in 1..c : \E i \in 1..Len(F) : F[i].n = m
    BY <1>3, <1>4, <2>1 DEF LeafInv
  <2>9. leaves = FullKeys(p)
    <3>1. \A i \in 1..c : FullKeys(p)[i] = LeafKey(p, i)
      BY <2>5 DEF FullKeys
    <3>2. \A i \in 1..Len(F) : F[i].n \in 1..c /\ F[i].key = FullKeys(p)[F[i].n]
      BY <2>8, <3>1
    <3>3. Numbered(F, c, FullKeys(p))
      BY <2>8, <3>2 DEF Numbered
    <3>4. leaves \in [1..c -> LeafKeys] /\ \A i \in 1..c : leaves[i] = FullKeys(p)[i]
      <4> HIDE DEF w, c
      <4>1. w.flushes \in Seq([n : Nat, key : LeafKeys]) /\ c \in Nat
        BY <1>5 DEF c
      <4> QED BY ZenonT(60), <3>3, <4>1, Flushed
    <3>5. FullKeys(p) \in [1..c -> LeafKeys]
      BY ZenonT(60), <2>5, LeafKeyTypes DEF FullKeys
    <3> DEFINE I == 1..c
    <3>6. /\ leaves \in [I -> LeafKeys] /\ FullKeys(p) \in [I -> LeafKeys]
          /\ \A i \in I : leaves[i] = FullKeys(p)[i]
      BY <3>4, <3>5
    <3> HIDE DEF leaves, I
    <3> QED BY <3>6
  <2>10. leaves \in Seq(LeafKeys) /\ Len(leaves) = L /\ L \in Nat
    BY <2>9, LeafKeyTypes, Division
  <2>11. \A i \in 1..Len(leaves) : \E j \in 1..Len(F) : leaves[i] = F[j].key
    <3>1. SUFFICES ASSUME NEW i \in 1..c PROVE \E j \in 1..Len(F) : leaves[i] = F[j].key
      BY <2>5, <2>10
    <3>2. leaves[i] = LeafKey(p, i)
      BY <2>5, <2>9 DEF FullKeys
    <3> QED BY <2>8, <3>2
  <2> HIDE DEF leaves
  <2> DEFINE r == [w EXCEPT !.pc = "wait", !.leaves = leaves]
  <2>12. r \in WriterRecord /\ r.pc = "wait" /\ r.leaves = leaves
    BY ZenonT(60), <1>5, <2>10 DEF WriterRecord
  <2>13. put' = [put EXCEPT ![p] = r] /\ tasks' = tasks \union {u}
    BY ZenonT(60), <1>2, <1>7 DEF WriterTypes
  <2> HIDE DEF r
  <2>14. put' \in [Puts -> WriterRecord] /\ put'[p] = r /\ \A q \in Puts : q # p => put'[q] = put[q]
    BY <2>12, <2>13, PutReplaced DEF WriterTypes
  <2>15. /\ u \in TaskRecord /\ u.put = p
         /\ u.kind # "root" => u.key \in LeafKeys
         /\ w.buf = <<>> => u.kind = "root" /\ u.key = RootHash(leaves)
         /\ w.buf # <<>> => u.kind = "tail" /\ u.key = KeyFromBytes(w.buf, L, TRUE)
    <3>1. CASE w.buf = <<>>
      <4> DEFINE k == RootHash(leaves)
      <4>1. k \in RootKeys
        BY <2>10 DEF RootKeys
      <4>2. u = [put |-> p, kind |-> "root", n |-> 0, key |-> k, stage |-> "check"]
        BY ZenonT(60), <3>1 DEF RootTask, Task
      <4> HIDE DEF k, u
      <4>3. u \in TaskRecord /\ u.put = p /\ u.kind = "root" /\ u.key = k
        BY <4>1, <4>2 DEF TaskRecord
      <4> QED BY ZenonT(60), <3>1, <4>3 DEF k
    <3>2. CASE w.buf # <<>>
      <4> DEFINE k == KeyFromBytes(w.buf, L, TRUE)
      <4>1. k \in LeafKeys
        BY ZenonT(60), <1>5, <2>10, KeyTypes DEF WriterRecord
      <4>2. u = [put |-> p, kind |-> "tail", n |-> L, key |-> k, stage |-> "check"]
        BY <2>10, <3>2 DEF Task
      <4> HIDE DEF k, u, L
      <4>3. u \in TaskRecord /\ u.put = p /\ u.kind = "tail" /\ u.key = k
        BY <2>10, <4>1, <4>2 DEF TaskRecord
      <4> QED BY ZenonT(60), <3>2, <4>1, <4>3 DEF k, L
    <3> QED BY ZenonT(60), <3>1, <3>2
  <2> HIDE DEF u
  <2>16. TasksOf(p)' = {u}
    BY <1>4, <2>13, <2>15 DEF TasksOf
  <2>17. KeyFromBytes(w.buf, L, TRUE) = TailKey(p)
    BY <2>4, <2>5 DEF TailKey
  <2>18. n % LeafSize = 0 => leaves = LeafKeysOf(Src[p])
    BY <2>9, KeysOfContent
  <2>19. TailInv(p)'
    <3>1. put'[p].leaves = leaves
      BY <2>12, <2>14
    <3>2. \/ /\ u.kind = "tail" /\ leaves = FullKeys(p)
             /\ Len(Src[p]) % LeafSize # 0 /\ u.key = TailKey(p)
          \/ /\ u.kind = "root" /\ leaves = LeafKeysOf(Src[p]) /\ u.key = RootHash(leaves)
      BY ZenonT(60), <2>7, <2>9, <2>15, <2>17, <2>18
    <3> HIDE DEF w
    <3> QED BY <2>16, <3>1, <3>2 DEF TailInv
  <2>20. OnePut(p)'
    BY ZenonT(60), <2>12, <2>14, <2>19 DEF OnePut
  <2> QED BY <1>1, <2>11, <2>12, <2>13, <2>14, <2>15, <2>20
<1> QED BY ZenonT(60), <1>6, <1>7

\* The end of a goroutine, whatever it wrote.
LEMMA EndPut ==
  ASSUME WriterTypes, NEW t \in tasks, NEW ok \in BOOLEAN, End(t, ok), piece' = piece,
         \A q \in Puts : OnePut(q)
  PROVE  /\ put' \in [Puts -> WriterRecord]
         /\ \A q \in Puts : OnePut(q)'
         /\ tasks' \in SUBSET TaskRecord
         /\ \A u \in tasks' : u.kind # "root" => u.key \in LeafKeys
         /\ \A u \in tasks : u # t => u \in tasks'
<1>1. t.put \in Puts /\ OnePut(t.put) /\ t.kind \in {"leaf", "tail", "root"} /\ t \in TaskRecord
  BY DEF WriterTypes, TaskRecord
<1>2. /\ put' \in [Puts -> WriterRecord] /\ OnePut(t.put)'
      /\ \A q \in Puts : q # t.put => put'[q] = put[q]
      /\ \/ tasks' = tasks \ {t}
         \/ \E u \in TaskRecord : u.put = t.put /\ u.kind = "root" /\ tasks' = (tasks \ {t}) \union {u}
  <2>1. CASE t.kind = "leaf"
    <3>1. EndLeaf(t, ok)
      BY <2>1 DEF End
    <3>2. tasks' = tasks \ {t}
      BY <3>1 DEF EndLeaf
    <3> QED BY ZenonT(60), <1>1, <2>1, <3>1, <3>2, EndLeafPut
  <2>2. CASE t.kind = "tail"
    <3>1. EndTail(t, ok)
      BY <2>2 DEF End
    <3> QED BY <1>1, <2>2, <3>1, EndTailPut
  <2>3. CASE t.kind = "root"
    <3>1. EndRoot(t, ok)
      BY <2>3 DEF End
    <3>2. tasks' = tasks \ {t}
      BY <3>1 DEF EndRoot
    <3> QED BY <1>1, <2>3, <3>1, <3>2, EndRootPut
  <2> QED BY <1>1, <2>1, <2>2, <2>3
<1>3. ASSUME NEW q \in Puts, q # t.put PROVE OnePut(q)'
  <2>1. TasksOf(q)' = TasksOf(q)
    BY <1>2, <1>3 DEF TasksOf
  <2> QED BY <1>2, <1>3, <2>1, PutKept
<1>4. /\ tasks' \in SUBSET TaskRecord
      /\ \A u \in tasks' : u.kind # "root" => u.key \in LeafKeys
      /\ \A u \in tasks : u # t => u \in tasks'
  BY <1>2 DEF WriterTypes
<1> QED BY <1>2, <1>3, <1>4

-----------------------------------------------------------------------------
(* The blobs. *)

\* What a Put relies on stays, and what its record tells it relies on is there.
LEMMA RecordKept ==
  ASSUME NEW p \in Puts, KeptInv(p), put'[p] = put[p], Kept \subseteq Kept'
  PROVE  KeptInv(p)'
<1>1. Kept \subseteq Kept'
  OBVIOUS
<1> QED BY <1>1 DEF KeptInv

\* A goroutine that ends well has its blob in the backend.
LEMMA EndKept ==
  ASSUME WriterTypes, NEW t \in tasks, NEW ok \in BOOLEAN, End(t, ok), piece' = piece,
         \A q \in Puts : OnePut(q) /\ KeptInv(q),
         Kept \subseteq Kept', ok => t.key \in Kept'
  PROVE  \A q \in Puts : KeptInv(q)'
<1> DEFINE p == t.put
           w == put[p]
<1>1. p \in Puts /\ OnePut(p) /\ KeptInv(p) /\ t.kind \in {"leaf", "tail", "root"} /\ t \in TaskRecord
      /\ w \in WriterRecord
  BY DEF WriterTypes, TaskRecord
<1>0. Kept \subseteq Kept'
  OBVIOUS
<1>2. (\A q \in Puts : q # p => put'[q] = put[q]) /\ KeptInv(p)'
  <2>1. CASE t.kind = "leaf"
    <3> DEFINE F == w.flushes
               x == [n |-> t.n, key |-> t.key]
    <3>1. EndLeaf(t, ok)
      BY <2>1 DEF End
    <3>2. /\ \A q \in Puts : q # p => put'[q] = put[q]
          /\ w.pc = "copy" /\ put'[p].pc = "copy"
          /\ put'[p].flushes = IF ok THEN Append(F, x) ELSE F
      BY <1>1, <2>1, <3>1, EndLeafPut
    <3>3. \A i \in 1..Len(F) : F[i].key \in Kept'
      BY <1>0, <1>1, <3>2 DEF KeptInv
    <3>4. F \in Seq([n : Nat, key : LeafKeys]) /\ x \in [n : Nat, key : LeafKeys] /\ x.key = t.key
          /\ Len(F) \in Nat
      BY ZenonT(60), <1>1, <2>1, LenProperties DEF WriterRecord, WriterTypes, TaskRecord
    <3> HIDE DEF F, x
    <3>5. \A i \in 1..Len(put'[p].flushes) : put'[p].flushes[i].key \in Kept'
      <4>1. CASE ok
        <5> DEFINE G == Append(F, x)
        <5>1. /\ Len(G) = Len(F) + 1 /\ \A i \in 1..Len(F) : G[i] = F[i]
              /\ G[Len(F) + 1] = x
          BY <3>4, AppendProperties
        <5>2. put'[p].flushes = G
          BY <3>2, <4>1
        <5> HIDE DEF G
        <5>3. \A i \in 1..Len(G) : i \in 1..Len(F) \/ i = Len(F) + 1
          BY <3>4, <5>1
        <5>4. x.key \in Kept'
          BY <3>4, <4>1
        <5> QED BY <3>3, <5>1, <5>2, <5>3, <5>4
      <4>2. CASE ~ok
        BY <3>2, <3>3, <4>2
      <4> QED BY <4>1, <4>2
    <3> QED BY <3>2, <3>5 DEF KeptInv
  <2>2. CASE t.kind = "tail"
    <3> DEFINE F == w.leaves
    <3>1. EndTail(t, ok)
      BY <2>2 DEF End
    <3>2. /\ \A q \in Puts : q # p => put'[q] = put[q]
          /\ w.pc = "wait" /\ put'[p].pc = (IF ok THEN "wait" ELSE "error")
          /\ ok => put'[p].leaves = Append(F, t.key)
      BY ZenonT(60), <1>1, <2>2, <3>1, EndTailPut
    <3>3. \A i \in 1..Len(F) : F[i] \in Kept'
      BY <1>0, <1>1, <3>2 DEF KeptInv
    <3>4. F \in Seq(LeafKeys) /\ t.key \in LeafKeys /\ Len(F) \in Nat
      BY ZenonT(60), <1>1, <2>2, LenProperties DEF WriterRecord, WriterTypes
    <3> HIDE DEF F
    <3>5. CASE ok
      <4> DEFINE G == Append(F, t.key)
      <4>1. /\ Len(G) = Len(F) + 1 /\ \A i \in 1..Len(F) : G[i] = F[i]
            /\ G[Len(F) + 1] = t.key
        BY <3>4, AppendProperties
      <4>2. put'[p].leaves = G /\ put'[p].pc = "wait"
        BY <3>2, <3>5
      <4> HIDE DEF G
      <4>3. \A i \in 1..Len(G) : i \in 1..Len(F) \/ i = Len(F) + 1
        BY <3>4, <4>1
      <4>4. t.key \in Kept'
        BY <3>5
      <4>5. \A i \in 1..Len(G) : G[i] \in Kept'
        BY <3>3, <4>1, <4>3, <4>4
      <4> QED BY <3>2, <4>2, <4>5 DEF KeptInv
    <3>6. CASE ~ok
      BY <3>2, <3>6 DEF KeptInv
    <3> QED BY <3>5, <3>6
  <2>3. CASE t.kind = "root"
    <3>1. EndRoot(t, ok)
      BY <2>3 DEF End
    <3>2. /\ \A q \in Puts : q # p => put'[q] = put[q]
          /\ w.pc = "wait" /\ put'[p].pc = (IF ok THEN "ok" ELSE "error")
          /\ put'[p].leaves = w.leaves /\ t.key = RootHash(w.leaves)
      BY <1>1, <2>3, <3>1, EndRootPut
    <3>3. \A i \in 1..Len(w.leaves) : w.leaves[i] \in Kept'
      BY <1>0, <1>1, <3>2 DEF KeptInv
    <3>4. ok => RootHash(w.leaves) \in Kept'
      BY <3>2
    <3> HIDE DEF w
    <3> QED BY <3>2, <3>3, <3>4 DEF KeptInv
  <2> QED BY <1>1, <2>1, <2>2, <2>3
<1> QED BY <1>0, <1>2, RecordKept

\* A goroutine moves on or ends, and no blob a Put relies on goes away.
LEMMA TaskStep ==
  ASSUME WriterInv, NEW t \in tasks, UNCHANGED <<crc, verify, piece>>, Kept \subseteq Kept',
         \/ \E s \in {"check", "put", "open", "verify"} : Stage(t, s)
         \/ \E ok \in BOOLEAN : End(t, ok) /\ (ok => t.key \in Kept')
  PROVE  /\ WriterTypes' /\ (\A p \in Puts : OnePut(p)' /\ KeptInv(p)')
         /\ \A u \in tasks : u # t => u \in tasks'
<1>1. WriterTypes /\ \A p \in Puts : OnePut(p) /\ KeptInv(p)
  BY DEF WriterInv
<1>2. crc' = crc /\ verify' = verify /\ piece' = piece /\ Kept \subseteq Kept'
  OBVIOUS
<1>3. CASE \E s \in {"check", "put", "open", "verify"} : Stage(t, s)
  <2>1. PICK s \in {"check", "put", "open", "verify"} : Stage(t, s)
    BY <1>3
  <2>2. put' = put /\ \A u \in tasks : u # t => u \in tasks'
    BY <2>1 DEF Stage
  <2>3. /\ \A p \in Puts : OnePut(p)'
        /\ tasks' \in SUBSET TaskRecord
        /\ \A u \in tasks' : u.kind # "root" => u.key \in LeafKeys
    BY <1>1, <1>2, <2>1, StagePut
  <2>4. \A p \in Puts : KeptInv(p)'
    BY <1>1, <1>2, <2>2, RecordKept
  <2>5. WriterTypes'
    BY <1>1, <1>2, <2>2, <2>3 DEF WriterTypes
  <2> QED BY <2>2, <2>3, <2>4, <2>5
<1>4. CASE \E ok \in BOOLEAN : End(t, ok) /\ (ok => t.key \in Kept')
  <2>1. PICK ok \in BOOLEAN : End(t, ok) /\ (ok => t.key \in Kept')
    BY <1>4
  <2>2. /\ put' \in [Puts -> WriterRecord]
        /\ \A q \in Puts : OnePut(q)'
        /\ tasks' \in SUBSET TaskRecord
        /\ \A u \in tasks' : u.kind # "root" => u.key \in LeafKeys
        /\ \A u \in tasks : u # t => u \in tasks'
    BY <1>1, <1>2, <2>1, EndPut
  <2>3. \A q \in Puts : KeptInv(q)'
    BY <1>1, <1>2, <2>1, EndKept
  <2>4. WriterTypes'
    BY <1>1, <1>2, <2>2 DEF WriterTypes
  <2> QED BY <2>2, <2>3, <2>4
<1> QED BY <1>3, <1>4

\* Nothing is written: the blobs stay what they were, and so does every Put's
\* reliance on them.
LEMMA SameBlobs ==
  ASSUME UNCHANGED <<crc, blobs>>
  PROVE  Kept' = Kept
BY DEF Kept

\* A blob that is replaced by the whole of what its key stands for is kept, and
\* so are the others; on a local directory they are whatever is written.
LEMMA SetKept ==
  ASSUME NEW k, NEW n, SetBlob(k, n), crc' = crc, crc => n = Size(k)
  PROVE  Kept \subseteq Kept' /\ k \in Kept'
<1>1. /\ DOMAIN blobs' = DOMAIN blobs \union {k} /\ blobs'[k] = n
      /\ \A key \in DOMAIN blobs : key # k => blobs'[key] = blobs[key]
  BY DEF SetBlob
<1> QED BY <1>1 DEF Kept

\* A step without a write, or with one that fails before it touches the blob.
LEMMA NoWrite ==
  ASSUME BlobInv, UNCHANGED <<crc, blobs, damaged>>, NEW t \in tasks, t.stage # "open",
         \A u \in tasks : u # t => u \in tasks'
  PROVE  BlobInv'
BY DEF BlobInv, Whole

\* writeBlob and the backend calls it makes.
LEMMA BlobSteps ==
  ASSUME WriterInv, NEW t \in tasks, BlobStep(t)
  PROVE  WriterInv'
<1>0. BlobInv /\ WriterTypes /\ t.stage \in {"check", "put", "open", "verify"}
  BY DEF WriterInv, WriterTypes, TaskRecord
<1>1. CASE CheckBlob(t)
  <2>1. /\ t.stage = "check" /\ UNCHANGED <<crc, verify, piece, blobs, damaged>>
        /\ \/ Stage(t, "put")
           \/ End(t, TRUE) /\ t.key \in Kept
    BY ZenonT(60), <1>1 DEF CheckBlob, ExistsAndValidBlob, Kept
  <2>2. Kept' = Kept
    BY <2>1, SameBlobs
  <2>3. /\ WriterTypes' /\ (\A p \in Puts : OnePut(p)' /\ KeptInv(p)')
        /\ \A u \in tasks : u # t => u \in tasks'
    BY ZenonT(60), <2>1, <2>2, TaskStep
  <2>4. BlobInv'
    BY <1>0, <2>1, <2>3, NoWrite
  <2> QED BY <2>3, <2>4 DEF WriterInv
<1>2. CASE Verify(t)
  <2>1. /\ t.stage = "verify" /\ UNCHANGED <<crc, verify, piece, blobs, damaged>>
        /\ End(t, VerifyBlob(t.key)) /\ VerifyBlob(t.key) \in BOOLEAN
        /\ VerifyBlob(t.key) => t.key \in Kept
    BY <1>2 DEF Verify, VerifyBlob, Whole, Kept
  <2>2. Kept' = Kept
    BY <2>1, SameBlobs
  <2>3. \E ok \in BOOLEAN : End(t, ok) /\ (ok => t.key \in Kept')
    BY <2>1, <2>2
  <2>4. /\ WriterTypes' /\ (\A p \in Puts : OnePut(p)' /\ KeptInv(p)')
        /\ \A u \in tasks : u # t => u \in tasks'
    BY <2>1, <2>2, <2>3, TaskStep
  <2>5. BlobInv'
    BY <1>0, <2>1, <2>4, NoWrite
  <2> QED BY <2>4, <2>5 DEF WriterInv
<1>3. ASSUME t.stage = "put", End(t, FALSE), UNCHANGED <<crc, verify, piece, blobs, damaged>>
      PROVE  WriterInv'
  <2>1. Kept' = Kept
    BY <1>3, SameBlobs
  <2>2. /\ WriterTypes' /\ (\A p \in Puts : OnePut(p)' /\ KeptInv(p)')
        /\ \A u \in tasks : u # t => u \in tasks'
    BY ZenonT(60), <1>3, <2>1, TaskStep
  <2>3. BlobInv'
    BY <1>0, <1>3, <2>2, NoWrite
  <2> QED BY <2>2, <2>3 DEF WriterInv
<1>4. CASE PutCRC(t)
  <2>1. CASE SetBlob(t.key, Size(t.key)) /\ Written(t)
    <3>1. crc /\ UNCHANGED <<crc, verify, piece>>
      BY <1>4 DEF PutCRC
    <3>2. Kept \subseteq Kept' /\ t.key \in Kept'
      BY <2>1, <3>1, SetKept
    <3>3. Stage(t, "verify") \/ End(t, TRUE)
      BY ZenonT(60), <2>1 DEF Written
    <3>4. WriterTypes' /\ \A p \in Puts : OnePut(p)' /\ KeptInv(p)'
      BY ZenonT(60), <3>1, <3>2, <3>3, TaskStep
    <3>5. BlobInv'
      BY <3>1 DEF BlobInv
    <3> QED BY <3>4, <3>5 DEF WriterInv
  <2>2. CASE End(t, FALSE) /\ UNCHANGED blobs
    BY <1>3, <1>4, <2>2 DEF PutCRC
  <2> QED BY ZenonT(60), <1>4, <2>1, <2>2 DEF PutCRC
<1>5. CASE OpenFile(t)
  <2>1. CASE SetBlob(t.key, 0) /\ Stage(t, "open")
    <3>1. ~crc /\ t.stage = "put" /\ UNCHANGED <<crc, verify, piece, damaged>>
      BY <1>5 DEF OpenFile
    <3>2. Kept \subseteq Kept'
      BY <2>1, <3>1, SetKept
    <3>3. /\ WriterTypes' /\ (\A p \in Puts : OnePut(p)' /\ KeptInv(p)')
          /\ \A u \in tasks : u # t => u \in tasks'
      BY <2>1, <3>1, <3>2, TaskStep
    <3>4. \E u \in tasks' : u.key = t.key /\ u.stage = "open"
      <4> DEFINE v == [t EXCEPT !.stage = "open"]
      <4>1. v \in tasks'
        BY <2>1 DEF Stage
      <4>2. v.key = t.key /\ v.stage = "open"
        BY DEF WriterInv, WriterTypes, TaskRecord
      <4> QED BY ZenonT(60), <4>1, <4>2
    <3>5. /\ DOMAIN blobs' = DOMAIN blobs \union {t.key}
          /\ \A key \in DOMAIN blobs : key # t.key => blobs'[key] = blobs[key]
      BY <2>1 DEF SetBlob
    <3>6. BlobInv'
      BY <1>0, <3>1, <3>3, <3>4, <3>5 DEF BlobInv, Whole
    <3> QED BY <3>3, <3>6 DEF WriterInv
  <2>2. CASE End(t, FALSE) /\ UNCHANGED blobs
    BY <1>3, <1>5, <2>2 DEF OpenFile
  <2> QED BY ZenonT(60), <1>5, <2>1, <2>2 DEF OpenFile
<1>6. CASE WriteFile(t)
  <2>1. ~crc /\ t.stage = "open" /\ UNCHANGED <<crc, verify, piece>>
    BY <1>6 DEF WriteFile
  <2>2. PICK n : /\ SetBlob(t.key, n) /\ (Written(t) \/ End(t, FALSE))
                 /\ \/ n = Size(t.key) /\ damaged' = damaged
                    \/ damaged' = damaged \union {t.key}
    BY ZenonT(60), <1>6 DEF WriteFile
  <2>3. Kept \subseteq Kept' /\ t.key \in Kept'
    BY <2>1, <2>2, SetKept
  <2>4. Stage(t, "verify") \/ End(t, TRUE) \/ End(t, FALSE)
    BY ZenonT(60), <2>2 DEF Written
  <2>5. /\ WriterTypes' /\ (\A p \in Puts : OnePut(p)' /\ KeptInv(p)')
        /\ \A u \in tasks : u # t => u \in tasks'
    BY ZenonT(60), <2>1, <2>3, <2>4, TaskStep
  <2>6. /\ DOMAIN blobs' = DOMAIN blobs \union {t.key} /\ blobs'[t.key] = n
        /\ \A key \in DOMAIN blobs : key # t.key => blobs'[key] = blobs[key]
    BY <2>2 DEF SetBlob
  <2>7. BlobInv'
    <3>1. SUFFICES ASSUME NEW key \in DOMAIN blobs'
                   PROVE  \/ Whole(key)' \/ key \in damaged'
                          \/ \E u \in tasks' : u.key = key /\ u.stage = "open"
      BY DEF BlobInv
    <3>2. CASE key = t.key
      BY <2>2, <2>6, <3>2 DEF Whole
    <3>3. CASE key # t.key
      <4>1. key \in DOMAIN blobs /\ blobs'[key] = blobs[key]
        BY <2>6, <3>3
      <4>2. \/ Whole(key) \/ key \in damaged
            \/ \E u \in tasks : u.key = key /\ u.stage = "open"
        BY <1>0, <2>1, <4>1 DEF BlobInv
      <4> QED BY <2>2, <2>5, <3>3, <4>1, <4>2 DEF Whole
    <3> QED BY <3>2, <3>3
  <2> QED BY <2>5, <2>7 DEF WriterInv
<1> QED BY <1>1, <1>2, <1>4, <1>5, <1>6 DEF BlobStep

\* io.Copy, Write and Flush.
LEMMA PutSteps ==
  ASSUME WriterInv, NEW p \in Puts, PutStep(p)
  PROVE  WriterInv'
<1>0. BlobInv /\ WriterTypes /\ \A q \in Puts : OnePut(q) /\ KeptInv(q)
  BY DEF WriterInv
<1>1. UNCHANGED <<crc, verify, piece, blobs, damaged>>
  BY ZenonT(60) DEF PutStep, Write, Flush
<1>2. Kept' = Kept
  BY <1>1, SameBlobs
<1>3. CASE Write(p)
  <2>1. /\ put' \in [Puts -> WriterRecord] /\ put'[p].pc = "copy"
        /\ put'[p].flushes = put[p].flushes
        /\ \A q \in Puts : OnePut(q)'
        /\ \A q \in Puts : q # p => put'[q] = put[q]
        /\ tasks \subseteq tasks'
        /\ tasks' \in SUBSET TaskRecord
        /\ \A t \in tasks' : t.kind # "root" => t.key \in LeafKeys
    BY <1>0, <1>3, WritePut
  <2>2. KeptInv(p)'
    <3>1. put[p].pc = "copy"
      BY <1>3 DEF Write
    <3> QED BY <1>0, <1>2, <2>1, <3>1 DEF KeptInv
  <2>3. \A q \in Puts : KeptInv(q)'
    BY <1>0, <1>2, <2>1, <2>2, RecordKept
  <2>4. WriterTypes'
    BY <1>0, <1>1, <2>1 DEF WriterTypes
  <2>5. BlobInv'
    BY <1>0, <1>1, <2>1 DEF BlobInv, Whole
  <2> QED BY <2>1, <2>3, <2>4, <2>5 DEF WriterInv
<1>4. CASE Flush(p)
  <2>1. /\ put' \in [Puts -> WriterRecord]
        /\ \A q \in Puts : q # p => put'[q] = put[q]
        /\ put[p].pc = "copy" /\ put'[p].pc \in {"wait", "error"}
        /\ put'[p].pc = "wait" =>
             \A i \in 1..Len(put'[p].leaves) :
               \E j \in 1..Len(put[p].flushes) : put'[p].leaves[i] = put[p].flushes[j].key
        /\ tasks' = tasks \/ \E u \in TaskRecord : /\ u.put = p /\ tasks' = tasks \union {u}
                                                   /\ u.kind # "root" => u.key \in LeafKeys
        /\ OnePut(p)'
    BY <1>0, <1>4, FlushPut
  <2>2. KeptInv(p)'
    <3>1. \A j \in 1..Len(put[p].flushes) : put[p].flushes[j].key \in Kept'
      BY ZenonT(60), <1>0, <1>2, <2>1 DEF KeptInv
    <3> QED BY ZenonT(60), <2>1, <3>1 DEF KeptInv
  <2>3. \A q \in Puts : KeptInv(q)'
    BY ZenonT(60), <1>0, <1>2, <2>1, <2>2, RecordKept
  <2>7. PICK U \in SUBSET TaskRecord :
          /\ tasks' = tasks \union U
          /\ \A u \in U : u.put = p /\ (u.kind # "root" => u.key \in LeafKeys)
    <3>1. CASE tasks' = tasks
      <4>1. tasks' = tasks \union {}
        BY <3>1
      <4> WITNESS {} \in SUBSET TaskRecord
      <4> QED BY ZenonT(60), <4>1
    <3>2. CASE tasks' # tasks
      <4>1. PICK u \in TaskRecord : /\ u.put = p /\ tasks' = tasks \union {u}
                                    /\ u.kind # "root" => u.key \in LeafKeys
        BY <2>1, <3>2
      <4>2. \A v \in {u} : v.put = p /\ (v.kind # "root" => v.key \in LeafKeys)
        BY <4>1
      <4>3. tasks' = tasks \union {u}
        BY <4>1
      <4> WITNESS {u} \in SUBSET TaskRecord
      <4> QED BY ZenonT(60), <4>2, <4>3
    <3> QED BY <3>1, <3>2
  <2>4. ASSUME NEW q \in Puts, q # p PROVE OnePut(q)'
    <3>1. TasksOf(q)' = TasksOf(q)
      BY <2>4, <2>7 DEF TasksOf
    <3> QED BY <1>0, <1>1, <2>1, <2>4, <3>1, PutKept
  <2>5. tasks \subseteq tasks' /\ WriterTypes'
    BY <1>0, <1>1, <2>1, <2>7 DEF WriterTypes
  <2>6. BlobInv'
    BY <1>0, <1>1, <2>5 DEF BlobInv, Whole
  <2> QED BY <2>1, <2>3, <2>4, <2>5, <2>6 DEF WriterInv
<1> QED BY <1>3, <1>4 DEF PutStep

\* A process that dies takes its goroutines along; a file it had open is damaged.
LEMMA CrashStep ==
  ASSUME WriterInv, NEW p \in Puts, Crash(p)
  PROVE  WriterInv'
<1>0. BlobInv /\ WriterTypes /\ put[p] \in WriterRecord /\ \A q \in Puts : OnePut(q) /\ KeptInv(q)
  BY DEF WriterInv, WriterTypes
<1>1. /\ UNCHANGED <<crc, verify, piece, blobs>>
      /\ tasks' = {t \in tasks : t.put # p}
      /\ damaged' = damaged \union {t.key : t \in {u \in tasks : u.put = p /\ u.stage = "open"}}
  BY DEF Crash
<1> DEFINE r == [put[p] EXCEPT !.pc = "crashed"]
<1>2. r \in WriterRecord /\ r.pc = "crashed"
  BY ZenonT(60), <1>0 DEF WriterRecord
<1>3. put' = [put EXCEPT ![p] = r]
  BY DEF Crash
<1> HIDE DEF r
<1>4. put' \in [Puts -> WriterRecord] /\ put'[p] = r /\ \A q \in Puts : q # p => put'[q] = put[q]
  BY <1>0, <1>2, <1>3, PutReplaced DEF WriterTypes
<1>5. Kept' = Kept
  BY <1>1, SameBlobs
<1>6. OnePut(p)'
  <2>1. TasksOf(p)' = {}
    BY <1>1 DEF TasksOf
  <2> QED BY <1>2, <1>4, <2>1 DEF OnePut
<1>7. ASSUME NEW q \in Puts, q # p PROVE OnePut(q)'
  <2>1. TasksOf(q)' = TasksOf(q)
    BY <1>1, <1>7 DEF TasksOf
  <2> QED BY <1>0, <1>1, <1>4, <1>7, <2>1, PutKept
<1>8. \A q \in Puts : KeptInv(q)'
  <2>1. KeptInv(p)'
    BY <1>2, <1>4 DEF KeptInv
  <2> QED BY <1>0, <1>4, <1>5, <2>1, RecordKept
<1>9. WriterTypes'
  BY <1>0, <1>1, <1>4 DEF WriterTypes
<1>10. BlobInv'
  <2>1. SUFFICES ASSUME ~crc, NEW key \in DOMAIN blobs
                 PROVE  \/ Whole(key)' \/ key \in damaged'
                        \/ \E u \in tasks' : u.key = key /\ u.stage = "open"
    BY <1>1 DEF BlobInv
  <2>2. \/ Whole(key) \/ key \in damaged
        \/ \E u \in tasks : u.key = key /\ u.stage = "open"
    BY <1>0, <2>1 DEF BlobInv
  <2>3. Whole(key)' = Whole(key)
    BY <1>1 DEF Whole
  <2> QED BY <1>1, <2>2, <2>3
<1> QED BY <1>6, <1>7, <1>8, <1>9, <1>10 DEF WriterInv

\* Before the first step nothing is read, and what an earlier upload left counts
\* as damaged.
LEMMA WriterStart == WriterInit => WriterInv
<1> SUFFICES ASSUME WriterInit PROVE WriterInv
  OBVIOUS
<1>1. NewWriter \in WriterRecord
  BY EmptySeq DEF NewWriter, WriterRecord
<1>2. put = [p \in Puts |-> NewWriter] /\ tasks = {} /\ damaged = DOMAIN blobs
  BY DEF WriterInit
<1>3. WriterTypes
  BY <1>1, <1>2 DEF WriterInit, WriterTypes
<1>4. ASSUME NEW p \in Puts PROVE OnePut(p) /\ KeptInv(p)
  <2>1. /\ put[p].pc = "copy" /\ put[p].read = 0 /\ put[p].written = 0 /\ put[p].buf = <<>>
        /\ put[p].count = 0 /\ put[p].flushes = <<>> /\ put[p].errors = 0
    BY <1>2 DEF NewWriter
  <2>2. Len(Src[p]) \in Nat /\ LeafSize \in Nat /\ LeafSize > 0
    BY Sources
  <2>3. SubSeq(Src[p], 1, 0) = <<>>
    BY SubSeqEmpty
  <2>4. 0 * LeafSize = 0 /\ 0 + 0 = 0 /\ 0 + 1 = 1
    BY <2>2
  <2>5. CopyInv(p)
    BY <2>1, <2>2, <2>3, <2>4 DEF CopyInv
  <2>6. TasksOf(p) = {}
    BY <1>2 DEF TasksOf
  <2>7. LeafInv(p)
    BY <2>1, <2>6 DEF LeafInv
  <2> QED BY <2>1, <2>5, <2>7 DEF OnePut, KeptInv
<1>5. BlobInv
  BY <1>2 DEF BlobInv
<1> QED BY <1>3, <1>4, <1>5 DEF WriterInv

\* The invariant of the uploads holds in every state.
THEOREM WriterInvariance == WriterSpec => []WriterInv
<1>1. ASSUME WriterInv, [WriterNext]_wVars PROVE WriterInv'
  <2>1. CASE UNCHANGED wVars
    <3>1. UNCHANGED <<crc, verify, piece, blobs, put, tasks, damaged>>
      BY <2>1 DEF wVars
    <3>2. WriterTypes'
      BY <1>1, <3>1 DEF WriterInv, WriterTypes
    <3>3. Kept' = Kept
      BY <3>1, SameBlobs
    <3>4. \A p \in Puts : OnePut(p)' /\ KeptInv(p)'
      <4>1. \A p \in Puts : TasksOf(p)' = TasksOf(p)
        BY <3>1 DEF TasksOf
      <4> QED BY <1>1, <3>1, <3>3, <4>1, PutKept, RecordKept DEF WriterInv
    <3>5. BlobInv'
      BY <1>1, <3>1 DEF WriterInv, BlobInv, Whole
    <3> QED BY <3>2, <3>4, <3>5 DEF WriterInv
  <2>2. CASE WriterNext
    BY <1>1, <2>2, PutSteps, BlobSteps, CrashStep DEF WriterNext, Upload
  <2> QED BY <1>1, <2>1, <2>2
<1> QED BY <1>1, WriterStart, PTL DEF WriterSpec

\* A Put that returns names its content: the leaves are those of the source, in
\* order, whatever the order in which the pFlush goroutines ended, however
\* io.Copy cut the stream and whatever the leaf size.
THEOREM PutNamesContent == WriterSpec => []PutKeys
<1>1. WriterInv => PutKeys
  BY DEF WriterInv, OnePut, PutKeys
<1> QED BY <1>1, WriterInvariance, PTL

\* The blobs of a Put that returned are in the backend and whole, also after
\* failures and crashes of the others; on a local directory unless a write of
\* the blob was cut off or is in progress.
THEOREM PutIsDurable == WriterSpec => []PutDurable
<1>1. ASSUME WriterInv PROVE PutDurable
  <2>1. SUFFICES ASSUME NEW p \in Puts, put[p].pc = "ok", NEW key \in KeysOf(Src[p])
                 PROVE  \/ Whole(key)
                        \/ ~crc /\ (key \in damaged \/ \E t \in tasks : t.key = key /\ t.stage = "open")
    BY DEF PutDurable
  <2>2. OnePut(p) /\ KeptInv(p) /\ BlobInv /\ put[p].leaves \in Seq(LeafKeys)
    BY <1>1 DEF WriterInv, WriterTypes, WriterRecord
  <2>3. put[p].leaves = LeafKeysOf(Src[p])
    BY <2>1, <2>2 DEF OnePut
  <2>4. /\ \A i \in 1..Len(put[p].leaves) : put[p].leaves[i] \in Kept
        /\ RootHash(put[p].leaves) \in Kept
    BY <2>1, <2>2 DEF KeptInv
  <2>5. DOMAIN put[p].leaves = 1..Len(put[p].leaves)
    BY <2>2, LenProperties
  <2>6. key \in Kept
    BY <2>1, <2>3, <2>4, <2>5 DEF KeysOf, Range
  <2> QED BY <1>1, <2>2, <2>6 DEF Kept, BlobInv, Whole
<1> QED BY <1>1, WriterInvariance, PTL
=============================================================================
