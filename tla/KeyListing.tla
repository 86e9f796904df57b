----------------------------- MODULE KeyListing -----------------------------
(***************************************************************************)
(* The listing of metadata objects in batches (pkg/core/keys.go, watch.go  *)
(* and the *_list.go files): a pipeline of goroutines                      *)
(*                                                                         *)
(*   fetchKeys -> [mergeKeys ->] fetchSplits -> collector -> apply         *)
(*                                                                         *)
(* joined by channels.  Bundles, repos, labels and contexts have one key   *)
(* per object; splits and diamonds have a key per state, and mergeKeys     *)
(* keeps one of them.  A page of keys or the descriptors of a batch may    *)
(* fail to be read, the applied function may return an error, and          *)
(* watchForInterrupts then passes on an interruption.  The List functions  *)
(* without an applied function are those where apply never fails.          *)
(*                                                                         *)
(* Abstractions: the keys do not change during a listing (Diamond covers   *)
(* what a listing may miss); the parallel fetch of a batch of descriptors  *)
(* is one step.                                                            *)
(***************************************************************************)
EXTENDS Naturals, Sequences, SequencesExt

CONSTANTS
    NumObjects,  \* objects in the store, in the order of their keys
    BatchSizes   \* numbers of keys in a page

ASSUME SizesAssumption == NumObjects \in Nat /\ BatchSizes \subseteq Nat \ {0}

VARIABLES
    merging,     \* whether objects have a key per state
    keys,        \* the keys in the store, sorted
    readable,    \* the objects that have a descriptor
    batchSize,   \* keys in a page
    fetcher,     \* fetchKeys: where it is, its place in keys, what it sends
    merger,      \* mergeKeys: where it is, pending final states, what it sends
    getter,      \* fetchSplits: where it is, what it sends
    collector,   \* doSelectSplits: where it is, batch in hand, its error
    applier,     \* the applied function: where it is, whether it failed
    watcher,     \* where watchForInterrupts is
    unfiltered, keysChan, batchChan, doneChan, doneWithKeys, doneWithSplits,
    applied,     \* the objects that apply was called with
    faults       \* the kinds of faults that happened

chans == <<unfiltered, keysChan, batchChan, doneChan, doneWithKeys, doneWithSplits>>
procs == <<fetcher, merger, getter, collector, applier, watcher>>
store == <<merging, keys, readable, batchSize>>
vars == <<store, procs, chans, applied, faults>>

-----------------------------------------------------------------------------
(***************************************************************************)
(* Channels of capacity one, and what travels on them.                     *)
(***************************************************************************)
Objects == 1 .. NumObjects
Key == [obj : Objects, form : {"entry", "index", "final", "running"}]
NoError == "none"
Batch(ks) == [items |-> ks, err |-> NoError]
Failure(e) == [items |-> <<>>, err |-> e]

NewChan == [buf |-> <<>>, closed |-> FALSE]
HasRoom(ch) == ch.buf = <<>>
Put(ch, m) == [ch EXCEPT !.buf = <<m>>]
Close(ch) == [ch EXCEPT !.closed = TRUE]
Ended(ch) == ch.buf = <<>> /\ ch.closed

\* The keys of object o: an entry, or a key per state and maybe index files.
KeysOf(o, forms) ==
    LET present == SelectSeq(<<"index", "final", "running">>, LAMBDA f : f \in forms)
    IN [i \in 1 .. Len(present) |-> [obj |-> o, form |-> present[i]]]

Entries == [o \in Objects |-> [obj |-> o, form |-> "entry"]]

Init ==
    /\ merging \in BOOLEAN
    /\ \/ /\ ~merging
          /\ keys = Entries
          /\ readable \in SUBSET Objects
       \/ /\ merging
          /\ \E extra \in [Objects -> SUBSET {"index", "final"}] :
                keys = FlattenSeq([o \in Objects |->
                                     KeysOf(o, extra[o] \cup {"running"})])
          /\ readable = Objects
    /\ batchSize \in BatchSizes
    /\ fetcher = [pc |-> "read", next |-> 1, out |-> Batch(<<>>)]
    /\ merger = [pc |-> IF merging THEN "receive" ELSE "ended", states |-> {},
                 out |-> Batch(<<>>)]
    /\ getter = [pc |-> "select", out |-> Batch(<<>>)]
    /\ collector = [pc |-> "receive", items |-> <<>>, err |-> NoError]
    /\ applier = [pc |-> "receive", failed |-> FALSE]
    /\ watcher = "wait"
    /\ unfiltered = NewChan
    /\ keysChan = NewChan
    /\ batchChan = NewChan
    /\ doneChan = NewChan
    /\ doneWithKeys = NewChan
    /\ doneWithSplits = NewChan
    /\ applied = <<>>
    /\ faults = {}

-----------------------------------------------------------------------------
(***************************************************************************)
(* fetchKeys.                                                              *)
(***************************************************************************)

\* A page of keys, of which only the descriptors in any state are retained.
PageEnd == LET e == fetcher.next + batchSize - 1
           IN IF e > Len(keys) THEN Len(keys) ELSE e
basenameKeyFilter(page) == SelectSeq(page, LAMBDA k : k.form # "index")

\* The channel fetchKeys writes to, and how it is changed.
FetcherOut == IF merging THEN unfiltered ELSE keysChan
SetFetcherOut(ch) ==
    IF merging THEN unfiltered' = ch /\ UNCHANGED keysChan
               ELSE keysChan' = ch /\ UNCHANGED unfiltered

\* A page is read. A page without a key, which may be one without a key that
\* is retained, ends the listing.
FetchPage ==
    LET ks == basenameKeyFilter(SubSeq(keys, fetcher.next, PageEnd)) IN
    /\ fetcher.pc = "read"
    /\ \/ /\ ks # <<>>
          /\ fetcher' = [pc |-> "send", next |-> PageEnd + 1, out |-> Batch(ks)]
          /\ UNCHANGED <<unfiltered, keysChan>>
       \/ /\ ks = <<>>
          /\ fetcher' = [fetcher EXCEPT !.pc = "ended"]
          /\ SetFetcherOut(Close(FetcherOut))
    /\ UNCHANGED <<store, merger, getter, collector, applier,
                   watcher, batchChan, doneChan, doneWithKeys, doneWithSplits,
                   applied, faults>>

\* A page cannot be read.
FailPage ==
    /\ fetcher.pc = "read"
    /\ fetcher' = [fetcher EXCEPT !.pc = "send", !.out = Failure("page")]
    /\ faults' = faults \cup {"page"}
    /\ UNCHANGED <<store, merger, getter, collector, applier,
                   watcher, chans, applied>>

\* Mutant: the page that ends one key before the last is taken for the last.
SendPageStopsEarly ==
    LET last == fetcher.out.err # NoError \/ fetcher.next >= Len(keys)
        sent == Put(FetcherOut, fetcher.out) IN
    /\ fetcher.pc = "send"
    /\ HasRoom(FetcherOut)
    /\ SetFetcherOut(IF last THEN Close(sent) ELSE sent)
    /\ fetcher' = [fetcher EXCEPT !.pc = IF last THEN "ended" ELSE "read"]
    /\ UNCHANGED <<store, merger, getter, collector, applier, watcher, batchChan,
                   doneChan, doneWithKeys, doneWithSplits, applied, faults>>

\* The page or the error is sent; there is no next page after the last one.
SendPage ==
    LET last == fetcher.out.err # NoError \/ fetcher.next > Len(keys)
        sent == Put(FetcherOut, fetcher.out) IN
    /\ fetcher.pc = "send"
    /\ HasRoom(FetcherOut)
    /\ SetFetcherOut(IF last THEN Close(sent) ELSE sent)
    /\ fetcher' = [fetcher EXCEPT !.pc = IF last THEN "ended" ELSE "read"]
    /\ UNCHANGED <<store, merger, getter, collector, applier,
                   watcher, batchChan, doneChan, doneWithKeys, doneWithSplits,
                   applied, faults>>

\* fetchKeys is told to stop while it waits to send.
InterruptKeys ==
    /\ fetcher.pc = "send"
    /\ doneWithKeys.buf # <<>>
    /\ doneWithKeys' = NewChan
    /\ fetcher' = [fetcher EXCEPT !.pc = "ended"]
    /\ SetFetcherOut(
          Close(IF HasRoom(FetcherOut) THEN Put(FetcherOut, Failure("interrupted"))
                                       ELSE FetcherOut))
    /\ UNCHANGED <<store, merger, getter, collector, applier,
                   watcher, batchChan, doneChan, doneWithSplits, applied, faults>>

-----------------------------------------------------------------------------
(***************************************************************************)
(* mergeKeys.                                                              *)
(***************************************************************************)

\* Mutant: every key is settled at once.
MergeKeyAtOnce(acc, k) == [acc EXCEPT !.out = Append(@, k)]

\* A key is settled when it is the second one of its object, or the only one
\* and not final; a final state is preferred over a running one.
MergeKey(acc, k) ==
    IF k.form = "running" \/ k.obj \in acc.states
      THEN [states |-> acc.states \ {k.obj},
            out |-> Append(acc.out,
                           IF k.obj \in acc.states THEN [k EXCEPT !.form = "final"] ELSE k)]
      ELSE [acc EXCEPT !.states = @ \cup {k.obj}]

\* A batch is merged. An error that came with it is dropped.
MergeBatch ==
    /\ merger.pc = "receive"
    /\ unfiltered.buf # <<>>
    /\ LET acc == FoldLeft(MergeKey, [states |-> merger.states, out |-> <<>>],
                           unfiltered.buf[1].items)
       IN merger' = [pc |-> "send", states |-> acc.states, out |-> Batch(acc.out)]
    /\ unfiltered' = [unfiltered EXCEPT !.buf = <<>>]
    /\ UNCHANGED <<store, fetcher, getter, collector, applier,
                   watcher, keysChan, batchChan, doneChan, doneWithKeys,
                   doneWithSplits, applied, faults>>

\* The merged batch is sent, however long that takes.
SendMerged ==
    /\ merger.pc = "send"
    /\ HasRoom(keysChan)
    /\ keysChan' = Put(keysChan, merger.out)
    /\ merger' = [merger EXCEPT !.pc = "receive"]
    /\ UNCHANGED <<store, fetcher, getter, collector, applier,
                   watcher, unfiltered, batchChan, doneChan, doneWithKeys,
                   doneWithSplits, applied, faults>>

EndMerge ==
    /\ merger.pc = "receive"
    /\ Ended(unfiltered)
    /\ keysChan' = Close(keysChan)
    /\ merger' = [merger EXCEPT !.pc = "ended"]
    /\ UNCHANGED <<store, fetcher, getter, collector, applier,
                   watcher, unfiltered, batchChan, doneChan, doneWithKeys,
                   doneWithSplits, applied, faults>>

-----------------------------------------------------------------------------
(***************************************************************************)
(* fetchSplits, fetchBundles...                                            *)
(***************************************************************************)

\* A batch of keys is received: an error is passed on, the descriptors of the
\* keys are fetched, those that do not exist are skipped.
GetBatch ==
    /\ getter.pc = "select"
    /\ keysChan.buf # <<>>
    /\ keysChan' = [keysChan EXCEPT !.buf = <<>>]
    /\ LET ev == keysChan.buf[1] IN
       \/ /\ ev.err # NoError
          /\ getter' = [pc |-> "last", out |-> ev]
          /\ UNCHANGED faults
       \/ /\ ev.err = NoError
          /\ getter' = [pc |-> "send",
                        out |-> Batch(SelectSeq(ev.items, LAMBDA k : k.obj \in readable))]
          /\ UNCHANGED faults
       \/ /\ ev.err = NoError /\ ev.items # <<>>
          /\ getter' = [pc |-> "signal", out |-> Failure("descriptor")]
          /\ faults' = faults \cup {"descriptor"}
    /\ UNCHANGED <<store, fetcher, merger, collector, applier,
                   watcher, unfiltered, batchChan, doneChan, doneWithKeys,
                   doneWithSplits, applied>>

\* No more keys.
EndGet ==
    /\ getter.pc = "select"
    /\ Ended(keysChan)
    /\ batchChan' = Close(batchChan)
    /\ getter' = [getter EXCEPT !.pc = "ended"]
    /\ UNCHANGED <<store, fetcher, merger, collector, applier,
                   watcher, unfiltered, keysChan, doneChan, doneWithKeys,
                   doneWithSplits, applied, faults>>

\* The caller wants it to stop.
InterruptGet ==
    /\ getter.pc = "select"
    /\ doneWithSplits.buf # <<>>
    /\ doneWithSplits' = NewChan
    /\ getter' = [pc |-> "last", out |-> Failure("interrupted")]
    /\ UNCHANGED <<store, fetcher, merger, collector, applier,
                   watcher, unfiltered, keysChan, batchChan, doneChan,
                   doneWithKeys, applied, faults>>

\* Mutant: fetchKeys is not told to stop.
SignalNobody ==
    /\ getter.pc = "signal"
    /\ getter' = [getter EXCEPT !.pc = "last"]
    /\ UNCHANGED <<store, fetcher, merger, collector, applier, watcher, chans,
                   applied, faults>>

\* Descriptors could not be fetched: fetchKeys is told to stop.
SignalKeys ==
    /\ getter.pc = "signal"
    /\ HasRoom(doneWithKeys)
    /\ doneWithKeys' = Put(doneWithKeys, "done")
    /\ getter' = [getter EXCEPT !.pc = "last"]
    /\ UNCHANGED <<store, fetcher, merger, collector, applier,
                   watcher, unfiltered, keysChan, batchChan, doneChan,
                   doneWithSplits, applied, faults>>

\* Descriptors are sent, or the error that ends the fetch.
SendBatch ==
    LET sent == Put(batchChan, getter.out) IN
    /\ getter.pc \in {"send", "last"}
    /\ HasRoom(batchChan)
    /\ batchChan' = IF getter.pc = "last" THEN Close(sent) ELSE sent
    /\ getter' = [getter EXCEPT !.pc = IF @ = "last" THEN "ended" ELSE "select"]
    /\ UNCHANGED <<store, fetcher, merger, collector, applier,
                   watcher, unfiltered, keysChan, doneChan, doneWithKeys,
                   doneWithSplits, applied, faults>>

-----------------------------------------------------------------------------
(***************************************************************************)
(* The collector of batches, the applied function, watchForInterrupts.     *)
(***************************************************************************)
ReceiveBatch ==
    /\ collector.pc = "receive"
    /\ batchChan.buf # <<>>
    /\ batchChan' = [batchChan EXCEPT !.buf = <<>>]
    /\ LET ev == batchChan.buf[1] IN
       collector' = [pc |-> IF ev.err # NoError THEN "clean"
                            ELSE IF ev.items # <<>> THEN "transfer" ELSE "receive",
                     items |-> ev.items, err |-> ev.err]
    /\ UNCHANGED <<store, fetcher, merger, getter, applier,
                   watcher, unfiltered, keysChan, doneChan, doneWithKeys,
                   doneWithSplits, applied, faults>>

EndReceive ==
    /\ collector.pc = "receive"
    /\ Ended(batchChan)
    /\ collector' = [collector EXCEPT !.pc = "clean"]
    /\ UNCHANGED <<store, fetcher, merger, getter, applier,
                   watcher, chans, applied, faults>>

\* The objects of a batch are handed to the applied function one by one; once
\* it has failed they are discarded.
Transfer ==
    /\ collector.pc = "transfer"
    /\ collector' = [collector EXCEPT !.items = Tail(@),
                                      !.pc = IF Len(collector.items) = 1
                                               THEN "receive" ELSE @]
    /\ \/ /\ applier.pc = "receive"
          /\ applier' = [applier EXCEPT !.pc = "apply"]
          /\ applied' = Append(applied, Head(collector.items))
       \/ /\ applier.pc = "drain"
          /\ UNCHANGED <<applier, applied>>
    /\ UNCHANGED <<store, fetcher, merger, getter, watcher,
                   chans, faults>>

\* The collector closes doneChan, unless the applied function did.
Clean ==
    /\ collector.pc = "clean"
    /\ collector' = [collector EXCEPT !.pc = "wait"]
    /\ doneChan' = Close(doneChan)
    /\ UNCHANGED <<store, fetcher, merger, getter, applier,
                   watcher, unfiltered, keysChan, batchChan, doneWithKeys,
                   doneWithSplits, applied, faults>>

\* It ends when all the goroutines of the listing have.
WaitWorkers ==
    /\ collector.pc = "wait"
    /\ {fetcher.pc, merger.pc, getter.pc, watcher} = {"ended"}
    /\ collector' = [collector EXCEPT !.pc = "ended"]
    /\ UNCHANGED <<store, fetcher, merger, getter, applier,
                   watcher, chans, applied, faults>>

ApplySucceeds ==
    /\ applier.pc = "apply"
    /\ applier' = [applier EXCEPT !.pc = "receive"]
    /\ UNCHANGED <<store, fetcher, merger, getter, collector,
                   watcher, chans, applied, faults>>

\* The applied function fails: the listing is interrupted, unless the
\* collector is done.
ApplyFails ==
    /\ applier.pc = "apply"
    /\ applier' = [pc |-> "drain", failed |-> TRUE]
    /\ faults' = faults \cup {"apply"}
    /\ doneChan' = IF doneChan.closed THEN doneChan ELSE Close(Put(doneChan, "done"))
    /\ UNCHANGED <<store, fetcher, merger, getter, collector,
                   watcher, unfiltered, keysChan, batchChan, doneWithKeys,
                   doneWithSplits, applied>>

\* The objects have all been applied or discarded: the caller returns.
Return ==
    /\ applier.pc \in {"receive", "drain"}
    /\ collector.pc = "ended"
    /\ applier' = [applier EXCEPT !.pc = "ended"]
    /\ UNCHANGED <<store, fetcher, merger, getter, collector,
                   watcher, chans, applied, faults>>

\* An interruption is passed on to fetchKeys, then to fetchSplits.
Watch ==
    /\ watcher = "wait"
    /\ \/ /\ doneChan.buf # <<>>
          /\ watcher' = "keys"
       \/ /\ Ended(doneChan)
          /\ watcher' = "ended"
    /\ doneChan' = [doneChan EXCEPT !.buf = <<>>]
    /\ UNCHANGED <<store, fetcher, merger, getter, collector,
                   applier, unfiltered, keysChan, batchChan, doneWithKeys,
                   doneWithSplits, applied, faults>>

Broadcast ==
    /\ \/ /\ watcher = "keys"
          /\ HasRoom(doneWithKeys)
          /\ doneWithKeys' = Put(doneWithKeys, "done")
          /\ watcher' = "splits"
          /\ UNCHANGED doneWithSplits
       \/ /\ watcher = "splits"
          /\ HasRoom(doneWithSplits)
          /\ doneWithSplits' = Put(doneWithSplits, "done")
          /\ watcher' = "ended"
          /\ UNCHANGED doneWithKeys
    /\ UNCHANGED <<store, fetcher, merger, getter, collector,
                   applier, unfiltered, keysChan, batchChan, doneChan, applied,
                   faults>>

-----------------------------------------------------------------------------
fetchKeys == FetchPage \/ FailPage \/ SendPage \/ InterruptKeys
mergeKeys == MergeBatch \/ SendMerged \/ EndMerge
fetchSplits == GetBatch \/ EndGet \/ InterruptGet \/ SignalKeys \/ SendBatch
Collect == ReceiveBatch \/ EndReceive \/ Transfer \/ Clean \/ WaitWorkers
Apply == ApplySucceeds \/ ApplyFails \/ Return
watchForInterrupts == Watch \/ Broadcast

Next == fetchKeys \/ mergeKeys \/ fetchSplits \/ Collect \/ Apply \/ watchForInterrupts

\* Every goroutine that can go on eventually does, and store calls return.
Fairness ==
    /\ WF_vars(fetchKeys)
    /\ WF_vars(mergeKeys)
    /\ WF_vars(fetchSplits)
    /\ WF_vars(Collect)
    /\ WF_vars(Apply)
    /\ WF_vars(watchForInterrupts)

Spec == Init /\ [][Next]_vars /\ Fairness

-----------------------------------------------------------------------------
(***************************************************************************)
(* Properties.                                                             *)
(***************************************************************************)
Returned == applier.pc = "ended"

\* What the caller of the listing gets.
Outcome ==
    IF collector.err = "interrupted" /\ applier.failed THEN "apply"
    ELSE IF collector.err # NoError THEN collector.err
    ELSE IF applier.failed THEN "apply"
    ELSE NoError

Pages == {i \in 1 .. Len(keys) : i % batchSize = 1 % batchSize}
PageAt(i) == SubSeq(keys, i, IF i + batchSize - 1 > Len(keys) THEN Len(keys)
                                                             ELSE i + batchSize - 1)
EmptyPage == \E i \in Pages : basenameKeyFilter(PageAt(i)) = <<>>
Forms(o) == {k.form : k \in {keys[i] : i \in {j \in 1 .. Len(keys) : keys[j].obj = o}}}

\* Objects are applied in the order of their keys and none twice, however the
\* keys of their states are spread over pages; a final state that exists hides
\* the running one.
ListedOnce ==
    /\ \A i, j \in 1 .. Len(applied) : i < j => applied[i].obj < applied[j].obj
    /\ \A i \in 1 .. Len(applied) :
          /\ applied[i].obj \in readable
          /\ applied[i].form = IF ~merging THEN "entry"
                               ELSE IF "final" \in Forms(applied[i].obj) THEN "final"
                               ELSE "running"

AllApplied == {applied[i].obj : i \in 1 .. Len(applied)} = readable

\* A listing that returns no error has applied all the objects, whatever the
\* faults and their timing. Where states are merged this holds of the listings
\* that met no page they could not read, and no page without a descriptor.
CompleteOrError ==
    /\ Returned /\ Outcome = NoError
    /\ merging => "page" \notin faults /\ ~EmptyPage
    => AllApplied

\* A listing returns. Two faults at once may block it where one may not, and
\* where states are merged a descriptor or an applied function that fails may.
Returns ==
    <>(\/ Returned
       \/ {"descriptor", "apply"} \subseteq faults
       \/ merging /\ faults \cap {"descriptor", "apply"} # {})

\* "ListSplits yields all ongoing splits on a repo and a given diamond": a
\* listing of splits that returns no error has yielded all of them.
YieldsAll == Returned /\ Outcome = NoError => AllApplied

\* A listing whose goroutines are told to stop returns.
AlwaysReturns == <>Returned
=============================================================================
