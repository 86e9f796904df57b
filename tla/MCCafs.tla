------------------------------- MODULE MCCafs -------------------------------
(***************************************************************************)
(* The blob store: two uploads that share their first leaf, and then the   *)
(* readers of the longer file; and, apart from these, the migration of a   *)
(* directory tree into the store and back.                                 *)
(***************************************************************************)
EXTENDS CafsReader, Migrate, TLC

MCSrc == [p \in {"p1", "p2"} |->
            IF p = "p1" THEN <<"a", "b", "c", "d", "e", "f", "g">> ELSE <<"a", "b", "c">>]
MCRequests == [t \in {"r1", "r2"} |->
                 IF t = "r1" THEN {[off |-> 0, len |-> 8]}
                 ELSE {[off |-> 0, len |-> 2], [off |-> 4, len |-> 2], [off |-> 8, len |-> 1]}]

D(dirs, files) == [dirs |-> dirs, files |-> files]

MCDeep ==
  ("/" :> D(<<"a", "b">>, {})) @@ ("a" :> D(<<"c">>, {1})) @@ ("b" :> D(<<>>, {2}))
  @@ ("c" :> D(<<>>, {3}))

\* Directories with more subdirectories than there are goroutines: the walk of
\* these may end too early or not at all.
MCWide ==
  ("/" :> D(<<"a", "b", "c">>, {})) @@ ("a" :> D(<<"d">>, {1})) @@ ("b" :> D(<<>>, {}))
  @@ ("c" :> D(<<"e">>, {2})) @@ ("d" :> D(<<>>, {})) @@ ("e" :> D(<<>>, {}))
MCUneven == [d \in DOMAIN MCWide \ {"e"} |-> IF d = "c" THEN D(<<>>, {2}) ELSE MCWide[d]]

MCTrees == {MCDeep, MCWide, MCUneven}

Flags(maxC, workers, start) ==
  [dirRoutines |-> 2, maxC |-> maxC, workers |-> workers, start |-> start]
MCSettings == {Flags(3, 1, 0), Flags(2, 2, 1), Flags(1, 1, 0)}

vars == <<wVars, rVars, toolVars>>

\* Either the tool runs, or the store is used.
Init ==
  \/ /\ WriterInit /\ ReaderInit("put")
     /\ ToolInit("off") /\ tree = MCDeep /\ flags = Flags(3, 1, 0)
  \/ /\ ToolInit("generate")
     /\ WriterInit /\ ReaderInit("off") /\ ~crc /\ ~verify /\ piece = 2 /\ blobs = <<>>

Uploading == mode = "put" /\ Upload /\ UNCHANGED rVars

\* What a goroutine that runs does next; starting one, and failing, is not.
CafsProgress ==
  \/ Uploading
  \/ \E t \in Readers : ReadAtStep(t)
  \/ \E f \in pre : PrefetchStep(f)
  \/ \E b \in 1..Len(bufs) : Release(b)
  \/ StreamStep

Progress ==
  \/ stage = "off" /\ CafsProgress /\ UNCHANGED toolVars
  \/ stage # "off" /\ ToolStep /\ UNCHANGED <<wVars, rVars>>

CafsNext ==
  \/ mode = "put" /\ (\E p \in Puts : Crash(p)) /\ UNCHANGED rVars
  \/ OpenReader
  \/ \E t \in Readers : \E q \in Requests[t] : StartReadAt(t, q)

Next == Progress \/ (stage = "off" /\ CafsNext /\ UNCHANGED toolVars)

\* The scheduler does not stop while a goroutine can run.
Spec == Init /\ [][Next]_vars /\ WF_vars(Progress)
=============================================================================
