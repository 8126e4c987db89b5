----------------------------- MODULE MCIncrBuild -----------------------------
(***************************************************************************)
(* Small instances of IncrBuild.  Sizes are bytes and the page is the real *)
(* one.  In the builds run the region is two pages, of which the first     *)
(* build takes so much that some of the functions that outgrow their slots *)
(* can be moved and others cannot, so that a build has to start over.      *)
(***************************************************************************)
EXTENDS IncrBuildInv

CONSTANTS main, a, b, small, large, huge, lambda, asks, alone

MCFn == {main, a, b}
MCVersion == {small, large, huge, lambda, asks, alone}

\* main is small; a grows past its slot (large) and past the room it is then
\* given (huge); b outgrows its slot too, or owns a lambda, or needs a
\* routine nothing else does.
MCSize == [fv \in MCFn \X MCVersion |->
  CASE fv[1] = main -> IF fv[2] = small THEN 500 ELSE 560
    [] fv[1] = a -> (CASE fv[2] = small -> 700
                       [] fv[2] = large -> 1000
                       [] fv[2] = huge -> 1300
                       [] OTHER -> 780)
    [] OTHER -> (CASE fv[2] = small -> 600
                   [] fv[2] = large -> 900
                   [] OTHER -> 640)]

MCLam == [fv \in MCFn \X MCVersion |-> IF fv[2] = lambda THEN 100 ELSE 0]

MCRoutine == {"overflow", "concat", "write"}
MCNeeds == [fv \in MCFn \X MCVersion |->
  IF fv[2] = asks THEN {"concat"} ELSE {"overflow"}]
MCRtEdges == {<<"concat", "overflow">>}
MCStartNeeds == {"write"}

\* The routines in the order the runtime is written in.
MCRtOrder == <<"overflow", "concat", "write">>
MCRtBytes == [r \in MCRoutine |-> IF r = "concat" THEN 300 ELSE 120]
MCRtSum(S) == LET s(i) == IF MCRtOrder[i] \in S THEN MCRtBytes[MCRtOrder[i]] ELSE 0
              IN [i \in 0 .. 3 |-> CASE i = 0 -> 0
                                     [] i = 1 -> s(1)
                                     [] i = 2 -> s(1) + s(2)
                                     [] OTHER -> s(1) + s(2) + s(3)]
MCRtOff == [S \in SUBSET MCRoutine |->
  [r \in MCRoutine |->
     MCRtSum(S)[(CHOOSE i \in 1 .. 3 : MCRtOrder[i] = r) - 1]]]
MCRtLen == [S \in SUBSET MCRoutine |-> MCRtSum(S)[3]]

\* main calls a and b, and a calls b; written alone, neither calls b.
MCCalls == [fv \in MCFn \X MCVersion |->
  CASE fv[1] = main -> IF fv[2] = alone THEN {a} ELSE {a, b}
    [] fv[1] = a -> IF fv[2] = alone THEN {} ELSE {b}
    [] OTHER -> {}]

Source(order, m, x, y) ==
  LET v == [f \in MCFn |-> CASE f = main -> m [] f = a -> x [] OTHER -> y]
  IN [order |-> order, ver |-> v,
      lams |-> SelectSeq(order, LAMBDA f : MCLam[f, v[f]] > 0)]

\* The programs of the builds run.  a outgrows its slot and the room it is moved
\* into, b its slot, and both at once more than the region has room for; b owns a
\* lambda or needs a routine nothing else does, is defined first, is defined and
\* not reached, or is not there at all.
EditPrograms ==
  {Source(<<a, b, main>>, small, xy[1], xy[2]) :
     xy \in {<<small, small>>, <<large, small>>, <<huge, small>>, <<large, large>>,
             <<small, lambda>>, <<small, asks>>}}
  \cup {Source(<<b, a, main>>, small, small, small),
        Source(<<a, b, main>>, alone, alone, small),
        Source(<<a, main>>, alone, alone, NotDefined)}

\* The programs of the promises run, in which a and b are methods: a owns the first
\* lambda and main the second; then a outgrows its slot and owns none, the first is
\* main's, which is as it was, and the second b's.
PromisePrograms ==
  {Source(<<a, main, b>>, lambda, lambda, small),
   Source(<<a, main, b>>, lambda, large, lambda)}
=============================================================================
