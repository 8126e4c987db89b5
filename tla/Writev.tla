------------------------------- MODULE Writev -------------------------------
(***************************************************************************)
(* The runtime's vectored write (RT_WRITEV of rt_x86_64.ngpl, and the same *)
(* routine in the intermediate form in rt_portable.ngpl).                  *)
(*                                                                         *)
(* The runs are gathered into the vector the kernel wants, an entry the    *)
(* run's base and its length.  The kernel takes as much as it likes of     *)
(* what it is handed, or refuses.  What it took is walked off the front of *)
(* the vector, the entry it stopped in is shortened, and it is asked       *)
(* again, until the vector is empty.                                       *)
(***************************************************************************)
EXTENDS Integers, Sequences, SequencesExt, FiniteSets

CONSTANT Near      \* how close to a run's end the kernel stops

VARIABLES
  given,   \* the runs, as they were handed over
  iov,     \* entries left to write: [run, base, len]
  rax,     \* what the kernel answered and is not walked off yet
  file,    \* what the file holds
  w_pc     \* "idle", "write", "consume", "done" or "bad"

wvars == <<given, iov, rax, file, w_pc>>

Held(e) == SubSeq(given[e.run], e.base + 1, e.base + e.len)
Content(vec) == FlattenSeq([i \in DOMAIN vec |-> Held(vec[i])])

\* How many cells the first i entries name.
UpTo[i \in 0 .. Len(iov)] == IF i = 0 THEN 0 ELSE UpTo[i - 1] + iov[i].len
Length == UpTo[Len(iov)]

WriteInit == given = <<>> /\ iov = <<>> /\ rax = 0 /\ file = <<>> /\ w_pc = "idle"

\* One entry to a run, the empty ones too.
Fill(rs) ==
  /\ w_pc = "idle"
  /\ given' = rs
  /\ iov' = [i \in DOMAIN rs |-> [run |-> i, base |-> 0, len |-> Len(rs[i])]]
  /\ w_pc' = "write"
  /\ UNCHANGED <<rax, file>>

Finish ==
  /\ w_pc \in {"write", "consume"}
  /\ iov = <<>>
  /\ w_pc' = "done"
  /\ UNCHANGED <<given, iov, rax, file>>

\* Where a call may stop: anywhere, within Near of an entry's end.
Stops ==
  {n \in 0 .. Length : \E i \in DOMAIN UpTo : n - UpTo[i] \in -Near .. Near}

\* The kernel writes that much of what the vector names.
Takes(n) ==
  /\ w_pc = "write"
  /\ iov # <<>>
  /\ rax' = n
  /\ w_pc' = "consume"
  /\ file' = file \o SubSeq(Content(iov), 1, n)
  /\ UNCHANGED <<given, iov>>

Refuses ==
  /\ w_pc = "write"
  /\ iov # <<>>
  /\ w_pc' = "bad"
  /\ UNCHANGED <<given, iov, rax, file>>

\* An entry it finished, the empty ones with it, is walked off.
Drop ==
  /\ w_pc = "consume"
  /\ iov # <<>>
  /\ rax >= Head(iov).len
  /\ rax' = rax - Head(iov).len
  /\ iov' = Tail(iov)
  /\ UNCHANGED <<given, file, w_pc>>

\* Mutant: the entry is shortened and begins where it did.
Shorten_length_only ==
  /\ w_pc = "consume"
  /\ iov # <<>>
  /\ rax < Head(iov).len
  /\ iov' = [iov EXCEPT ![1].len = @ - rax]
  /\ rax' = 0
  /\ w_pc' = "write"
  /\ UNCHANGED <<given, file>>

\* Mutant: an answer of nothing is looked at again, not asked again.
Shorten_waits ==
  /\ w_pc = "consume"
  /\ iov # <<>>
  /\ rax < Head(iov).len
  /\ iov' = [iov EXCEPT ![1].base = @ + rax, ![1].len = @ - rax]
  /\ rax' = 0
  /\ w_pc' = IF rax = 0 THEN "consume" ELSE "write"
  /\ UNCHANGED <<given, file>>

\* The one it stopped in, or did not begin, is asked for again.
Shorten ==
  /\ w_pc = "consume"
  /\ iov # <<>>
  /\ rax < Head(iov).len
  /\ iov' = [iov EXCEPT ![1].base = @ + rax, ![1].len = @ - rax]
  /\ rax' = 0
  /\ w_pc' = "write"
  /\ UNCHANGED <<given, file>>

WriteStep == Finish \/ Drop \/ Shorten

\* The routine on its own, under whoever hands it runs and a kernel that stops
\* anywhere.
WriteNext(Runs) ==
  (\E rs \in Runs : Fill(rs)) \/ (\E n \in 0 .. Length : Takes(n)) \/ Refuses \/ WriteStep
WriteSpec(Runs) == WriteInit /\ [][WriteNext(Runs)]_wvars

---------------------------------------------------------------------------
(* Correctness *)

\* What is in the file and what the vector still names are, one behind the
\* other, the runs in their order: no cell is written twice, none is passed
\* over, wherever the kernel stops; so when the call returns every run has
\* been written ("a short write is never silently accepted").
NothingLost ==
  w_pc \in {"write", "done", "bad"} =>
    file \o Content(iov) = FlattenSeq(given)
===========================================================================
