------------------------------ MODULE FileTrees ------------------------------
(***************************************************************************)
(* Small trees of files: rings, files with two names, an empty one, one    *)
(* whose last line does not end, names found beside a file, along the      *)
(* search path and nowhere.                                                *)
(***************************************************************************)
EXTENDS Files

Path(dir, stem) == [dir |-> dir, stem |-> stem, ext |-> 1]
File(where, dir, stem) == [where |-> where, dir |-> dir, stem |-> stem, ext |-> 0]
Bind(name, file) == [kind |-> "bind", name |-> name, file |-> file]
Fn(name) == [kind |-> "fn", name |-> name]
Bad == [kind |-> "bad"]

main == Path(<<>>, <<"main">>)
more == Path(<<>>, <<"more">>)
a == Path(<<>>, <<"a">>)
b == Path(<<>>, <<"b">>)
c == Path(<<>>, <<"c">>)
l == Path(<<"lib">>, <<"l">>)
la == Path(<<"lib">>, <<"a">>)

\* A binding of the file known by a name, under that name.
To(stem) == Bind(stem, File("bare", <<>>, stem))
Tos(stems) == {<<>>} \cup {<<To(s), nl>> : s \in stems}
              \cup {<<To(s), nl, To(t)>> : s \in stems, t \in stems}
One(stems) == {<<>>} \cup {<<Fn(<<"f">>), nl, To(s)>> : s \in stems}

\* Every tree of four files, one of which is asked for under two names: what the
\* first two bind is any of what they could; and one without the file it begins in.
RingTrees ==
  LET files == [p \in {main, a, b, c, l, la} |->
                  CASE p = main -> 1 [] p = a -> 2 [] p \in {b, c} -> 3 [] p \in {l, la} -> 4]
  IN {[roots |-> <<main>>, busy |-> "nobody", fs |-> files,
       text |-> [f \in Ino |->
                   CASE f = 1 -> m [] f = 2 -> k [] f = 3 -> j
                     [] f = 4 -> <<Bind(<<"near">>, File("beside", <<>>, <<"l">>)), nl>>
                     [] OTHER -> <<>>]]
      : m \in Tos({<<"a">>, <<"b">>, <<"c">>, <<"gone">>})
              \cup {<<Bind(<<"l">>, File("beside", <<"lib">>, <<"a">>)), nl, To(<<"a">>)>>},
        k \in Tos({<<"main">>, <<"b">>, <<"l">>}),
        j \in One({<<"a">>, <<"c">>})}
     \cup {[roots |-> <<main>>, busy |-> "nobody", fs |-> [p \in {a} |-> 2], text |-> [f \in Ino |-> <<>>]]}

\* Two files on the command line, either of which may not be read to its end and
\* one of which may not be there, or may be the other one under a second name.
RootTrees ==
  {[roots |-> <<main, more>>, busy |-> saver,
    fs |-> [p \in {main, a} \cup there |->
                 CASE p = main -> 1 [] p = more -> second [] p = a -> 3],
    text |-> [f \in Ino |-> CASE f = 1 -> m [] f = 2 -> k [] f = 3 -> j [] OTHER -> <<>>]]
   : m \in Tos({<<"a">>, <<"more">>}) \cup {<<To(<<"a">>), nl, Bad, nl, To(<<"a">>)>>},
     k \in {<<>>, <<To(<<"main">>)>>, <<To(<<"a">>), nl, To(<<"more">>)>>},
     j \in {<<>>, <<Fn(<<"f">>)>>, <<To(<<"more">>), nl>>, <<Bad>>},
     there \in {{}, {more}}, second \in {1, 2}, saver \in {"nobody", "in place", "anyhow"}}

\* Three modules, two of which are rooted in files of one stem, and the third in
\* one whose stem ends in a digit.  The first is bound again at the end.
xa == Path(<<"x">>, <<"a">>)
a3 == Path(<<>>, <<"a", 3>>)
ya == Path(<<"y">>, <<"a">>)
StemTrees ==
  {[roots |-> <<main>>, busy |-> "anyhow",
    fs |-> [p \in {main, xa, a3, ya} |->
                 CASE p = main -> 1 [] p = xa -> 2 [] p = a3 -> 3 [] p = ya -> 4],
    text |-> [f \in Ino |->
                CASE f = 1 -> <<Bind(<<"p">>, File("beside", <<"x">>, <<"a">>)), nl,
                                Bind(<<"q">>, File("bare", <<>>, <<"a", 3>>)), nl,
                                Bind(<<"r">>, File("beside", <<"y">>, <<"a">>)), nl,
                                Bind(<<"s">>, File("beside", <<"x">>, <<"a">>)), nl>>
                  [] f \in {2, 4} -> <<Fn(<<"f">>), nl>>
                  [] f = 3 -> <<Fn(<<"g">>), nl>>
                  [] OTHER -> <<>>]]}

MCSearchPath == <<<<"lib">>>>
MCLibDir == <<"lib">>
=============================================================================
