--------------------------- MODULE MCSecretFinder ---------------------------
(* One file with up to three lines, and trees of files with a few contents.*)
EXTENDS SecretFinder

Entry(kind, last) == [kind |-> kind, last |-> last]

OneFile == <<Entry("file", 1)>>

\* The root with a file, a directory and another file; in the directory one of any kind with
\* a file in it, and a file behind that.
MCTrees ==
  {<<Entry("dir", 7), Entry(first, 2), Entry("dir", 6), Entry(dir, 5), Entry("file", 5),
     Entry("file", 6), Entry("file", 7)>> :
     first \in {"file", "badFile"}, dir \in {"dir", "git", "badDir"}}
  \union {<<Entry("noRoot", 1)>>, <<Entry("badDir", 2), Entry("file", 2)>>}

MCLines ==
  { TooLong, <<>>, <<" ">>, <<";">>, <<"x">>,
    <<"pri", "=">>,                                  \* a prefix
    <<"x", " ", "pub", "'", ":", "=">>,              \* a prefix, with a quote and :=
    <<"pri", " ", "x">>,                             \* a match
    <<" ", "pub", ":", "x", ";">>,                   \* a match
    <<"pub", "=", " ", "=", "x">>,                   \* no match
    <<"pri", "=", "x", ";", "pub", ":">>,            \* a match and a prefix
    <<"=", "x", " ", "pri", "=", "x">>,              \* what ends a prefix, and a match
    <<";", "pub", "=", "x", " ", "pri", " ", "x">> } \* two matches

UpToThreeLines == UNION {[1..n -> MCLines] : n \in 0..3}

FewContents ==
  { <<>>, << <<"pri", "=", "x">> >>,
    << <<"pri", "=">>, <<";", "pub", "=", "x", " ", "pri", " ", "x">> >> }

\* Only files have lines.
Contents(t) ==
  {c \in [DOMAIN t -> FewContents] : \A i \in DOMAIN t : t[i].kind # "file" => c[i] = <<>>}

MCCheckouts ==
  {[tree |-> OneFile, content |-> <<lines>>] : lines \in UpToThreeLines}
  \union UNION {[tree : {t}, content : Contents(t)] : t \in MCTrees}
=============================================================================
