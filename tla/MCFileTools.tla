---------------------------- MODULE MCFileTools ----------------------------
EXTENDS FileTools, TLC
CONSTANTS film, show, ad, cn, y20, e1, e2, zh, en, n1, up, v1, v2, s1, s2, u1, u2, u3, u4

Name(words, ext) == [words |-> words, ext |-> ext]
DirName(words)   == Name(words, Nothing)
MCTrees ==
  { \* two files that clean to one name, in a directory that is cleaned too
    << DirName(<<show, ad>>) >> :> Dir
    @@ << DirName(<<show, ad>>), Name(<<film, y20, e1, ad>>, VIDEO) >> :> v1
    @@ << DirName(<<show, ad>>), Name(<<film, cn, y20, e1>>, VIDEO) >> :> v2,
    \* two subtitles of one video, named after another release
    << Name(<<film, e1>>, VIDEO) >> :> v1
    @@ << Name(<<show, ad, e1, zh, en>>, SUBTITLE) >> :> s1
    @@ << Name(<<show, e1>>, SUBTITLE) >> :> s2 }
MCSpeaks == (s1 :> {zh, en}) @@ (u3 :> {zh})
MCCopies == <<n1>>
MCItems ==
  { [kind |-> "direct",
     members |-> << [path |-> << Name(<<show, e1, zh>>, SUBTITLE) >>, datum |-> u3] >>],
    \* one path twice in a zip, and a video between
    [kind |-> "zip",
     members |-> << [path |-> << Name(<<film, e1>>, SUBTITLE) >>, datum |-> u1],
                    [path |-> << Name(<<film, e1>>, VIDEO) >>, datum |-> v2],
                    [path |-> << Name(<<film, e1>>, SUBTITLE) >>, datum |-> u2] >>],
    \* one name in two folders, and a path that is not safe
    [kind |-> "tar",
     members |-> << [path |-> << Name(<<film, e1>>, SUBTITLE) >>, datum |-> u1],
                    [path |-> << DirName(<<up>>), Name(<<film, e1>>, SUBTITLE) >>, datum |-> u4],
                    [path |-> << DirName(<<ad>>), Name(<<film, e1>>, SUBTITLE) >>,
                     datum |-> u2] >>] }
MCDots == {DirName(<<up>>)}
Symmetry == Permutations(Workers)
=============================================================================
