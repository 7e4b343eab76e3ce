---------------------------- MODULE MCRegionLife ----------------------------
(***************************************************************************)
(* Two worlds for RegionLife.  The short one has every file of up to three *)
(* lines that contain one another: "a", "ab", an indented "a" and a blank  *)
(* line.  The long one has a four-line region between other lines and the  *)
(* rewrites that make its boundaries ambiguous: a second pair of boundary  *)
(* lines as far away as the first, the interior in one of them.            *)
(***************************************************************************)
EXTENDS RegionLife

A == INSTANCE Anchors

MCLocate(content, text, start) ==
  A!ResolveRegion(content, text, A!MakeAnchors(content, start))

ShortLines == {<<"a">>, <<"a", "b">>, <<" ", "a">>, <<>>}
ShortTexts == SeqOf(ShortLines, 3) \ {<<>>}

s == <<"s">>
i == <<"i">>
j == <<"j">>
e == <<"e">>
x == <<"x">>
y == <<"y">>
indented == <<" ", "s">>

LongLines == {s}
LongTexts == {<<x, y, s, i, j, e>>}
LongWrites == {<<s, x, y, e, indented, i, j, e>>,
               <<s, e, x, y, x, i, j, x>>,
               <<x, y, x, i, j, e>>}

None == {}

Short == INSTANCE RegionLife WITH
  Lines <- ShortLines, FirstTexts <- ShortTexts, WrittenTexts <- None,
  MaxLines <- 3, MaxEdits <- 2, LongestRead <- 3

Long == INSTANCE RegionLife WITH
  Lines <- LongLines, FirstTexts <- LongTexts, WrittenTexts <- LongWrites,
  MaxLines <- 8, MaxEdits <- 2, LongestRead <- 4

VARIABLE world

MCInit == \/ world = "short" /\ Short!Init
          \/ world = "long" /\ Long!Init

MCNext == /\ UNCHANGED world
          /\ \/ world = "short" /\ Short!Next
             \/ world = "long" /\ Long!Next

MCSpec == MCInit /\ [][MCNext]_<<vars, world>>
=============================================================================
