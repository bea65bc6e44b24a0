---------------------------- MODULE ReadmeBlocks ----------------------------
(***************************************************************************)
(* The text surgery of scripts/sync-readmes.mjs.  A README is a sequence   *)
(* of tokens: the start and end markers of shared blocks, and pieces of    *)
(* text that hold no marker.                                               *)
(***************************************************************************)
EXTENDS Integers, Sequences, FiniteSets, SequencesExt

CONSTANTS
  Words,        \* what a piece of text may say, and the names a marker may have
  SharedBlocks  \* the names of the blocks, in the order of the script

ASSUME BlocksAssumption ==
  /\ {"banner", "static banner", "title"} \subseteq Words
  /\ SharedBlocks \in Seq(Words \ {"banner"})

Start(name) == [edge |-> "start", text |-> name]
End(name) == [edge |-> "end", text |-> name]
Text(x) == [edge |-> "none", text |-> x]

Token == [edge : {"start", "end", "none"}, text : Words]

Title == Text("title")  \* "# ": every package README has a title
StaticBanner == Text("static banner")

Names == <<"banner">> \o SharedBlocks

\* markedBlock or assertBannerIsFirst throws.
Refused == <<[edge |-> "refused", text |-> ""]>>

Occurrences(contents, marker) == {i \in DOMAIN contents : contents[i] = marker}

\* Each marker appears exactly once, the start before the end.
IsMarked(contents, name) ==
  \E i, j \in DOMAIN contents :
    /\ Occurrences(contents, Start(name)) = {i}
    /\ Occurrences(contents, End(name)) = {j}
    /\ i < j

StartIndex(contents, name) == CHOOSE i \in Occurrences(contents, Start(name)) : TRUE
EndIndex(contents, name) == CHOOSE i \in Occurrences(contents, End(name)) : TRUE

\* markedBlock(contents, name).value, where IsMarked(contents, name)
MarkedBlock(contents, name) ==
  SubSeq(contents, StartIndex(contents, name), EndIndex(contents, name))

BannerBlock == <<Start("banner"), StaticBanner, End("banner")>>

\* The blocks of the root README, and the banner.
Canonical(root) ==
  [name \in ToSet(Names) |->
     IF name = "banner" THEN BannerBlock ELSE MarkedBlock(root, name)]

HasBlocks(root) == \A name \in ToSet(SharedBlocks) : IsMarked(root, name)

\* What is around the block, with another block in its place.
Spliced(contents, name, block) ==
  SubSeq(contents, 1, StartIndex(contents, name) - 1) \o block
    \o SubSeq(contents, EndIndex(contents, name) + 1, Len(contents))

BannerIsFirst(contents) == IsPrefix(BannerBlock \o <<Title>>, contents)

SlipTailOfOriginal(contents, canonical) ==
  LET Replace(acc, name) ==
        IF acc # Refused /\ IsMarked(acc, name)
        THEN SubSeq(acc, 1, StartIndex(acc, name) - 1) \o canonical[name]
               \o SubSeq(contents, EndIndex(acc, name) + 1, Len(contents))
        ELSE Refused
      spliced == FoldLeft(Replace, contents, Names)
  IN  IF spliced # Refused /\ BannerIsFirst(spliced) THEN spliced ELSE Refused

\* One round of the loop over the blocks.
Replaced(contents, name, canonical) ==
  IF contents # Refused /\ IsMarked(contents, name)
  THEN Spliced(contents, name, canonical[name]) ELSE Refused

\* The README after each round.
Drafts(contents, canonical) ==
  LET draft[n \in 0..Len(Names)] ==
        IF n = 0 THEN contents ELSE Replaced(draft[n - 1], Names[n], canonical)
  IN  draft

\* One block after the other, then assertBannerIsFirst.
Updated(contents, canonical) ==
  LET spliced == Drafts(contents, canonical)[Len(Names)]
  IN  IF spliced # Refused /\ BannerIsFirst(spliced) THEN spliced ELSE Refused

-----------------------------------------------------------------------------
(* What the script is for.                                                 *)

\* The package README repeats every shared block of the root, word for word.
SharesBlocks(contents, root) ==
  /\ HasBlocks(root)
  /\ \A name \in ToSet(Names) :
       IsMarked(contents, name) /\ MarkedBlock(contents, name) = Canonical(root)[name]

IsMarker(token) == token.edge \in {"start", "end"}

\* No block holds a marker of another one.
Flat(contents) ==
  \A name \in ToSet(Names) :
    IsMarked(contents, name) =>
      \A i \in DOMAIN contents :
        i > StartIndex(contents, name) /\ i < EndIndex(contents, name) =>
          ~IsMarker(contents[i])

\* What a package README says outside its shared blocks.
InBlock(contents, i) ==
  \E name \in ToSet(Names) :
    /\ IsMarked(contents, name)
    /\ i \in StartIndex(contents, name)..EndIndex(contents, name)

OwnText(contents) ==
  LET own == {i \in DOMAIN contents : ~InBlock(contents, i)}
  IN  [n \in 1..Cardinality(own) |->
         contents[CHOOSE i \in own : Cardinality({j \in own : j <= i}) = n]]
=============================================================================
