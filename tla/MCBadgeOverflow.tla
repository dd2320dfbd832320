---------------------------- MODULE MCBadgeOverflow ----------------------------
(* A small instance of BadgeOverflow for TLC: three badges fit in no window, two *)
(* beside "+1" in the wide one, two alone in the narrow one by its own widths    *)
(* and one by those of the wide window; nothing fits in the tiny one, and the    *)
(* folded one has no width.                                                      *)
EXTENDS BadgeOverflow

CONSTANTS a, b, c, d, s1

MCLayouts == {"wide", "narrow", "tiny", "folded"}
MCRoom ==
  [s \in Selects |-> [l \in Layouts |->
     CASE l = "wide" -> 13 [] l = "narrow" -> 7 [] l = "tiny" -> 1 [] OTHER -> 0]]
MCNatural ==
  [v \in Values |-> [l \in Layouts |-> IF l = "wide" THEN 4 ELSE 3]]
MCPlus ==
  [n \in 1..MaxBadges |-> [l \in Layouts |-> IF l = "wide" THEN 3 ELSE 2]]
One(v) == [group |-> FALSE, values |-> <<v>>]
Group(values) == [group |-> TRUE, values |-> values]
(* A single option behind a group that follows one, and an empty group; a group  *)
(* that is cut at the limit.                                                     *)
MCOptionLists ==
  {<< One(a), Group(<<b>>), Group(<<>>), One(c), One(d) >>,
   << Group(<<>>), One(a), Group(<<b, c, d>>) >>}

ASSUME MCStylesResize == StylesResize
ASSUME MCSingleOptions == SingleOptions
ASSUME MCOptionsApart == OptionsApart

MCSelections == {<<>>, <<a, b, c>>}
=================================================================================
