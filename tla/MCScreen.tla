------------------------------- MODULE MCScreen -------------------------------
(* Screen on views of a few rows (run screen: regions, two screens, sizes)  *)
(* and on one line (run line: printing, tab stops, saved cursor, colours).  *)
EXTENDS Screen

ScreenCounts == {<<>>, <<2>>}
ScreenPlaces == {<<>>, <<2, 3>>}
ScreenModes  == {<<6>>, <<47>>}
None == {}

LineCounts == {<<>>, <<2>>}
LinePlaces == {<<1, 2>>}
LineModes  == {<<4>>, <<1048>>}
LineColours == {<<>>, <<31>>, <<0, 38, 5, 9>>}
=============================================================================
