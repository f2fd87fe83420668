---------------------------- MODULE MCAlertAnswers -----------------------------
(***************************************************************************)
(* An instance of AlertAnswers: an alert of two infos, the first with as   *)
(* many parameters as fill a chunk and an area with a circle, beside an    *)
(* alert of one info.                                                      *)
(***************************************************************************)
EXTENDS AlertAnswers

CONSTANTS x1, x2

Element(model, parent) == [model |-> model, parent |-> parent]

MCSelection == {{"info", "infos", "parameters"}, {"infos", "areas", "polygons", "circles", "geocodes"}}

MCDocument == [n \in {x1, x2} |->
  IF n = x1
  THEN <<Element("AlertInfo", 0), Element("AlertInfoParameter", 1),
         Element("AlertInfoParameter", 1), Element("AlertInfoArea", 1),
         Element("AlertInfoAreaCircle", 4), Element("AlertInfo", 0)>>
  ELSE <<Element("AlertInfo", 0)>>]
================================================================================
