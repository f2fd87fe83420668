---------------------------- MODULE MCAlertLifecycle ----------------------------
(***************************************************************************)
(* An instance of AlertLifecycle: two feeds of one country that share the  *)
(* url "a".  "a" is an alert with two infos, one located by a polygon and  *)
(* with an expiry, one without either; "b" an alert located by its circle, *)
(* that expires early; "c" a Cancel of "a" and "b".                        *)
(***************************************************************************)
EXTENDS AlertLifecycle

CONSTANTS f1, f2, w1, w2, d1, d2, unknown

MCFeed == {f1, f2}
MCWorker == {w1, w2}
MCAdmin1 == {d1, d2, unknown}
MCTags == {"any"}

Element(e, p, ci, g) == [expires |-> e, polygon |-> p, circle |-> ci,
                         geocode |-> g, tags |-> "any"]

MCUrl == {"a", "b", "c"}
MCDoc == [u \in MCUrl |->
  CASE u = "a" -> [actual |-> TRUE, cancel |-> FALSE, refs |-> {},
                   infos |-> {Element(2, {d1, d2}, {}, {}), Element(0, {}, {d2}, {})}]
    [] u = "b" -> [actual |-> TRUE, cancel |-> FALSE, refs |-> {},
                   infos |-> {Element(1, {}, {d1}, {d2})}]
    [] u = "c" -> [actual |-> TRUE, cancel |-> TRUE, refs |-> {"a", "b"},
                   infos |-> {Element(0, {}, {}, {})}]]
MCFeedUrls == [f \in MCFeed |-> IF f = f1 THEN {"a", "c"} ELSE {"a", "b"}]
================================================================================
