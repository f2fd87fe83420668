---------------------------- MODULE MCAlertPipeline ----------------------------
(***************************************************************************)
(* An instance of AlertPipeline: one feed with an alert located by its     *)
(* circle, "a", and one located by its polygon, "b", whose second info may *)
(* have expired when it is read; a subscription without filters and one    *)
(* for the division d1 and urgency high.                                   *)
(***************************************************************************)
EXTENDS AlertPipeline

CONSTANTS f1, w1, d1, d2, c1, t1, t2, s1, s2

MCUrl == {"a", "b"}
MCAdmin1 == {d1, d2}
MCField == {"urgency"}
MCValue == {"low", "high"}
MCTags == [MCField -> MCValue]

Element(e, p, ci, v) == [expires |-> e, polygon |-> p, circle |-> ci,
                         geocode |-> {}, tags |-> [d \in MCField |-> v]]

MCDoc == [u \in MCUrl |->
  IF u = "a"
  THEN [actual |-> TRUE, cancel |-> FALSE, refs |-> {},
        infos |-> {Element(0, {}, {d1}, "high")}]
  ELSE [actual |-> TRUE, cancel |-> FALSE, refs |-> {},
        infos |-> {Element(0, {d1, d2}, {}, "low"), Element(1, {}, {}, "high")}]]
MCFeedUrls == [f \in {f1} |-> MCUrl]

MCSubscription == {s1, s2}
Unfiltered == [d \in MCField |-> {}]
MCFilter == [s \in Subscription |->
  CASE s = s1 -> [country |-> c1, admin1s |-> {}, values |-> Unfiltered]
    [] s = s2 -> [country |-> c1, admin1s |-> {d1}, values |-> [d \in MCField |-> {"high"}]]]
MCCountryOf == [f \in {f1} |-> c1]
================================================================================
