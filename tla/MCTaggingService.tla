---------------------------- MODULE MCTaggingService ----------------------------
(***************************************************************************)
(* An instance of TaggingService: two feeds of two countries, two fields   *)
(* with two values each, two alerts, the first with two infos, three       *)
(* subscriptions and two taggers.                                          *)
(***************************************************************************)
EXTENDS TaggingService

CONSTANTS f1, f2, c1, c2, d1, d2, t1, t2, s1, s2, s3

MCFeed == {f1, f2}
MCTagger == {t1, t2}
MCSubscription == {s1, s2, s3}
MCAdmin1 == {d1, d2}
MCUrl == {"a", "b"}
MCField == {"urgency", "severity"}
MCValue == {"low", "high"}
MCTags == [MCField -> MCValue]
MCCountryOf == [f \in MCFeed |-> IF f = f1 THEN c1 ELSE c2]

Tagged(u, v) == [d \in MCField |-> IF d = "urgency" THEN u ELSE v]
Row(t) == [info |-> [expires |-> 2, polygon |-> {}, circle |-> {}, geocode |-> {},
                     tags |-> t], expires |-> 2]
MCDoc == [u \in MCUrl |-> [actual |-> TRUE, cancel |-> FALSE, refs |-> {}, infos |-> {}]]
MCArrival == [u \in MCUrl |->
  IF u = "a" THEN [source |-> f1, admin1s |-> {d1},
                   infos |-> {Row(Tagged("low", "high")), Row(Tagged("high", "low"))}]
  ELSE [source |-> f2, admin1s |-> {d1, d2}, infos |-> {Row(Tagged("high", "high"))}]]

Unfiltered == [d \in MCField |-> {}]
\* s1 wants country c1, any division; s2 country c1 and division d1 with urgency
\* high and severity high (alert "a" has both, in different infos); s3 country c1
\* and division d2.
MCFilter == [s \in MCSubscription |->
  CASE s = s1 -> [country |-> c1, admin1s |-> {}, values |-> Unfiltered]
    [] s = s2 -> [country |-> c1, admin1s |-> {d1},
                  values |-> [d \in MCField |-> {"high"}]]
    [] s = s3 -> [country |-> c1, admin1s |-> {d2}, values |-> Unfiltered]]
================================================================================
