----------------------------- MODULE MCFeedChecker -----------------------------
(***************************************************************************)
(* An instance of FeedChecker: an atom feed and an rss feed, that answer   *)
(* with nothing, with an index of either kind whose entries are placed     *)
(* well or not, whose first id is a url or not, or whose dates, or those   *)
(* of its first alert, are naive.                                          *)
(***************************************************************************)
EXTENDS FeedChecker

CONSTANTS g1, g2, k1, k2

MCFormatOf == [f \in {g1, g2} |-> IF f = g1 THEN "atom" ELSE "rss"]

MCOptions == {{"strict", "deep"}, {"skip_db"}}

Plain == [kind |-> "alert", sent |-> "aware"]
Xml(root, entries) ==
  [body |-> "xml", root |-> root, updated |-> "none", entries |-> entries, doc |-> Plain]
Item(placed) == [tag |-> "item", placed |-> placed, date |-> "aware", id |-> "none", link |-> "url"]
ById == [tag |-> "entry", placed |-> TRUE, date |-> "aware", id |-> "url", link |-> "none"]
ByLink == [tag |-> "entry", placed |-> TRUE, date |-> "none", id |-> "urn", link |-> "url"]

MCResponse == [f \in {g1, g2} |->
  IF f = g1
  THEN {[Xml("other", <<>>) EXCEPT !.body = "none"], Xml("rss", <<Item(TRUE)>>),
        Xml("feed", <<ByLink, ById>>), Xml("feed", <<ById>>),
        Xml("feed", <<[ById EXCEPT !.date = "naive"]>>),
        [Xml("feed", <<ById>>) EXCEPT !.doc.sent = "naive"]}
  ELSE {Xml("rss", <<Item(TRUE)>>), Xml("rss", <<Item(FALSE)>>), Xml("feed", <<ById>>)}]
================================================================================
