----------------------------- MODULE MCFeedReaders -----------------------------
(***************************************************************************)
(* An instance of FeedReaders: an rss feed and an nws_us feed that list    *)
(* the same alerts.  The second answers with one alert, its links in any   *)
(* of some arrangements, or with two; the first also with entries that     *)
(* lack their link or have none that is a url.                             *)
(***************************************************************************)
EXTENDS FeedReaders

CONSTANTS l1, l2

MCPolledOf == [p \in {l1, l2} |-> IF p = l1 THEN "rss" ELSE "nws_us"]

LinkTo(type, enclosure, href, suffix) ==
  [type |-> type, enclosure |-> enclosure, href |-> href, suffix |-> suffix]

Page == LinkTo("other", FALSE, "url1", FALSE)
Suffixed == LinkTo("other", FALSE, "url2", TRUE)
Enclosed(t) == LinkTo("other", TRUE, t, TRUE)
Common == LinkTo("common", FALSE, "url2", FALSE)
Cap(t) == LinkTo("cap", FALSE, t, FALSE)

SomeLinks ==
  {<<Page, Enclosed("url2")>>, <<Enclosed("url2"), Common, Cap("url1")>>,
   <<Page, Suffixed>>, <<Cap("none"), Cap("url1")>>,
   <<Enclosed("text")>>}

InRss(t) == [key |-> t, links |-> <<>>]
InAtom(t, links) == [key |-> t, links |-> links]

MCListingsOf == [p \in {l1, l2} |->
  IF p = l1
  THEN {<<InRss("url1"), InRss("url2")>>, <<InRss("text"), InRss("url2"), InRss("none")>>}
  ELSE {<<InAtom("url1", links)>> : links \in SomeLinks}
         \cup {<<InAtom("url2", <<Common>>), InAtom("none", <<Common>>)>>}]
================================================================================
