---------------------------- MODULE MCAlertQueries -----------------------------
(***************************************************************************)
(* An instance of AlertQueries: three alerts of two feeds in one division, *)
(* the second with two infos that match; a page is of one alert or of two. *)
(***************************************************************************)
EXTENDS AlertQueries

CONSTANTS h1, h2, d1

MCSomeLimits == {-1, 3}
MCMatchingInfos == <<1, 2, 1>>
MCFeedOfAlert == <<h1, h2, h1>>
MCPlacesOfAlert == <<{d1}, {d1}, {d1}>>
================================================================================
