-------------------------------- MODULE MCData ---------------------------------
(***************************************************************************)
(* Feeds, country data, the lists of alerts and their numbers, what alerts *)
(* consist of, user accounts and what users read of their subscriptions,   *)
(* checked side by side: a behaviour is one of the component named by      *)
(* part, while the others rest.                                            *)
(***************************************************************************)
EXTENDS MCSubscriptionLists, MCFeedTasks, GeoData, MCAlertQueries, AlertCounts,
  MCAlertAnswers, MCAccounts

\* One country, two divisions of IFRC-GO, three names and room for the rows that
\* syncs leave behind.
CONSTANTS c1, o1, i1, i2, n1, n2, n3, g1

VARIABLE part

feedTasksVars == vars
tallyVars == <<tally, members, departed>>
dataVars == <<part, feedTasksVars, geoVars, countsVars, answersVars, accountsVars, listsVars>>

DataInit ==
  /\ part \in {"feeds", "geo", "lists", "counts", "answers", "accounts", "subscriptions"}
  /\ Init /\ GeoInit /\ CountsInit /\ AnswersInit /\ AccountsInit
  /\ ListsInit
  /\ part # "geo" => remote.countries = {} /\ remote.features = {} /\ remote.messages = {}

FeedsPart ==
  /\ part = "feeds" /\ Next
  /\ UNCHANGED <<part, geoVars, countsVars, answersVars, accountsVars, listsVars>>
GeoPart ==
  /\ part = "geo" /\ GeoNext
  /\ UNCHANGED <<part, feedTasksVars, countsVars, answersVars, accountsVars, listsVars>>
ListsPart ==
  /\ part = "lists" /\ QueriesNext
  /\ UNCHANGED <<part, feedTasksVars, geoVars, tallyVars, answersVars, accountsVars, listsVars>>
CountsPart ==
  /\ part = "counts" /\ CountsNext
  /\ UNCHANGED <<part, feedTasksVars, geoVars, answersVars, accountsVars, listsVars>>
AnswersPart ==
  /\ part = "answers" /\ AnswersNext
  /\ UNCHANGED <<part, feedTasksVars, geoVars, countsVars, accountsVars, listsVars>>
AccountsPart ==
  /\ part = "accounts" /\ AccountsNext
  /\ UNCHANGED <<part, feedTasksVars, geoVars, countsVars, answersVars, listsVars>>
SubscriptionsPart ==
  /\ part = "subscriptions" /\ ListsNext
  /\ UNCHANGED <<part, feedTasksVars, geoVars, countsVars, answersVars, accountsVars>>

DataNext ==
  FeedsPart \/ GeoPart \/ ListsPart \/ CountsPart \/ AnswersPart \/ AccountsPart
  \/ SubscriptionsPart

DataSpec == DataInit /\ [][DataNext]_dataVars

\* Every variable of the components has its type.
DataTypeOK ==
  /\ TypeOK /\ GeoTypeOK /\ QueriesTypeOK /\ CountsTypeOK /\ AnswersTypeOK
  /\ AccountsTypeOK /\ ListsTypeOK
================================================================================
