-------------------------------- MODULE MCUsers --------------------------------
(***************************************************************************)
(* The mutations of subscriptions and their mails, checked side by side: a *)
(* behaviour is one of the component named by part, while the other rests. *)
(***************************************************************************)
EXTENDS MCUserSubscriptions, MCSubscriptionEmails

VARIABLE part

subscriptionVars == vars
usersVars == <<part, subscriptionVars, emailsVars>>

UsersInit ==
  /\ part \in {"subscriptions", "emails"}
  /\ Init /\ EmailsInit
  /\ part # "emails" => selected = {}

SubscriptionsPart ==
  part = "subscriptions" /\ Next /\ UNCHANGED <<part, emailsVars>>
EmailsPart ==
  part = "emails" /\ EmailsNext /\ UNCHANGED <<part, subscriptionVars>>

UsersSpec ==
  UsersInit /\ [][SubscriptionsPart \/ EmailsPart]_usersVars

\* Every variable of both components has its type.
UsersTypeOK == TypeOK /\ EmailsTypeOK
================================================================================
