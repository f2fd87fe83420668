--------------------------- MODULE UserSubscriptions ---------------------------
(***************************************************************************)
(* The subscriptions of the users: the GraphQL mutations that create,      *)
(* update and delete them, and the link of the mails that unsubscribes.    *)
(* No request runs in a transaction, so a request is its reads, its check  *)
(* and its write, with the steps of the other requests in between.         *)
(*                                                                         *)
(* The limit of active subscriptions is counted before the row is written  *)
(* and an update writes every column of the row that it has read.          *)
(***************************************************************************)
EXTENDS Integers, FiniteSets

CONSTANTS
  Users,
  Subscription,    \* primary keys, given out once each
  Request,         \* requests that the web workers may serve at once
  LIMIT_PER_USER,
  NoRow,           \* model value: no row has this primary key
  Unset            \* model value: the input leaves the field out

ASSUME SubscriptionsAssumption ==
  /\ IsFiniteSet(Subscription)
  /\ IsFiniteSet(Request) /\ Request # {}
  /\ LIMIT_PER_USER \in Nat \ {0}
  /\ Unset \notin BOOLEAN

VARIABLES
  rows,     \* the table, by primary key
  issued,   \* the primary keys given out so far
  mailed,   \* subscriptions with an unsubscribe token that has not timed out
  request   \* the request each worker serves

vars == <<rows, issued, mailed, request>>

--------------------------------------------------------------------------------
\* The columns that decide what a user gets, and the owner.
Row == [user : Users, is_active : BOOLEAN, notify_by_email : BOOLEAN]

\* The fields of the input; a partial one leaves some out.
Input == [is_active : BOOLEAN \cup {Unset}, notify_by_email : BOOLEAN \cup {Unset}]

\* What Django writes for a field the input leaves out on creation.
Default(u) == [user |-> u, is_active |-> FALSE, notify_by_email |-> FALSE]

NoInput == [is_active |-> Unset, notify_by_email |-> Unset]

\* "checking": before validate_is_active; "saving": before the write;
\* "unsubscribing": the token is accepted.  A creation has no subscription yet
\* and its instance is the row of defaults.
Idle == [pc |-> "idle", subs |-> {}, instance |-> NoRow, data |-> NoInput]

TypeOK ==
  /\ rows \in [Subscription -> Row \cup {NoRow}]
  /\ issued \subseteq Subscription
  /\ mailed \subseteq issued
  /\ request \in [Request -> [pc : {"idle", "checking", "saving", "unsubscribing"},
                              subs : {{}} \cup {{s} : s \in Subscription},
                              instance : Row \cup {NoRow},
                              data : Input]]

Init ==
  /\ rows = [s \in Subscription |-> NoRow]
  /\ issued = {}
  /\ mailed = {}
  /\ request = [r \in Request |-> Idle]

Live == {s \in Subscription : rows[s] # NoRow}

Active(u) == {s \in Live : rows[s].user = u /\ rows[s].is_active}

\* Sensitivity variant: the update of a full input.
MergeAll(row, data) ==
  [row EXCEPT !.is_active = data.is_active, !.notify_by_email = data.notify_by_email]

\* The instance with the fields of the input set.
Merge(row, data) ==
  [row EXCEPT
     !.is_active = IF data.is_active = Unset THEN @ ELSE data.is_active,
     !.notify_by_email = IF data.notify_by_email = Unset THEN @ ELSE data.notify_by_email]

Written(r) == Merge(request[r].instance, request[r].data)

Respond(r) == request' = [request EXCEPT ![r] = Idle]

--------------------------------------------------------------------------------
\* The validator of is_active runs only for an input that has the field, and
\* counts only for one that asks for TRUE.
Enter(r, subs, instance, data) ==
  /\ request[r].pc = "idle"
  /\ request' = [request EXCEPT ![r] =
       [pc |-> IF data.is_active = TRUE THEN "checking" ELSE "saving",
        subs |-> subs, instance |-> instance, data |-> data]]
  /\ UNCHANGED <<rows, issued, mailed>>

\* create_user_alert_subscription for a user.
Create(r, u, data) == Enter(r, {}, Default(u), data)

\* update_user_alert_subscription reads the row among those of the user; for
\* the row of another it answers that there is none.
Update(r, u, s, data) ==
  /\ s \in Live
  /\ rows[s].user = u
  /\ Enter(r, {s}, rows[s], data)

\* The active subscriptions of the user but the one that is updated.
Counted(r) == Active(request[r].instance.user) \ request[r].subs

\* Sensitivity variant: a comparison that lets one more in.
AtMostLimit(r) == Cardinality(Counted(r)) =< LIMIT_PER_USER

UnderLimit(r) == Cardinality(Counted(r)) < LIMIT_PER_USER

\* validate_is_active counts and accepts...
Accept(r) ==
  /\ request[r].pc = "checking"
  /\ UnderLimit(r)
  /\ request' = [request EXCEPT ![r].pc = "saving"]
  /\ UNCHANGED <<rows, issued, mailed>>

\* ... or answers "Only 10 active subscriptions are allowed".
Refuse(r) ==
  /\ request[r].pc = "checking"
  /\ ~UnderLimit(r)
  /\ Respond(r)
  /\ UNCHANGED <<rows, issued, mailed>>

\* serializer.create: one INSERT with a new primary key.
Insert(r) ==
  /\ request[r].pc = "saving"
  /\ request[r].subs = {}
  /\ \E s \in Subscription \ issued :
       /\ rows' = [rows EXCEPT ![s] = Written(r)]
       /\ issued' = issued \cup {s}
  /\ Respond(r)
  /\ UNCHANGED mailed

\* serializer.update: save() writes every column of the instance, with an
\* UPDATE, or with an INSERT of the same primary key when the row has gone.
Save(r) ==
  /\ request[r].pc = "saving"
  /\ \E s \in request[r].subs : rows' = [rows EXCEPT ![s] = Written(r)]
  /\ Respond(r)
  /\ UNCHANGED <<issued, mailed>>

\* delete_user_alert_subscription; what it reads, the owner, never changes.
Delete(u, s) ==
  /\ s \in Live
  /\ rows[s].user = u
  /\ rows' = [rows EXCEPT ![s] = NoRow]
  /\ UNCHANGED <<issued, mailed, request>>

--------------------------------------------------------------------------------
\* A mail of the subscription goes out with a token in its link.
Mail(s) ==
  /\ s \in Live
  /\ rows[s].is_active /\ rows[s].notify_by_email
  /\ mailed' = mailed \cup {s}
  /\ UNCHANGED <<rows, issued, request>>

\* The last token of the subscription is older than the timeout.
TokenExpires(s) ==
  /\ s \in mailed
  /\ mailed' = mailed \ {s}
  /\ UNCHANGED <<rows, issued, request>>

\* The hash of a token holds notify_by_email, TRUE when it was made.
TokenIsValid(s) == s \in mailed /\ rows[s].notify_by_email

\* unsubscribe_user_alert_subscription: the validation reads the row.
FollowLink(r, s) ==
  /\ request[r].pc = "idle"
  /\ s \in Live
  /\ TokenIsValid(s)
  /\ request' = [request EXCEPT ![r] =
       [pc |-> "unsubscribing", subs |-> {s}, instance |-> rows[s], data |-> NoInput]]
  /\ UNCHANGED <<rows, issued, mailed>>

\* Sensitivity variant: a save of every column.
UnsubscribedWhole(r, s) == [request[r].instance EXCEPT !.notify_by_email = FALSE]

\* What the save of an unsubscribe leaves of a row: save(update_fields) writes
\* notify_by_email, and raises when the row has gone.
Unsubscribed(r, s) ==
  IF rows[s] = NoRow THEN NoRow ELSE [rows[s] EXCEPT !.notify_by_email = FALSE]

Unsubscribe(r) ==
  /\ request[r].pc = "unsubscribing"
  /\ \E s \in request[r].subs : rows' = [rows EXCEPT ![s] = Unsubscribed(r, s)]
  /\ Respond(r)
  /\ UNCHANGED <<issued, mailed>>

\* The worker dies with its request, or the request fails.
Abort(r) ==
  /\ request[r].pc # "idle"
  /\ Respond(r)
  /\ UNCHANGED <<rows, issued, mailed>>

Next ==
  \/ \E r \in Request, u \in Users, data \in Input :
       \/ Create(r, u, data)
       \/ \E s \in Subscription : Update(r, u, s, data)
  \/ \E u \in Users, s \in Subscription : Delete(u, s)
  \/ \E r \in Request :
       \/ Accept(r) \/ Refuse(r) \/ Insert(r) \/ Save(r)
       \/ Unsubscribe(r) \/ Abort(r)
       \/ \E s \in Subscription : FollowLink(r, s)
  \/ \E s \in Subscription : Mail(s) \/ TokenExpires(s)

Spec == Init /\ [][Next]_vars

--------------------------------------------------------------------------------
\* The limit as emails.py:31 ("Number of subscription is static and less than
\* UserAlertSubscription.LIMIT_PER_USER") and the answer of validate_is_active
\* ("Only 10 active subscriptions are allowed") take it for granted: no user
\* has more active subscriptions than the limit.
WithinLimit == \A u \in Users : Cardinality(Active(u)) =< LIMIT_PER_USER

\* What the check before the write is worth: requests that pass it together, or
\* that write back an activation they have read, exceed the limit by at most
\* the number of the other requests served at once, however many follow each
\* other (serializers.py:32, mutations.py:98).
ActiveBounded ==
  \A u \in Users :
    Cardinality(Active(u)) =< LIMIT_PER_USER + Cardinality(Request) - 1

\* The requests that will write an active row of the user.
Activating(u) ==
  {r \in Request : /\ request[r].pc = "saving"
                   /\ request[r].instance.user = u
                   /\ Written(r).is_active}

Targets(u) == UNION {request[r].subs : r \in Activating(u)}

Creating(u) == {r \in Activating(u) : request[r].subs = {}}

\* The places of a user that are taken: by an active row, or by a row that a
\* request in its save is about to make active.
Places(u) == Active(u) \cup Targets(u)

\* The strengthening of ActiveBounded: a request in its save counts with the row
\* it is about to activate, which may be active already, or by itself when it is
\* about to create one.
PlacesBounded ==
  \A u \in Users :
    Cardinality(Places(u)) + Cardinality(Creating(u))
      =< LIMIT_PER_USER + Cardinality(Request) - 1

\* The requests that are between the read and the write of a row of the user.
Editing(u) ==
  {r \in Request : /\ request[r].pc \in {"checking", "saving"}
                   /\ request[r].instance.user = u}

\* No user has two requests at once between the read of a row and its write.
OneEditEach == \A u \in Users : \A r, q \in Editing(u) : r = q

\* A deleted subscription comes back only through an update that read it before
\* it was deleted and writes it after: an unsubscribe, a creation, or a request
\* that starts later never revives it (mutations.py:117, serializers.py:95).
NoGhostRow ==
  [][\A s \in issued :
       /\ rows[s] = NoRow
       /\ \A r \in Request : request[r].pc = "saving" => s \notin request[r].subs
       => rows'[s] = NoRow]_vars
================================================================================
