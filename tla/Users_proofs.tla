----------------------------- MODULE Users_proofs ------------------------------
(***************************************************************************)
(* Proofs about what users do and get, the components of the run of        *)
(* MCUsers: UserSubscriptions, for every number of users, requests and     *)
(* subscriptions and every limit; SubscriptionEmails, for every set of     *)
(* users, links and runs.                                                  *)
(***************************************************************************)
EXTENDS MCUsers, FiniteSetTheorems, TLAPS

(* UserSubscriptions. *)

\* A family of singletons has no more elements in its union than members.
LEMMA UnionOfSingletons ==
  ASSUME NEW R, IsFiniteSet(R), NEW g, \A r \in R : \E s : g[r] = {s}
  PROVE  /\ IsFiniteSet(UNION {g[r] : r \in R})
         /\ Cardinality(UNION {g[r] : r \in R}) =< Cardinality(R)
<1> DEFINE T == UNION {g[r] : r \in R}
           f == [r \in R |-> CHOOSE s : s \in g[r]]
<1>1. \A r \in R : g[r] = {f[r]}
  OBVIOUS
<1>2. f \in Surjection(R, T)
  BY <1>1 DEF Surjection
<1> HIDE DEF f
<1> QED BY <1>2, FS_Surjection

\* Merging an input into a row gives a row: a field the input leaves out keeps
\* its value.
LEMMA MergeType == \A row \in Row, data \in Input : Merge(row, data) \in Row
  BY SubscriptionsAssumption DEF Merge, Row, Input

\* A request that is served holds the row it started from, and only primary keys
\* that were given out are in use.
ServedOK ==
  /\ \A r \in Request : request[r].pc # "idle" => request[r].instance \in Row
  /\ \A r \in Request : request[r].subs \subseteq issued
  /\ Live \subseteq issued

SubscriptionInv == TypeOK /\ ServedOK

\* The types and ServedOK hold in every reachable state.
LEMMA ServedCorrect == Spec => []SubscriptionInv
<1> USE SubscriptionsAssumption
<1>1. Init => SubscriptionInv
  BY DEF Init, SubscriptionInv, TypeOK, ServedOK, Live, Idle, NoInput, Input
<1>2. SubscriptionInv /\ [Next]_vars => SubscriptionInv'
  <2> SUFFICES ASSUME SubscriptionInv, [Next]_vars PROVE SubscriptionInv'
    OBVIOUS
  <2> USE DEF SubscriptionInv, TypeOK, ServedOK, Live
  <2>a. Idle \in [pc : {"idle", "checking", "saving", "unsubscribing"},
                  subs : {{}} \cup {{s} : s \in Subscription},
                  instance : Row \cup {NoRow},
                  data : Input]
    BY DEF Idle, NoInput, Input
  <2>b. \A r \in Request : request[r].pc # "idle" => Written(r) \in Row
    BY MergeType DEF Written
  <2>1. ASSUME NEW r \in Request, NEW subs \in {{}} \cup {{s} : s \in issued},
               NEW instance \in Row, NEW data \in Input, Enter(r, subs, instance, data)
        PROVE  SubscriptionInv'
    BY <2>1 DEF Enter
  <2>2. ASSUME NEW r \in Request, NEW u \in Users, NEW data \in Input, Create(r, u, data)
        PROVE  SubscriptionInv'
    <3>1. Default(u) \in Row
      BY DEF Default, Row
    <3> QED BY <2>1, <2>2, <3>1 DEF Create
  <2>3. ASSUME NEW r \in Request, NEW u \in Users, NEW data \in Input,
               NEW s \in Subscription, Update(r, u, s, data)
        PROVE  SubscriptionInv'
    <3>1. rows[s] \in Row /\ {s} \in {{}} \cup {{x} : x \in issued}
      BY <2>3 DEF Update
    <3> QED BY <2>1, <2>3, <3>1 DEF Update
  <2>4. ASSUME NEW u \in Users, NEW s \in Subscription, Delete(u, s)
        PROVE  SubscriptionInv'
    BY <2>4 DEF Delete
  <2>5. ASSUME NEW r \in Request, Accept(r) \/ Refuse(r) \/ Abort(r)
        PROVE  SubscriptionInv'
    BY <2>5, <2>a DEF Accept, Refuse, Abort, Respond, Idle
  <2>6. ASSUME NEW r \in Request, Insert(r)
        PROVE  SubscriptionInv'
    BY <2>6, <2>a, <2>b DEF Insert, Respond, Idle
  <2>7. ASSUME NEW r \in Request, Save(r)
        PROVE  SubscriptionInv'
    BY <2>7, <2>a, <2>b DEF Save, Respond, Idle
  <2>8. ASSUME NEW r \in Request, Unsubscribe(r)
        PROVE  SubscriptionInv'
    <3>1. PICK s \in request[r].subs : rows' = [rows EXCEPT ![s] = Unsubscribed(r, s)]
      BY <2>8 DEF Unsubscribe
    <3>2. s \in Subscription /\ Unsubscribed(r, s) \in Row \cup {NoRow}
      BY DEF Unsubscribed, Row
    <3> QED BY <2>8, <2>a, <3>1, <3>2 DEF Unsubscribe, Respond, Idle
  <2>9. ASSUME NEW r \in Request, NEW s \in Subscription, FollowLink(r, s)
        PROVE  SubscriptionInv'
    <3>1. NoInput \in Input /\ rows[s] \in Row /\ s \in issued
      BY <2>9 DEF FollowLink, NoInput, Input
    <3> QED BY <2>9, <3>1 DEF FollowLink
  <2>10. ASSUME NEW s \in Subscription, Mail(s) \/ TokenExpires(s)
         PROVE  SubscriptionInv'
    BY <2>10 DEF Mail, TokenExpires
  <2>11. CASE UNCHANGED vars
    BY <2>11 DEF vars, Written
  <2> QED BY <2>2, <2>3, <2>4, <2>5, <2>6, <2>7, <2>8, <2>9, <2>10, <2>11 DEF Next
<1> QED BY <1>1, <1>2, PTL DEF Spec

\* Tables and requests keep their types, a partial update included
\* (mutations.py:73-101, serializers.py:54-98).
THEOREM SubscriptionsTypeCorrect == Spec => []TypeOK
  BY ServedCorrect, PTL DEF SubscriptionInv

--------------------------------------------------------------------------------
\* There are finitely many of both.
LEMMA PlacesFinite ==
  ASSUME SubscriptionInv, NEW u \in Users
  PROVE  /\ IsFiniteSet(Places(u)) /\ Cardinality(Places(u)) \in Nat
         /\ IsFiniteSet(Creating(u)) /\ Cardinality(Creating(u)) \in Nat
<1>1. Places(u) \subseteq Subscription
  BY DEF Places, Active, Live, Targets, Activating, SubscriptionInv, TypeOK
<1>2. Creating(u) \subseteq Request
  BY DEF Creating, Activating
<1> QED BY <1>1, <1>2, FS_Subset, FS_CardinalityType, SubscriptionsAssumption

\* Where the places of a user and the requests that create for it only shrink,
\* the bound stays.
LEMMA Shrinking ==
  ASSUME SubscriptionInv, SubscriptionInv', NEW u \in Users,
         Places(u)' \subseteq Places(u), Creating(u)' \subseteq Creating(u)
  PROVE  Cardinality(Places(u)') + Cardinality(Creating(u)')
           =< Cardinality(Places(u)) + Cardinality(Creating(u))
<1>1. Cardinality(Places(u)') =< Cardinality(Places(u))
  BY PlacesFinite, FS_Subset
<1>2. Cardinality(Creating(u)') =< Cardinality(Creating(u))
  BY PlacesFinite, FS_Subset
<1>3. /\ Cardinality(Places(u)) \in Nat /\ Cardinality(Creating(u)) \in Nat
      /\ Cardinality(Places(u)') \in Nat /\ Cardinality(Creating(u)') \in Nat
  <2>1. Cardinality(Places(u)) \in Nat /\ Cardinality(Creating(u)) \in Nat
    BY PlacesFinite
  <2>2. Cardinality(Places(u)') \in Nat /\ Cardinality(Creating(u)') \in Nat
    BY <1>1, <1>2, <2>1, PlacesFinite, FS_Subset, FS_CardinalityType
  <2> QED BY <2>1, <2>2
<1> QED BY <1>1, <1>2, <1>3

\* The requests in their save take at most a place each.
OnePlaceEach ==
  \A u \in Users :
    /\ IsFiniteSet(Targets(u))
    /\ Cardinality(Targets(u)) \in Nat
    /\ Cardinality(Targets(u)) + Cardinality(Creating(u)) =< Cardinality(Request)

LEMMA RequestsTakeOnePlace == SubscriptionInv => OnePlaceEach
<1> SUFFICES ASSUME SubscriptionInv, NEW u \in Users
             PROVE  /\ IsFiniteSet(Targets(u))
                    /\ Cardinality(Targets(u)) \in Nat
                    /\ Cardinality(Targets(u)) + Cardinality(Creating(u))
                         =< Cardinality(Request)
  BY DEF OnePlaceEach
<1> DEFINE R == Activating(u) \ Creating(u)
           g == [r \in Request |-> request[r].subs]
<1>1. R \subseteq Request /\ Creating(u) \subseteq Request /\ R \cap Creating(u) = {}
  BY DEF Activating, Creating
<1>2. IsFiniteSet(R) /\ IsFiniteSet(Creating(u))
  BY <1>1, FS_Subset, SubscriptionsAssumption
<1>3. \A r \in R : \E s : g[r] = {s}
  BY DEF Activating, Creating, SubscriptionInv, TypeOK
<1>4. Targets(u) = UNION {g[r] : r \in R}
  BY DEF Targets, Activating, Creating
<1> HIDE DEF g, R
<1>5. IsFiniteSet(Targets(u)) /\ Cardinality(Targets(u)) =< Cardinality(R)
  <2>1. /\ IsFiniteSet(UNION {g[r] : r \in R})
        /\ Cardinality(UNION {g[r] : r \in R}) =< Cardinality(R)
    BY <1>2, <1>3, UnionOfSingletons
  <2> QED BY <2>1, <1>4
<1>6. Cardinality(R \cup Creating(u)) = Cardinality(R) + Cardinality(Creating(u))
  <2>1. Cardinality(R \cap Creating(u)) = 0
    BY <1>1, FS_EmptySet
  <2>2. Cardinality(R \cup Creating(u))
          = Cardinality(R) + Cardinality(Creating(u)) - Cardinality(R \cap Creating(u))
    BY <1>2, FS_Union
  <2>3. Cardinality(R) \in Nat /\ Cardinality(Creating(u)) \in Nat
    BY <1>2, FS_CardinalityType
  <2> QED BY <2>1, <2>2, <2>3
<1>7. Cardinality(R \cup Creating(u)) =< Cardinality(Request)
  BY <1>1, FS_Subset, SubscriptionsAssumption
<1>8. /\ Cardinality(R) \in Nat /\ Cardinality(Creating(u)) \in Nat
      /\ Cardinality(Targets(u)) \in Nat /\ Cardinality(Request) \in Nat
  BY <1>2, <1>5, FS_CardinalityType, SubscriptionsAssumption
<1> QED BY <1>5, <1>6, <1>7, <1>8

\* So they do after a step.
LEMMA RequestsTakeOnePlaceNext == SubscriptionInv' => OnePlaceEach'
  BY RequestsTakeOnePlace, PTL

\* A step that takes a place frees another, or follows a count that was under
\* the limit.
LEMMA BoundedStep ==
  ASSUME SubscriptionInv, SubscriptionInv', PlacesBounded, [Next]_vars
  PROVE  PlacesBounded'
<1> DEFINE Bound == LIMIT_PER_USER + Cardinality(Request) - 1
<1> SUFFICES ASSUME NEW u \in Users
             PROVE  Cardinality(Places(u)') + Cardinality(Creating(u)') =< Bound
  BY DEF PlacesBounded
<1>a. Bound \in Int /\ Cardinality(Request) \in Nat
  BY SubscriptionsAssumption, FS_CardinalityType
<1>b. Cardinality(Places(u)) + Cardinality(Creating(u)) =< Bound
  BY DEF PlacesBounded
<1>c. /\ Cardinality(Places(u)) \in Nat
      /\ Cardinality(Creating(u)) \in Nat
  BY PlacesFinite
<1>d. OnePlaceEach'
  BY RequestsTakeOnePlaceNext
<1>e. ASSUME Places(u)' \subseteq Places(u), Creating(u)' \subseteq Creating(u)
      PROVE  Cardinality(Places(u)') + Cardinality(Creating(u)') =< Bound
  <2>1. /\ IsFiniteSet(Places(u)) /\ IsFiniteSet(Creating(u))
    BY PlacesFinite
  <2>2. /\ Cardinality(Places(u)') \in Nat
        /\ Cardinality(Creating(u)') \in Nat
    BY <1>e, <2>1, FS_Subset, FS_CardinalityType
  <2>3. Cardinality(Places(u)') + Cardinality(Creating(u)')
          =< Cardinality(Places(u)) + Cardinality(Creating(u))
    BY <1>e, Shrinking
  <2> QED BY <1>a, <1>b, <1>c, <2>2, <2>3
<1> HIDE DEF Bound
<1> USE DEF SubscriptionInv, TypeOK, ServedOK
<1>1. ASSUME NEW r \in Request, NEW v \in Users, NEW data \in Input, Create(r, v, data)
      PROVE  Cardinality(Places(u)') + Cardinality(Creating(u)') =< Bound
  <2>1. Activating(u)' = Activating(u)
    BY <1>1, SubscriptionsAssumption
       DEF Create, Enter, Activating, Written, Merge, Default, Input
  <2>2. \A q \in Activating(u) : request'[q] = request[q]
    BY <1>1 DEF Create, Enter, Activating
  <2>3. Places(u)' = Places(u) /\ Creating(u)' = Creating(u)
    BY <1>1, <2>1, <2>2 DEF Create, Enter, Places, Active, Live, Targets, Creating
  <2> QED BY <1>e, <2>3
<1>2. ASSUME NEW r \in Request, NEW v \in Users, NEW data \in Input,
             NEW s \in Subscription, Update(r, v, s, data)
      PROVE  Cardinality(Places(u)') + Cardinality(Creating(u)') =< Bound
  <2>1. \A q \in Activating(u)' : q # r => q \in Activating(u) /\ request'[q] = request[q]
    BY <1>2 DEF Update, Enter, Activating, Written
  <2>2. r \in Activating(u)' => s \in Active(u) /\ request'[r].subs = {s}
    BY <1>2, SubscriptionsAssumption
       DEF Update, Enter, Activating, Written, Merge, Active, Live, Input, Row
  <2>3. Active(u)' = Active(u)
    BY <1>2 DEF Update, Enter, Active, Live
  <2>4. Targets(u)' \subseteq Targets(u) \cup Active(u)
    BY <2>1, <2>2 DEF Targets
  <2>5. Creating(u)' \subseteq Creating(u)
    BY <2>1, <2>2 DEF Creating
  <2> QED BY <1>e, <2>3, <2>4, <2>5 DEF Places
<1>3. ASSUME NEW v \in Users, NEW s \in Subscription, Delete(v, s)
      PROVE  Cardinality(Places(u)') + Cardinality(Creating(u)') =< Bound
  <2>1. Active(u)' \subseteq Active(u)
    BY <1>3 DEF Delete, Active, Live
  <2>2. Activating(u)' = Activating(u) /\ request' = request
    BY <1>3 DEF Delete, Activating, Written
  <2> QED BY <1>e, <2>1, <2>2 DEF Places, Targets, Creating
<1>4. ASSUME NEW r \in Request, Accept(r)
      PROVE  Cardinality(Places(u)') + Cardinality(Creating(u)') =< Bound
  <2>1. Active(u)' = Active(u) /\ rows' = rows
    BY <1>4 DEF Accept, Active, Live
  <2>2. \A q \in Request : q # r => request'[q] = request[q]
    BY <1>4 DEF Accept
  <2>3. CASE r \notin Activating(u)'
    <3>1. \A q \in Activating(u)' : q \in Activating(u) /\ request'[q] = request[q]
      BY <2>2, <2>3 DEF Activating, Written
    <3>2. Targets(u)' \subseteq Targets(u) /\ Creating(u)' \subseteq Creating(u)
      BY <3>1 DEF Targets, Creating
    <3> QED BY <1>e, <2>1, <3>2 DEF Places
  <2>4. CASE r \in Activating(u)'
    <3>1. request'[r].subs = request[r].subs /\ request[r].instance.user = u
      BY <1>4, <2>4 DEF Accept, Activating
    <3>2. Places(u)' \subseteq Counted(r) \cup Targets(u)'
      BY <2>1, <2>4, <3>1 DEF Places, Counted, Targets
    <3>3. /\ IsFiniteSet(Counted(r)) /\ Cardinality(Counted(r)) \in Nat
      <4>1. Counted(r) \subseteq Subscription
        BY DEF Counted, Active, Live
      <4> QED BY <4>1, FS_Subset, FS_CardinalityType, SubscriptionsAssumption
    <3>4. Cardinality(Counted(r)) < LIMIT_PER_USER
      BY <1>4 DEF Accept, UnderLimit
    <3>5. /\ IsFiniteSet(Targets(u)')
          /\ Cardinality(Targets(u)') \in Nat
          /\ Cardinality(Targets(u)') + Cardinality(Creating(u)') =< Cardinality(Request)
      BY <1>d DEF OnePlaceEach
    <3>6. /\ IsFiniteSet(Counted(r) \cup Targets(u)')
          /\ Cardinality(Counted(r) \cup Targets(u)')
               = Cardinality(Counted(r)) + Cardinality(Targets(u)')
                   - Cardinality(Counted(r) \cap Targets(u)')
          /\ Cardinality(Counted(r) \cap Targets(u)') \in Nat
      BY <3>3, <3>5, FS_Union, FS_Intersection, FS_CardinalityType
    <3>7. /\ Cardinality(Places(u)') =< Cardinality(Counted(r) \cup Targets(u)')
          /\ Cardinality(Places(u)') \in Nat
      BY <3>2, <3>6, FS_Subset, FS_CardinalityType
    <3>8. Cardinality(Creating(u)') \in Nat
      <4>1. Creating(u)' \subseteq Request
        BY DEF Creating, Activating
      <4> QED BY <4>1, FS_Subset, FS_CardinalityType, SubscriptionsAssumption
    <3> QED BY <1>a, <3>3, <3>4, <3>5, <3>6, <3>7, <3>8, SubscriptionsAssumption DEF Bound
  <2> QED BY <2>3, <2>4
<1>5. ASSUME NEW r \in Request, Refuse(r) \/ Abort(r)
      PROVE  Cardinality(Places(u)') + Cardinality(Creating(u)') =< Bound
  <2>1. rows' = rows /\ Respond(r)
    BY <1>5 DEF Refuse, Abort
  <2>2. \A q \in Activating(u)' : q \in Activating(u) /\ request'[q] = request[q]
    BY <2>1 DEF Respond, Idle, Activating, Written
  <2>3. Places(u)' \subseteq Places(u) /\ Creating(u)' \subseteq Creating(u)
    BY <2>1, <2>2 DEF Places, Targets, Creating, Active, Live
  <2> QED BY <1>e, <2>3
<1>6. ASSUME NEW r \in Request, Insert(r)
      PROVE  Cardinality(Places(u)') + Cardinality(Creating(u)') =< Bound
  <2>1. PICK s \in Subscription \ issued : rows' = [rows EXCEPT ![s] = Written(r)]
    BY <1>6 DEF Insert
  <2>2. \A q \in Activating(u)' : q # r /\ q \in Activating(u) /\ request'[q] = request[q]
    BY <1>6 DEF Insert, Respond, Idle, Activating, Written
  <2>3. Targets(u)' \subseteq Targets(u) /\ Creating(u)' \subseteq Creating(u) \ {r}
    BY <2>2 DEF Targets, Creating
  <2>4. Written(r).user = request[r].instance.user
    BY <1>6 DEF Insert, Written, Merge, Row
  <2>5. CASE r \notin Creating(u)
    <3>1. Active(u)' \subseteq Active(u)
      BY <1>6, <2>1, <2>4, <2>5 DEF Insert, Active, Live, Creating, Activating
    <3> QED BY <1>e, <2>3, <3>1 DEF Places
  <2>6. CASE r \in Creating(u)
    <3>1. Places(u)' \subseteq Places(u) \cup {s}
      BY <2>1, <2>3 DEF Places, Active, Live
    <3>2. /\ IsFiniteSet(Places(u) \cup {s})
          /\ Cardinality(Places(u) \cup {s}) \in Nat
          /\ Cardinality(Places(u) \cup {s}) =< Cardinality(Places(u)) + 1
      <4>1. IsFiniteSet(Places(u))
        BY PlacesFinite
      <4>2. /\ IsFiniteSet(Places(u) \cup {s})
            /\ Cardinality(Places(u) \cup {s})
                 = IF s \in Places(u) THEN Cardinality(Places(u))
                                     ELSE Cardinality(Places(u)) + 1
        BY <4>1, FS_AddElement
      <4> HIDE DEF SubscriptionInv, TypeOK, ServedOK
      <4> QED BY <1>c, <4>2
    <3>3. Cardinality(Places(u)') =< Cardinality(Places(u) \cup {s})
      BY <3>1, <3>2, FS_Subset
    <3>4. Cardinality(Places(u)') \in Nat
      BY <3>1, <3>2, FS_Subset, FS_CardinalityType
    <3>5. /\ IsFiniteSet(Creating(u) \ {r})
          /\ Cardinality(Creating(u) \ {r}) = Cardinality(Creating(u)) - 1
      BY <2>6, PlacesFinite, FS_RemoveElement
    <3>6. Cardinality(Creating(u)') =< Cardinality(Creating(u) \ {r})
      BY <2>3, <3>5, FS_Subset
    <3>7. Cardinality(Creating(u)') \in Nat
      BY <2>3, <3>5, FS_Subset, FS_CardinalityType
    <3> QED BY <1>a, <1>b, <1>c, <3>2, <3>3, <3>4, <3>5, <3>6, <3>7
  <2> QED BY <2>5, <2>6
<1>7. ASSUME NEW r \in Request, Save(r)
      PROVE  Cardinality(Places(u)') + Cardinality(Creating(u)') =< Bound
  <2>1. PICK s \in request[r].subs : rows' = [rows EXCEPT ![s] = Written(r)]
    BY <1>7 DEF Save
  <2>2. \A q \in Activating(u)' : q \in Activating(u) /\ request'[q] = request[q]
    BY <1>7 DEF Save, Respond, Idle, Activating, Written
  <2>3. Targets(u)' \subseteq Targets(u) /\ Creating(u)' \subseteq Creating(u)
    BY <2>2 DEF Targets, Creating
  <2>4. Written(r).user = request[r].instance.user
    BY <1>7 DEF Save, Written, Merge, Row
  <2>5. Active(u)' \subseteq Active(u) \cup Targets(u)
    <3> SUFFICES ASSUME NEW x \in Active(u)', x \notin Active(u)
                 PROVE  x \in Targets(u)
      OBVIOUS
    <3>1. x = s /\ Written(r).is_active /\ Written(r).user = u
      BY <2>1 DEF Active, Live
    <3>2. r \in Activating(u)
      BY <1>7, <2>4, <3>1 DEF Save, Activating
    <3> QED BY <3>1, <3>2 DEF Targets
  <2> QED BY <1>e, <2>3, <2>5 DEF Places
<1>8. ASSUME NEW r \in Request, Unsubscribe(r)
      PROVE  Cardinality(Places(u)') + Cardinality(Creating(u)') =< Bound
  <2>1. PICK s \in request[r].subs : rows' = [rows EXCEPT ![s] = Unsubscribed(r, s)]
    BY <1>8 DEF Unsubscribe
  <2>2. \A q \in Activating(u)' : q \in Activating(u) /\ request'[q] = request[q]
    BY <1>8 DEF Unsubscribe, Respond, Idle, Activating, Written
  <2>3. Targets(u)' \subseteq Targets(u) /\ Creating(u)' \subseteq Creating(u)
    BY <2>2 DEF Targets, Creating
  <2>4. Active(u)' \subseteq Active(u)
    BY <2>1 DEF Unsubscribed, Active, Live, Row
  <2> QED BY <1>e, <2>3, <2>4 DEF Places
<1>9. ASSUME NEW r \in Request, NEW s \in Subscription, FollowLink(r, s)
      PROVE  Cardinality(Places(u)') + Cardinality(Creating(u)') =< Bound
  <2>1. \A q \in Activating(u)' : q \in Activating(u) /\ request'[q] = request[q]
    BY <1>9 DEF FollowLink, Activating, Written
  <2>2. Places(u)' \subseteq Places(u) /\ Creating(u)' \subseteq Creating(u)
    BY <1>9, <2>1 DEF FollowLink, Places, Targets, Creating, Active, Live
  <2> QED BY <1>e, <2>2
<1>10. ASSUME rows' = rows, request' = request
       PROVE  Cardinality(Places(u)') + Cardinality(Creating(u)') =< Bound
  <2>1. Places(u)' = Places(u) /\ Creating(u)' = Creating(u)
    BY <1>10 DEF Places, Targets, Creating, Active, Live, Activating, Written
  <2> QED BY <1>e, <2>1
<1>11. ASSUME NEW s \in Subscription, Mail(s) \/ TokenExpires(s)
       PROVE  Cardinality(Places(u)') + Cardinality(Creating(u)') =< Bound
  BY <1>10, <1>11 DEF Mail, TokenExpires
<1>12. CASE UNCHANGED vars
  BY <1>10, <1>12 DEF vars
<1> QED
  BY <1>1, <1>2, <1>3, <1>4, <1>5, <1>6, <1>7, <1>8, <1>9, <1>11, <1>12 DEF Next

\* The places that requests of a user take, and the subscriptions they are about to
\* create, are as many as the limit and the other requests allow
\* (serializers.py:32-46, mutations.py:73-101).
THEOREM PlacesStayBounded == Spec => []PlacesBounded
<1>1. Init => PlacesBounded
  <2> SUFFICES ASSUME Init, NEW u \in Users
               PROVE  Cardinality(Places(u)) + Cardinality(Creating(u))
                        =< LIMIT_PER_USER + Cardinality(Request) - 1
    BY DEF PlacesBounded
  <2>1. Places(u) = {} /\ Creating(u) = {}
    BY DEF Init, Idle, Places, Targets, Creating, Activating, Active, Live
  <2>2. Cardinality(Request) \in Nat /\ Cardinality({}) = 0
    BY SubscriptionsAssumption, FS_CardinalityType, FS_EmptySet
  <2> QED BY <2>1, <2>2, SubscriptionsAssumption
<1> QED BY <1>1, BoundedStep, ServedCorrect, PTL DEF Spec

\* However the requests of a user overlap, and whatever rows they write back,
\* the user never has more active subscriptions than the limit and the other
\* requests served at once (serializers.py:32-46, mutations.py:73-101).
THEOREM ActiveStaysBounded == Spec => []ActiveBounded
<1>1. SubscriptionInv /\ PlacesBounded => ActiveBounded
  <2> SUFFICES ASSUME SubscriptionInv, PlacesBounded, NEW u \in Users
               PROVE  Cardinality(Active(u)) =< LIMIT_PER_USER + Cardinality(Request) - 1
    BY DEF ActiveBounded
  <2>1. /\ IsFiniteSet(Places(u)) /\ Cardinality(Places(u)) \in Nat
        /\ Cardinality(Creating(u)) \in Nat
    BY PlacesFinite
  <2>2. Cardinality(Active(u)) =< Cardinality(Places(u)) /\ Cardinality(Active(u)) \in Nat
    BY <2>1, FS_Subset, FS_CardinalityType DEF Places
  <2>3. Cardinality(Places(u)) + Cardinality(Creating(u))
          =< LIMIT_PER_USER + Cardinality(Request) - 1
    BY DEF PlacesBounded
  <2>4. Cardinality(Request) \in Nat
    BY SubscriptionsAssumption, FS_CardinalityType
  <2> QED BY <2>1, <2>2, <2>3, <2>4, SubscriptionsAssumption
<1> QED BY <1>1, PlacesStayBounded, ServedCorrect, PTL

\* A user whose requests are served one at a time stays within the limit
\* (serializers.py:32-46).
THEOREM LimitHoldsAlone ==
  ASSUME Cardinality(Request) = 1
  PROVE  Spec => []WithinLimit
<1>1. ActiveBounded => WithinLimit
  <2> SUFFICES ASSUME ActiveBounded, NEW u \in Users
               PROVE  Cardinality(Active(u)) =< LIMIT_PER_USER
    BY DEF WithinLimit
  <2>1. Cardinality(Active(u)) =< LIMIT_PER_USER + 1 - 1
    BY DEF ActiveBounded
  <2> QED BY <2>1, SubscriptionsAssumption
<1> QED BY <1>1, ActiveStaysBounded, PTL

\* A request that is about to write an active row of a user leaves room for it: the
\* other active rows are under the limit.
RoomToSave ==
  \A u \in Users : \A r \in Activating(u) :
    Cardinality(Active(u) \ request[r].subs) < LIMIT_PER_USER

AloneInv == WithinLimit /\ RoomToSave

LEMMA FewerActive ==
  ASSUME SubscriptionInv, NEW u \in Users, NEW A, NEW B, A \subseteq B,
         B \subseteq Active(u)
  PROVE  /\ IsFiniteSet(B) /\ Cardinality(A) \in Nat /\ Cardinality(B) \in Nat
         /\ Cardinality(A) =< Cardinality(B)
<1>1. Active(u) \subseteq Subscription
  BY DEF Active, Live
<1> QED BY <1>1, FS_Subset, FS_CardinalityType, SubscriptionsAssumption

\* Where the active rows of a user only shrink, and a request that is to write one
\* was to do so before, the limit stays.
LEMMA AloneShrinks ==
  ASSUME SubscriptionInv, AloneInv, NEW u \in Users, Active(u)' \subseteq Active(u),
         \A q \in Activating(u)' : q \in Activating(u) /\ request'[q].subs = request[q].subs
  PROVE  /\ Cardinality(Active(u)') =< LIMIT_PER_USER
         /\ \A q \in Activating(u)' :
              Cardinality(Active(u)' \ request'[q].subs) < LIMIT_PER_USER
<1>1. Cardinality(Active(u)') =< LIMIT_PER_USER
  <2>1. /\ Cardinality(Active(u)') \in Nat /\ Cardinality(Active(u)) \in Nat
        /\ Cardinality(Active(u)') =< Cardinality(Active(u))
    BY FewerActive
  <2> QED BY <2>1, SubscriptionsAssumption DEF AloneInv, WithinLimit
<1>2. ASSUME NEW q \in Activating(u)'
      PROVE  Cardinality(Active(u)' \ request'[q].subs) < LIMIT_PER_USER
  <2>1. q \in Activating(u) /\ request'[q].subs = request[q].subs
    BY <1>2
  <2> DEFINE A == Active(u)' \ request[q].subs
             B == Active(u) \ request[q].subs
  <2>2. A \subseteq B /\ B \subseteq Active(u)
    OBVIOUS
  <2>3. Cardinality(A) \in Nat /\ Cardinality(B) \in Nat /\ Cardinality(A) =< Cardinality(B)
    BY <2>2, FewerActive
  <2>4. Cardinality(B) < LIMIT_PER_USER
    BY <2>1 DEF AloneInv, RoomToSave
  <2> QED BY <2>1, <2>3, <2>4, SubscriptionsAssumption
<1> QED BY <1>1, <1>2

\* A request that writes an active row has room for it, and no other request of
\* the user is to write one.
LEMMA AloneAdds ==
  ASSUME SubscriptionInv, AloneInv, NEW u \in Users, NEW r \in Activating(u), NEW s,
         Active(u)' \subseteq (Active(u) \ request[r].subs) \cup {s}
  PROVE  Cardinality(Active(u)') =< LIMIT_PER_USER
<1> DEFINE B == Active(u) \ request[r].subs
<1>1. IsFiniteSet(B) /\ Cardinality(B) \in Nat
  BY FewerActive
<1>2. Cardinality(B) < LIMIT_PER_USER
  BY DEF AloneInv, RoomToSave
<1>3. Active(u)' \subseteq B \cup {s}
  OBVIOUS
<1> HIDE DEF B
<1>4. /\ IsFiniteSet(B \cup {s}) /\ Cardinality(B \cup {s}) \in Nat
      /\ Cardinality(B \cup {s}) =< Cardinality(B) + 1
  <2>1. /\ IsFiniteSet(B \cup {s})
        /\ Cardinality(B \cup {s}) = IF s \in B THEN Cardinality(B) ELSE Cardinality(B) + 1
    BY <1>1, FS_AddElement
  <2> QED BY <1>1, <2>1
<1>5. Cardinality(Active(u)') =< Cardinality(B \cup {s}) /\ Cardinality(Active(u)') \in Nat
  BY <1>3, <1>4, FS_Subset, FS_CardinalityType
<1> QED BY <1>1, <1>2, <1>4, <1>5, SubscriptionsAssumption

LEMMA AloneStep ==
  ASSUME SubscriptionInv, SubscriptionInv', AloneInv, OneEditEach, OneEditEach', [Next]_vars
  PROVE  AloneInv'
<1> SUFFICES ASSUME NEW u \in Users
             PROVE  /\ Cardinality(Active(u)') =< LIMIT_PER_USER
                    /\ \A q \in Activating(u)' :
                         Cardinality(Active(u)' \ request'[q].subs) < LIMIT_PER_USER
  BY DEF AloneInv, WithinLimit, RoomToSave
<1> DEFINE Goal == /\ Cardinality(Active(u)') =< LIMIT_PER_USER
                   /\ \A q \in Activating(u)' :
                        Cardinality(Active(u)' \ request'[q].subs) < LIMIT_PER_USER
<1>e. ASSUME Active(u)' \subseteq Active(u),
             \A q \in Activating(u)' : q \in Activating(u) /\ request'[q].subs = request[q].subs
      PROVE  Goal
  BY <1>e, AloneShrinks
<1>r. ASSUME NEW r \in Request, Active(u)' = Active(u),
             \A q \in Activating(u)' :
               q # r => q \in Activating(u) /\ request'[q].subs = request[q].subs,
             r \in Activating(u)' => Cardinality(Active(u) \ request'[r].subs) < LIMIT_PER_USER
      PROVE  Goal
  <2>1. Cardinality(Active(u)') =< LIMIT_PER_USER
    BY <1>r DEF AloneInv, WithinLimit
  <2>2. \A q \in Activating(u)' : Cardinality(Active(u)' \ request'[q].subs) < LIMIT_PER_USER
    BY <1>r DEF AloneInv, RoomToSave
  <2> QED BY <2>1, <2>2
<1> HIDE DEF Goal
<1> USE DEF SubscriptionInv, TypeOK, ServedOK
<1>1. ASSUME NEW r \in Request, NEW v \in Users, NEW data \in Input, Create(r, v, data)
      PROVE  Goal
  <2>1. Activating(u)' = Activating(u)
    BY <1>1, SubscriptionsAssumption
       DEF Create, Enter, Activating, Written, Merge, Default, Input
  <2>2. \A q \in Activating(u) : request'[q] = request[q]
    BY <1>1 DEF Create, Enter, Activating
  <2>3. Active(u)' = Active(u)
    BY <1>1 DEF Create, Enter, Active, Live
  <2> QED BY <1>e, <2>1, <2>2, <2>3
<1>2. ASSUME NEW r \in Request, NEW v \in Users, NEW data \in Input,
             NEW s \in Subscription, Update(r, v, s, data)
      PROVE  Goal
  <2>1. \A q \in Activating(u)' : q # r => q \in Activating(u) /\ request'[q].subs = request[q].subs
    BY <1>2 DEF Update, Enter, Activating, Written
  <2>2. r \in Activating(u)' => s \in Active(u) /\ request'[r].subs = {s}
    BY <1>2, SubscriptionsAssumption
       DEF Update, Enter, Activating, Written, Merge, Active, Live, Input, Row
  <2>3. Active(u)' = Active(u)
    BY <1>2 DEF Update, Enter, Active, Live
  <2>4. ASSUME s \in Active(u) PROVE Cardinality(Active(u) \ {s}) < LIMIT_PER_USER
    <3>1. IsFiniteSet(Active(u)) /\ Cardinality(Active(u)) \in Nat
      BY FewerActive
    <3>2. Cardinality(Active(u) \ {s}) = Cardinality(Active(u)) - 1
      BY <2>4, <3>1, FS_RemoveElement
    <3>3. Cardinality(Active(u)) =< LIMIT_PER_USER
      BY DEF AloneInv, WithinLimit
    <3> HIDE DEF SubscriptionInv, TypeOK, ServedOK
    <3> QED BY <3>1, <3>2, <3>3, SubscriptionsAssumption
  <2> QED BY <1>r, <2>1, <2>2, <2>3, <2>4
<1>3. ASSUME NEW v \in Users, NEW s \in Subscription, Delete(v, s)
      PROVE  Goal
  <2>1. Active(u)' \subseteq Active(u)
    BY <1>3 DEF Delete, Active, Live
  <2>2. Activating(u)' = Activating(u) /\ request' = request
    BY <1>3 DEF Delete, Activating, Written
  <2> QED BY <1>e, <2>1, <2>2
<1>4. ASSUME NEW r \in Request, Accept(r)
      PROVE  Goal
  <2>1. Active(u)' = Active(u)
    BY <1>4 DEF Accept, Active, Live
  <2>2. \A q \in Activating(u)' : q # r => q \in Activating(u) /\ request'[q].subs = request[q].subs
    BY <1>4 DEF Accept, Activating, Written
  <2>3. ASSUME r \in Activating(u)'
        PROVE  Cardinality(Active(u) \ request'[r].subs) < LIMIT_PER_USER
    <3>1. request'[r].subs = request[r].subs /\ request[r].instance.user = u
      BY <1>4, <2>3 DEF Accept, Activating
    <3>2. Counted(r) = Active(u) \ request'[r].subs
      BY <3>1 DEF Counted
    <3> QED BY <1>4, <3>2 DEF Accept, UnderLimit
  <2> QED BY <1>r, <2>1, <2>2, <2>3
<1>5. ASSUME NEW r \in Request, Refuse(r) \/ Abort(r)
      PROVE  Goal
  <2>1. rows' = rows /\ Respond(r)
    BY <1>5 DEF Refuse, Abort
  <2>2. \A q \in Activating(u)' : q \in Activating(u) /\ request'[q].subs = request[q].subs
    BY <2>1 DEF Respond, Idle, Activating, Written
  <2>3. Active(u)' \subseteq Active(u)
    BY <2>1 DEF Active, Live
  <2> QED BY <1>e, <2>2, <2>3
<1>6. ASSUME NEW r \in Request, Insert(r) \/ Save(r)
      PROVE  Goal
  <2>1. PICK s \in Subscription :
               /\ rows' = [rows EXCEPT ![s] = Written(r)]
               /\ request[r].subs # {} => request[r].subs = {s}
               /\ request[r].subs = {} => s \notin issued
    BY <1>6 DEF Insert, Save
  <2>2. \A q \in Activating(u)' : q # r /\ q \in Activating(u) /\ request'[q].subs = request[q].subs
    BY <1>6 DEF Insert, Save, Respond, Idle, Activating, Written
  <2>3. Written(r).user = request[r].instance.user
    BY <1>6 DEF Insert, Save, Written, Merge, Row
  <2>4. CASE r \notin Activating(u)
    <3>1. Active(u)' \subseteq Active(u)
      BY <1>6, <2>1, <2>3, <2>4 DEF Insert, Save, Active, Live, Activating
    <3> QED BY <1>e, <2>2, <3>1
  <2>5. CASE r \in Activating(u)
    <3>1. Active(u)' \subseteq (Active(u) \ request[r].subs) \cup {s}
      BY <2>1 DEF Active, Live
    <3>2. Cardinality(Active(u)') =< LIMIT_PER_USER
      BY <2>5, <3>1, AloneAdds
    <3>3. Activating(u)' = {}
      <4>1. Activating(u) \subseteq Editing(u)
        BY DEF Activating, Editing
      <4> QED BY <2>2, <2>5, <4>1 DEF OneEditEach
    <3> QED BY <3>2, <3>3 DEF Goal
  <2> QED BY <2>4, <2>5
<1>7. ASSUME NEW r \in Request, Unsubscribe(r)
      PROVE  Goal
  <2>1. PICK s \in request[r].subs : rows' = [rows EXCEPT ![s] = Unsubscribed(r, s)]
    BY <1>7 DEF Unsubscribe
  <2>2. \A q \in Activating(u)' : q \in Activating(u) /\ request'[q].subs = request[q].subs
    BY <1>7 DEF Unsubscribe, Respond, Idle, Activating, Written
  <2>3. Active(u)' \subseteq Active(u)
    BY <2>1 DEF Unsubscribed, Active, Live, Row
  <2> QED BY <1>e, <2>2, <2>3
<1>8. ASSUME NEW r \in Request, NEW s \in Subscription, FollowLink(r, s)
      PROVE  Goal
  <2>1. \A q \in Activating(u)' : q \in Activating(u) /\ request'[q].subs = request[q].subs
    BY <1>8 DEF FollowLink, Activating, Written
  <2>2. Active(u)' \subseteq Active(u)
    BY <1>8 DEF FollowLink, Active, Live
  <2> QED BY <1>e, <2>1, <2>2
<1>9. ASSUME rows' = rows, request' = request
      PROVE  Goal
  <2>1. Active(u)' = Active(u) /\ Activating(u)' = Activating(u)
    BY <1>9 DEF Active, Live, Activating, Written
  <2> QED BY <1>9, <1>e, <2>1
<1>10. Goal
  BY <1>1, <1>2, <1>3, <1>4, <1>5, <1>6, <1>7, <1>8, <1>9
  DEF Next, Mail, TokenExpires, vars
<1> QED BY <1>10 DEF Goal

\* Two requests of one user between a read and its write are the only way over
\* the limit: where no user has them, none has more active subscriptions than it,
\* however many requests the users are served side by side and however old the row
\* is that an update writes back (serializers.py:32-46, mutations.py:73-101).
THEOREM LimitHoldsOneEditEach == Spec /\ []OneEditEach => []WithinLimit
<1>1. Init => AloneInv
  <2> SUFFICES ASSUME Init, NEW u \in Users
               PROVE  /\ Cardinality(Active(u)) =< LIMIT_PER_USER
                      /\ \A r \in Activating(u) :
                           Cardinality(Active(u) \ request[r].subs) < LIMIT_PER_USER
    BY DEF AloneInv, WithinLimit, RoomToSave
  <2>1. Active(u) = {} /\ Activating(u) = {}
    BY DEF Init, Idle, Activating, Active, Live
  <2> QED BY <2>1, FS_EmptySet, SubscriptionsAssumption
<1>2. AloneInv => WithinLimit
  BY DEF AloneInv
<1> QED BY <1>1, <1>2, AloneStep, ServedCorrect, PTL DEF Spec

\* The primary key of a deleted subscription is given to no other, so that only
\* an update that has read the row can write it again (mutations.py:117,
\* serializers.py:95).
THEOREM DeletedStaysDeleted == Spec => NoGhostRow
<1>1. SubscriptionInv /\ [Next]_vars =>
        [\A s \in issued :
           /\ rows[s] = NoRow
           /\ \A r \in Request : request[r].pc = "saving" => s \notin request[r].subs
           => rows'[s] = NoRow]_vars
  <2> SUFFICES ASSUME SubscriptionInv, Next, NEW s \in issued, rows[s] = NoRow,
                      \A r \in Request : request[r].pc = "saving" => s \notin request[r].subs
               PROVE  rows'[s] = NoRow
    OBVIOUS
  <2>0. TypeOK /\ s \in Subscription
    BY DEF SubscriptionInv, TypeOK
  <2>1. CASE UNCHANGED rows
    BY <2>1
  <2>2. ASSUME NEW u \in Users, NEW q \in Subscription, Delete(u, q)
        PROVE  rows'[s] = NoRow
    BY <2>0, <2>2 DEF Delete, TypeOK
  <2>3. ASSUME NEW r \in Request, Insert(r)
        PROVE  rows'[s] = NoRow
    BY <2>0, <2>3 DEF Insert, TypeOK
  <2>4. ASSUME NEW r \in Request, Save(r)
        PROVE  rows'[s] = NoRow
    BY <2>0, <2>4 DEF Save, TypeOK
  <2>5. ASSUME NEW r \in Request, Unsubscribe(r)
        PROVE  rows'[s] = NoRow
    BY <2>0, <2>5 DEF Unsubscribe, Unsubscribed, TypeOK
  <2> QED
    BY <2>1, <2>2, <2>3, <2>4, <2>5
    DEF Next, Create, Update, Enter, Accept, Refuse, Abort, FollowLink, Mail, TokenExpires
<1> QED BY <1>1, ServedCorrect, PTL DEF Spec, NoGhostRow

--------------------------------------------------------------------------------

(* SubscriptionEmails. *)

\* A pair is the pair of its parts.
LEMMA PairParts ==
  ASSUME NEW p \in TagRow
  PROVE  p[1] \in MailSubscription /\ p[2] \in Url /\ p = <<p[1], p[2]>>
BY DEF TagRow

\* What a mail lists has been tagged and was sent within a period.
LEMMA ComposedLines ==
  ASSUME NEW u \in User, NEW F \in [Owned(u) -> SUBSET Url],
         \A s \in Owned(u) : IsLatest(F[s], s),
         NEW p \in TagRow, p[1] \in Owned(u), p[2] \in F[p[1]]
  PROVE  tagged[p] > 0 /\ sent[p[2]] >= time - Period
<1>1. p[2] \in Window(p[1])
  BY DEF IsLatest
<1> QED BY <1>1, PairParts DEF Window

LEMMA NoMailType ==
  /\ NoMail \in [user: User, lines: SUBSET TagRow, at: Time] /\ NoMail.lines = {}
  /\ Resting.step = "resting" /\ Resting.todo = {} /\ Resting.mail = NoMail
  /\ Resting \in [step: {"resting"}, todo: {{}}, mail: {NoMail}]
  /\ Waiting \in [step: {"waiting"}, todo: {{}}, mail: {NoMail}]
<1>1. NoMail \in [user: User, lines: SUBSET TagRow, at: Time] /\ NoMail.lines = {}
  <2>1. (CHOOSE u \in User : TRUE) \in User /\ 0 \in Time
    BY EmailsAssumption DEF Time
  <2> QED BY <2>1 DEF NoMail
<1> QED BY <1>1 DEF Resting, Waiting

LEMMA NextUserType ==
  ASSUME EmailsTypeOK
  PROVE  NextUser \in [step: {"next"}, todo: {task.todo}, mail: {NoMail}]
BY NoMailType DEF NextUser, EmailsTypeOK

\* Tagging, mails and the run of the task keep their types, and what the mail in
\* hand lists has been tagged (emails.py:30-110, tasks.py).
THEOREM EmailsTyped == EmailsSpec => []EmailsTypeOK
<1> USE EmailsAssumption
<1>1. EmailsInit => EmailsTypeOK
  BY DEF EmailsInit, EmailsTypeOK, Delivery!Init, TagRow, Time, Waiting, NoMail
<1>2. EmailsTypeOK /\ [EmailsNext]_emailsVars => EmailsTypeOK'
  <2> SUFFICES ASSUME EmailsTypeOK, [EmailsNext]_emailsVars PROVE EmailsTypeOK'
    OBVIOUS
  <2> USE DEF EmailsTypeOK
  <2>1. CASE UNCHANGED emailsVars
    BY <2>1 DEF emailsVars, mailVars
  <2>2. ASSUME NEW a \in Url, Arrive(a) PROVE EmailsTypeOK'
    BY <2>2 DEF Arrive, Delivery!Arrive, mailVars, Time
  <2>3. CASE Tag
    BY <2>3 DEF Tag, Delivery!Deliver, mailVars, TagRow
  <2>4. ASSUME NEW s \in MailSubscription, Select(s) PROVE EmailsTypeOK'
    BY <2>4 DEF Select
  <2>5. CASE MailTick
    BY <2>5, NoMailType DEF MailTick, Time
  <2>6. CASE StartRun
    <3>1. {Owner[s] : s \in selected} \in SUBSET User
      OBVIOUS
    <3> QED BY <2>6, <3>1 DEF StartRun
  <2>7. ASSUME NEW u \in User, Compose(u) PROVE EmailsTypeOK'
    <3>1. PICK F \in [Owned(u) -> SUBSET Url] :
            /\ \A s \in Owned(u) : IsLatest(F[s], s)
            /\ LET lines == {p \in TagRow : p[1] \in Owned(u) /\ p[2] \in F[p[1]]} IN
               task' = [step |-> IF lines = {} THEN "stamp" ELSE "send",
                        todo |-> task.todo \ {u},
                        mail |-> [user |-> u, lines |-> lines, at |-> time]]
      BY <2>7 DEF Compose
    <3> DEFINE lines == {p \in TagRow : p[1] \in Owned(u) /\ p[2] \in F[p[1]]}
    <3>2. \A p \in lines : tagged[p] > 0
      BY <3>1, ComposedLines
    <3>3. UNCHANGED <<state, tagged, sent, selected, time, beat, mailFaults, timesMailed,
                      lastSentAt, promised>>
      BY <2>7 DEF Compose
    <3> QED BY <3>1, <3>2, <3>3
  <2>8. CASE Send
    BY <2>8 DEF Send
  <2>9. CASE SendFails
    BY <2>9, NoMailType, NextUserType DEF SendFails
  <2>10. CASE Stamp
    BY <2>10, NoMailType, NextUserType DEF Stamp
  <2>11. CASE EndRun
    BY <2>11, NoMailType DEF EndRun
  <2>12. CASE Killed
    BY <2>12, NoMailType DEF Killed
  <2> QED
    BY <2>1, <2>2, <2>3, <2>4, <2>5, <2>6, <2>7, <2>8, <2>9, <2>10, <2>11, <2>12
    DEF EmailsNext, EmailTask
<1> QED BY <1>1, <1>2, PTL DEF EmailsSpec

\* What MailsBound says of p outlives a step that mails p no more often and
\* gives the run no mail to its owner that it had not to compose before.
LEMMA MailsKept ==
  ASSUME NEW p \in TagRow, EmailsTypeOK, EmailsTypeOK', MailsBound(p),
         beat' = beat, sent'[p[2]] = sent[p[2]], tagged'[p] >= tagged[p],
         Mails(p)' <= Mails(p), StillTo(Owner[p[1]])' => StillTo(Owner[p[1]])
  PROVE  MailsBound(p)'
<1>1. /\ p[2] \in Url /\ sent[p[2]] \in Int /\ beat \in Int /\ Period \in Nat /\ Delay \in Nat
      /\ Mails(p) \in Int /\ Mails(p)' \in Int /\ tagged[p] \in Nat /\ tagged'[p] \in Nat
  BY EmailsAssumption, PairParts DEF EmailsTypeOK, Time, Mails
<1> QED BY <1>1 DEF MailsBound

LEMMA MailsInductive ==
  EmailsTypeOK /\ EmailsTypeOK' /\ MailsInv /\ [EmailsNext]_emailsVars => MailsInv'
<1> SUFFICES ASSUME EmailsTypeOK, EmailsTypeOK', MailsInv, [EmailsNext]_emailsVars
             PROVE  MailsInv'
  OBVIOUS
<1> USE EmailsAssumption
<1>a. /\ beat \in Int /\ time \in Int /\ beat' \in Int /\ time' \in Int
      /\ \A a \in Url : sent[a] \in Int
      /\ \A p \in TagRow : /\ p[1] \in MailSubscription /\ p[2] \in Url
                           /\ timesMailed[p] \in Nat /\ tagged[p] \in Nat
  BY PairParts DEF EmailsTypeOK, Time
<1>1. CASE UNCHANGED emailsVars
  BY <1>1 DEF emailsVars, mailVars, MailsInv, Clocked, ArrivedFirst, MailsBound, Mails, InMail,
              StillTo
<1>2. ASSUME NEW a \in Url, Arrive(a) PROVE MailsInv'
  <2>1. /\ state[a] = "absent" /\ state' = [state EXCEPT ![a] = "pending"] /\ tagged' = tagged
        /\ UNCHANGED <<selected, time, beat, mailFaults, task, timesMailed, lastSentAt, promised>>
    BY <1>2 DEF Arrive, Delivery!Arrive, mailVars
  <2>2. PICK t \in 0 .. time : sent' = [sent EXCEPT ![a] = t]
    BY <1>2 DEF Arrive
  <2>3. Clocked'
    BY <2>1 DEF MailsInv, Clocked
  <2>4. ArrivedFirst'
    BY <2>1, <2>2, <1>a DEF MailsInv, ArrivedFirst, EmailsTypeOK
  <2>5. ASSUME NEW p \in TagRow PROVE MailsBound(p)'
    <3>1. Mails(p)' = Mails(p) /\ (StillTo(Owner[p[1]])' <=> StillTo(Owner[p[1]])) /\ Mails(p) \in Nat
      BY <2>1, <1>a DEF Mails, InMail, StillTo
    <3>2. CASE p[2] = a
      <4>1. tagged[p] = 0
        BY <2>1, <3>2, <1>a, PairParts DEF MailsInv, ArrivedFirst
      <4>2. Mails(p)' = 0
        BY <4>1, <3>1 DEF MailsInv, MailsBound
      <4> QED BY <4>2 DEF MailsBound
    <3>3. CASE p[2] # a
      <4>1. sent'[p[2]] = sent[p[2]]
        BY <3>3, <2>2, <1>a DEF EmailsTypeOK
      <4> QED BY <4>1, <3>1, <2>1, <1>a, MailsKept DEF MailsInv
    <3> QED BY <3>2, <3>3
  <2> QED BY <2>3, <2>4, <2>5 DEF MailsInv
<1>3. CASE Tag
  <2>1. /\ \A a \in Url : state'[a] = "absent" => state[a] = "absent"
        /\ \A p \in TagRow : /\ tagged'[p] >= tagged[p]
                             /\ state[p[2]] = "absent" => tagged'[p] = tagged[p]
    BY <1>3, <1>a DEF Tag, Delivery!Deliver, TagRow, EmailsTypeOK
  <2>2. UNCHANGED <<sent, selected, time, beat, mailFaults, task, timesMailed, lastSentAt, promised>>
    BY <1>3 DEF Tag, mailVars
  <2>3. Clocked'
    BY <2>2 DEF MailsInv, Clocked
  <2>4. ArrivedFirst'
    <3>1. \A s \in MailSubscription, a \in Url :
            <<s, a>> \in TagRow /\ <<s, a>>[2] = a
      BY DEF TagRow
    <3> QED BY <3>1, <2>1, <2>2 DEF MailsInv, ArrivedFirst
  <2>5. ASSUME NEW p \in TagRow PROVE MailsBound(p)'
    <3>1. Mails(p)' = Mails(p) /\ (StillTo(Owner[p[1]])' <=> StillTo(Owner[p[1]])) /\ Mails(p) \in Nat
      BY <2>2, <1>a DEF Mails, InMail, StillTo
    <3> QED BY <3>1, <2>1, <2>2, MailsKept DEF MailsInv
  <2> QED BY <2>3, <2>4, <2>5 DEF MailsInv
<1>4. ASSUME NEW s \in MailSubscription, Select(s) PROVE MailsInv'
  BY <1>4 DEF Select, MailsInv, Clocked, ArrivedFirst, MailsBound, Mails, InMail, StillTo
<1>5. CASE MailTick
  <2>1. /\ UNCHANGED <<state, tagged, sent, timesMailed>>
        /\ time' = time + 1
        /\ task.step = "resting" \/ time < beat + Delay
    BY <1>5 DEF MailTick
  <2>2. ArrivedFirst'
    BY <2>1, <1>a DEF MailsInv, ArrivedFirst
  <2>3. CASE time' = beat + Period
    <3>1. beat' = time' /\ task' = Waiting
      BY <1>5, <2>3 DEF MailTick
    <3>2. task.step = "resting"
      BY <2>1, <2>3, <1>a DEF MailsInv
    <3>3. Clocked'
      BY <3>1, <2>1, <2>3, <1>a, NoMailType DEF Clocked
    <3>4. ASSUME NEW p \in TagRow PROVE MailsBound(p)'
      <4>1. /\ Mails(p) = timesMailed[p] /\ Mails(p)' = timesMailed[p]
            /\ ~StillTo(Owner[p[1]]) /\ StillTo(Owner[p[1]])'
        BY <3>1, <3>2, <2>1, <1>a, NoMailType DEF Mails, InMail, StillTo
      <4>2. MailsBound(p)
        BY DEF MailsInv
      <4> QED BY <4>1, <4>2, <3>1, <2>1, <2>3, <1>a DEF MailsBound
    <3> QED BY <3>3, <3>4, <2>2 DEF MailsInv
  <2>4. CASE time' # beat + Period
    <3>1. UNCHANGED <<beat, task>>
      BY <1>5, <2>4 DEF MailTick
    <3>2. Clocked'
      BY <3>1, <2>1, <2>4, <1>a DEF MailsInv, Clocked
    <3>3. ASSUME NEW p \in TagRow PROVE MailsBound(p)'
      BY <3>1, <2>1 DEF MailsInv, MailsBound, Mails, InMail, StillTo
    <3> QED BY <3>2, <3>3, <2>2 DEF MailsInv
  <2> QED BY <2>3, <2>4
<1>6. ASSUME UNCHANGED <<state, tagged, sent, time, beat>>,
             task'.step # "resting" => task.step # "resting",
             task'.step \in {"send", "stamp"} => task.step \in {"send", "stamp"} /\ task'.mail = task.mail,
             \A p \in TagRow : /\ Mails(p)' <= Mails(p)
                               /\ StillTo(Owner[p[1]])' => StillTo(Owner[p[1]])
      PROVE  MailsInv'
  <2>1. Clocked' /\ ArrivedFirst'
    BY <1>6 DEF MailsInv, Clocked, ArrivedFirst
  <2>2. ASSUME NEW p \in TagRow PROVE MailsBound(p)'
    BY <1>6, <1>a, MailsKept DEF MailsInv
  <2> QED BY <2>1, <2>2 DEF MailsInv
<1>7. CASE StartRun
  <2>1. \A p \in TagRow : /\ Mails(p)' = Mails(p) /\ Mails(p) \in Nat
                          /\ StillTo(Owner[p[1]])
    <3>1. /\ task.step = "waiting" /\ task'.step = "next"
          /\ UNCHANGED timesMailed
      BY <1>7 DEF StartRun, EmailsTypeOK
    <3> QED BY <3>1, <1>a DEF Mails, InMail, StillTo
  <2>2. task.step = "waiting" /\ task'.step = "next"
    BY <1>7 DEF StartRun, EmailsTypeOK
  <2> QED BY <1>6, <1>7, <2>1, <2>2 DEF StartRun
<1>8. ASSUME NEW u \in User, Compose(u) PROVE MailsInv'
  <2>1. PICK F \in [Owned(u) -> SUBSET Url] :
          /\ \A s \in Owned(u) : IsLatest(F[s], s)
          /\ LET lines == {p \in TagRow : p[1] \in Owned(u) /\ p[2] \in F[p[1]]} IN
             task' = [step |-> IF lines = {} THEN "stamp" ELSE "send",
                      todo |-> task.todo \ {u},
                      mail |-> [user |-> u, lines |-> lines, at |-> time]]
    BY <1>8 DEF Compose
  <2> DEFINE lines == {p \in TagRow : p[1] \in Owned(u) /\ p[2] \in F[p[1]]}
  <2>2. /\ task.step = "next" /\ u \in task.todo
        /\ UNCHANGED <<state, tagged, sent, selected, time, beat, mailFaults, timesMailed,
                       lastSentAt, promised>>
    BY <1>8 DEF Compose
  <2>3. /\ task'.step = IF lines = {} THEN "stamp" ELSE "send"
        /\ task'.todo = task.todo \ {u} /\ task'.mail.lines = lines
        /\ task'.mail.at = time
    BY <2>1
  <2>4. Clocked' /\ ArrivedFirst'
    BY <2>2, <2>3, <1>a DEF MailsInv, Clocked, ArrivedFirst
  <2>5. ASSUME NEW p \in TagRow PROVE MailsBound(p)'
    <3>1. Mails(p) = timesMailed[p]
      BY <2>2, <1>a DEF Mails, InMail
    <3>2. CASE p \in lines
      <4>1. Owner[p[1]] = u /\ tagged[p] > 0 /\ sent[p[2]] >= time - Period
        BY <3>2, <2>1, ComposedLines DEF Owned
      <4>2. StillTo(Owner[p[1]]) /\ ~StillTo(Owner[p[1]])'
        BY <4>1, <2>2, <2>3 DEF StillTo
      <4>3. Mails(p)' = timesMailed[p] + 1
        BY <3>2, <2>2, <2>3 DEF Mails, InMail
      <4>4. sent[p[2]] <= beat + Delay
        BY <2>2, <1>a DEF MailsInv, Clocked, ArrivedFirst
      <4>5. time >= beat
        BY DEF MailsInv, Clocked
      <4> QED BY <2>2, <3>1, <4>1, <4>2, <4>3, <4>4, <4>5, <1>a DEF MailsInv, MailsBound
    <3>3. CASE p \notin lines
      <4>1. Mails(p)' = Mails(p)
        BY <3>1, <3>3, <2>2, <2>3, <1>a DEF Mails, InMail
      <4>2. StillTo(Owner[p[1]])' => StillTo(Owner[p[1]])
        BY <2>2, <2>3 DEF StillTo
      <4> QED BY <4>1, <4>2, <3>1, <2>2, <1>a, MailsKept DEF MailsInv
    <3> QED BY <3>2, <3>3
  <2> QED BY <2>4, <2>5 DEF MailsInv
<1>9. CASE Send
  <2>1. \A p \in TagRow : /\ Mails(p)' = Mails(p) /\ Mails(p) \in Nat
                          /\ StillTo(Owner[p[1]])' <=> StillTo(Owner[p[1]])
    BY <1>9, <1>a DEF Send, EmailsTypeOK, Mails, InMail, StillTo
  <2>2. task.step = "send" /\ task'.step = "stamp" /\ task'.mail = task.mail
    BY <1>9 DEF Send, EmailsTypeOK
  <2> QED BY <1>6, <1>9, <2>1, <2>2 DEF Send
<1>10. CASE SendFails \/ Stamp
  <2>1. \A p \in TagRow : /\ Mails(p)' <= Mails(p)
                          /\ StillTo(Owner[p[1]])' <=> StillTo(Owner[p[1]])
    BY <1>10, <1>a, NextUserType DEF SendFails, Stamp, Mails, InMail, StillTo
  <2> QED BY <1>6, <1>10, <2>1, NextUserType DEF SendFails, Stamp
<1>11. CASE EndRun \/ Killed
  <2>1. \A p \in TagRow : Mails(p)' <= Mails(p) /\ ~StillTo(Owner[p[1]])'
    BY <1>11, <1>a, NoMailType DEF EndRun, Killed, Mails, InMail, StillTo
  <2> QED BY <1>6, <1>11, <2>1, NoMailType DEF EndRun, Killed
<1> QED
  BY <1>1, <1>2, <1>3, <1>4, <1>5, <1>7, <1>8, <1>9, <1>10, <1>11 DEF EmailsNext, EmailTask

\* An alert is mailed for a subscription at most twice, for any period, any
\* delay shorter than it, any number of users and alerts and any failures: the
\* window of a run never reaches the run before the last (emails.py:37-43,
\* tasks.py, the beat of settings.py).
THEOREM TwoMailsAtMost == EmailsSpec => []MailedAtMostTwice
<1>1. EmailsInit => MailsInv
  BY EmailsAssumption, NoMailType, PairParts
  DEF EmailsInit, Delivery!Init, MailsInv, Clocked, ArrivedFirst, MailsBound, Mails, InMail, TagRow
<1>2. EmailsTypeOK /\ MailsInv => MailedAtMostTwice
  <2> SUFFICES ASSUME EmailsTypeOK, MailsInv, NEW p \in TagRow PROVE timesMailed[p] <= 2
    BY DEF MailedAtMostTwice
  <2>1. timesMailed[p] \in Nat /\ MailsBound(p)
    BY DEF EmailsTypeOK, MailsInv
  <2> QED BY <2>1 DEF MailsBound, Mails
<1> QED BY <1>1, <1>2, MailsInductive, EmailsTyped, PTL DEF EmailsSpec

\* Alerts that were mailed stay mailed and keep the time they were sent.
MailedStay ==
  \A q \in TagRow :
    timesMailed[q] > 0 => timesMailed'[q] > 0 /\ sent'[q[2]] = sent[q[2]]

LEMMA InsteadFinite ==
  ASSUME NEW s \in MailSubscription, NEW a \in Url
  PROVE  /\ IsFiniteSet(MailedInstead(s, a)) /\ Cardinality(MailedInstead(s, a)) \in Nat
         /\ IsFiniteSet(ListedInstead(s, a)) /\ Cardinality(ListedInstead(s, a)) \in Nat
BY EmailsAssumption, FS_Subset, FS_CardinalityType DEF MailedInstead, ListedInstead

LEMMA InsteadGrows ==
  ASSUME NEW p \in TagRow, MailedStay, sent'[p[2]] = sent[p[2]]
  PROVE  /\ Cardinality(MailedInstead(p[1], p[2])) <= Cardinality(MailedInstead(p[1], p[2])')
         /\ Cardinality(MailedInstead(p[1], p[2])') \in Nat
         /\ Cardinality(MailedInstead(p[1], p[2])) \in Nat
<1>1. MailedInstead(p[1], p[2]) \subseteq MailedInstead(p[1], p[2])'
  BY PairParts DEF MailedInstead, MailedStay, TagRow
<1>2. IsFiniteSet(MailedInstead(p[1], p[2])')
  BY EmailsAssumption, FS_Subset, PairParts DEF MailedInstead
<1> QED BY <1>1, <1>2, FS_Subset, FS_CardinalityType

\* The mail of p is still there after a step that changes neither the run nor
\* what was mailed.
LEMMA AnsweredKept ==
  ASSUME NEW p \in TagRow, EmailsTypeOK, Answered(p), MailedStay,
         UNCHANGED <<task, timesMailed, lastSentAt, beat>>,
         \A q \in TagRow : tagged[q] > 0 => sent'[q[2]] = sent[q[2]], tagged[p] > 0
  PROVE  Answered(p)'
<1>1. ListedInstead(p[1], p[2]) = ListedInstead(p[1], p[2])'
  <2>1. \A b \in Url : <<p[1], b>> \in task.mail.lines => sent'[b] = sent[b]
    BY PairParts DEF EmailsTypeOK, TagRow
  <2> QED BY <2>1 DEF ListedInstead
<1>2. /\ Cardinality(MailedInstead(p[1], p[2])) <= Cardinality(MailedInstead(p[1], p[2])')
      /\ Cardinality(MailedInstead(p[1], p[2])') \in Nat
      /\ Cardinality(MailedInstead(p[1], p[2])) \in Nat
  BY InsteadGrows
<1> QED BY <1>1, <1>2, EmailsAssumption DEF Answered

\* Of the subscriptions of a user the mail lists every alert of the window, or
\* as many as it may, none of them older.
LEMMA ComposedAnswers ==
  ASSUME EmailsTypeOK, NEW p \in TagRow, NEW A, IsLatest(A, p[1]), p[2] \in Window(p[1]), p[2] \notin A
  PROVE  /\ Cardinality(A) = LatestLimit /\ A # {}
         /\ \A a \in A : a \in Url /\ sent[a] >= sent[p[2]]
<1> DEFINE W == Window(p[1])
<1>1. IsFiniteSet(W) /\ Cardinality(W) \in Nat /\ A \subseteq W
  BY EmailsAssumption, FS_Subset, FS_CardinalityType DEF Window, IsLatest
<1>2. Cardinality(A) # Cardinality(W)
  BY <1>1, FS_Subset
<1>3. Cardinality(A) = LatestLimit
  BY <1>2 DEF IsLatest
<1>4. A # {}
  BY <1>3, EmailsAssumption, FS_EmptySet
<1> QED BY <1>1, <1>3, <1>4 DEF IsLatest, Window

\* What PromiseInv says of a promised pair.
Promise(p) ==
  /\ task.step \in {"next", "send", "stamp"}
  /\ p[1] \in selected /\ tagged[p] > 0 /\ sent[p[2]] >= beat + Delay - Period
  /\ (Owner[p[1]] \in task.todo \/ Answered(p))

EmailsInv == EmailsTypeOK /\ MailsInv /\ PromiseInv

\* Before a run a mail only makes promises; in the run the mail of a user is
\* composed once.
LEMMA PromiseOfCompose ==
  ASSUME EmailsInv, EmailsTypeOK', NEW u \in User, Compose(u), NEW p \in promised
  PROVE  Promise(p)'
<1> USE EmailsAssumption DEF EmailsInv
<1>1. PICK F \in [Owned(u) -> SUBSET Url] :
        /\ \A s \in Owned(u) : IsLatest(F[s], s)
        /\ LET lines == {q \in TagRow : q[1] \in Owned(u) /\ q[2] \in F[q[1]]} IN
           task' = [step |-> IF lines = {} THEN "stamp" ELSE "send",
                    todo |-> task.todo \ {u},
                    mail |-> [user |-> u, lines |-> lines, at |-> time]]
  BY DEF Compose
<1> DEFINE lines == {q \in TagRow : q[1] \in Owned(u) /\ q[2] \in F[q[1]]}
<1>2. /\ task.step = "next" /\ u \in task.todo
      /\ UNCHANGED <<state, tagged, sent, selected, time, beat, mailFaults, timesMailed,
                     lastSentAt, promised>>
  BY DEF Compose
<1>3. /\ task'.step = IF lines = {} THEN "stamp" ELSE "send"
      /\ task'.todo = task.todo \ {u} /\ task'.mail.lines = lines
      /\ task'.mail.user = u /\ task'.mail.at = time
  BY <1>1
<1>4. Promise(p) /\ p \in TagRow
  BY DEF PromiseInv, Promise, EmailsTypeOK
<1>5. CASE Owner[p[1]] # u
  <2>1. CASE Owner[p[1]] \in task.todo
    BY <2>1, <1>5, <1>2, <1>3, <1>4 DEF Promise
  <2>2. CASE Answered(p)
    <3>1. /\ timesMailed[p] > 0 \/ Cardinality(MailedInstead(p[1], p[2])) >= LatestLimit
          /\ lastSentAt[p[1]] >= beat
      BY <2>2, <1>2 DEF Answered
    <3>2. MailedInstead(p[1], p[2])' = MailedInstead(p[1], p[2])
      BY <1>2 DEF MailedInstead
    <3>3. Answered(p)'
      BY <3>1, <3>2, <1>2 DEF Answered
    <3> QED BY <3>3, <1>2, <1>3, <1>4 DEF Promise
  <2> QED BY <2>1, <2>2, <1>4 DEF Promise
<1>6. CASE Owner[p[1]] = u
  <2>1. p[1] \in Owned(u) /\ p[1] \in MailSubscription /\ p[2] \in Url
    BY <1>4, <1>6, PairParts DEF Owned, Promise
  <2>2. beat \in Int /\ time \in Int /\ sent[p[2]] \in Int /\ beat <= time /\ time <= beat + Delay
    BY <2>1, <1>2 DEF EmailsTypeOK, Time, MailsInv, Clocked
  <2>3. p[2] \in Window(p[1])
    BY <2>1, <2>2, <1>4, PairParts DEF Window, Promise
  <2>4. task'.step = "send" /\ (p \in lines \/ Cardinality(ListedInstead(p[1], p[2])') >= LatestLimit)
    <3>1. CASE p[2] \in F[p[1]]
      BY <3>1, <2>1, <1>3, <1>4
    <3>2. CASE p[2] \notin F[p[1]]
      <4>1. /\ Cardinality(F[p[1]]) = LatestLimit /\ F[p[1]] # {}
            /\ \A a \in F[p[1]] : a \in Url /\ sent[a] >= sent[p[2]]
        BY <3>2, <2>1, <2>3, <1>1, <1>4, ComposedAnswers
      <4>2. \A a \in F[p[1]] : <<p[1], a>> \in lines
        BY <4>1, <2>1 DEF TagRow
      <4>3. F[p[1]] \subseteq ListedInstead(p[1], p[2])'
        BY <4>1, <4>2, <1>2, <1>3 DEF ListedInstead
      <4>4. /\ IsFiniteSet(ListedInstead(p[1], p[2])')
            /\ Cardinality(ListedInstead(p[1], p[2])') \in Nat
        BY FS_Subset, FS_CardinalityType DEF ListedInstead
      <4>5. Cardinality(F[p[1]]) <= Cardinality(ListedInstead(p[1], p[2])')
        BY <4>3, <4>4, FS_Subset
      <4>6. lines # {}
        BY <4>1, <4>2
      <4> QED BY <4>1, <4>5, <4>6, <1>3
    <3> QED BY <3>1, <3>2
  <2>5. Answered(p)'
    BY <2>2, <2>4, <1>2, <1>3, <1>6 DEF Answered
  <2> QED BY <2>4, <2>5, <1>2, <1>4 DEF Promise
<1> QED BY <1>5, <1>6

LEMMA PromiseOfSend ==
  ASSUME EmailsInv, EmailsTypeOK', Send, NEW p \in promised
  PROVE  Promise(p)'
<1> USE EmailsAssumption DEF EmailsInv
<1>1. Promise(p) /\ p \in TagRow
  BY DEF PromiseInv, Promise, EmailsTypeOK
<1>2. /\ task.step = "send" /\ task'.step = "stamp" /\ task'.todo = task.todo /\ task'.mail = task.mail
      /\ timesMailed' = [q \in TagRow |->
           IF q \in task.mail.lines THEN timesMailed[q] + 1 ELSE timesMailed[q]]
      /\ UNCHANGED <<state, tagged, sent, selected, time, beat, mailFaults, lastSentAt, promised>>
  BY DEF Send, EmailsTypeOK
<1>3. /\ MailedStay
      /\ \A q \in task.mail.lines : q \in TagRow /\ timesMailed'[q] > 0
  BY <1>2 DEF MailedStay, EmailsTypeOK
<1>4. CASE Owner[p[1]] \in task.todo
  BY <1>1, <1>2, <1>4 DEF Promise
<1>5. CASE Answered(p)
  <2> DEFINE I == MailedInstead(p[1], p[2])
             L == ListedInstead(p[1], p[2])
  <2>1. Cardinality(I) <= Cardinality(I') /\ Cardinality(I) \in Nat /\ Cardinality(I') \in Nat
    BY <1>1, <1>2, <1>3, InsteadGrows
  <2>2. Cardinality(L) <= Cardinality(I') /\ Cardinality(L) \in Nat
    <3>1. L \subseteq I'
      BY <1>2, <1>3 DEF MailedInstead, ListedInstead
    <3>2. IsFiniteSet(I')
      BY FS_Subset DEF MailedInstead
    <3> QED BY <3>1, <3>2, FS_Subset, FS_CardinalityType
  <2>3. timesMailed[p] > 0 \/ p \in task.mail.lines => timesMailed'[p] > 0
    BY <1>1, <1>3 DEF MailedStay
  <2>4. timesMailed'[p] > 0 \/ Cardinality(I') >= LatestLimit
    BY <2>1, <2>2, <2>3, <1>5 DEF Answered
  <2>5. Answered(p)'
    BY <2>4, <1>2, <1>5 DEF Answered
  <2> QED BY <2>5, <1>1, <1>2 DEF Promise
<1> QED BY <1>1, <1>4, <1>5 DEF Promise

\* A mail that could not be sent, and a stamp, end the work for a user: the
\* others keep what they were promised.
LEMMA PromiseOfNextUser ==
  ASSUME EmailsInv, SendFails \/ Stamp, NEW p \in promised'
  PROVE  Promise(p)'
<1> USE EmailsAssumption DEF EmailsInv
<1>1. p \in promised /\ Promise(p) /\ p \in TagRow /\ p[1] \in MailSubscription
  BY PairParts DEF PromiseInv, Promise, EmailsTypeOK, SendFails, Stamp
<1>2. /\ task'.step = "next" /\ task'.todo = task.todo
      /\ UNCHANGED <<state, tagged, sent, selected, time, beat, timesMailed>>
  BY NextUserType DEF SendFails, Stamp
<1>3. MailedInstead(p[1], p[2])' = MailedInstead(p[1], p[2])
  BY <1>2 DEF MailedInstead
<1>4. CASE Owner[p[1]] \in task.todo
  BY <1>1, <1>2, <1>4 DEF Promise
<1>5. CASE Answered(p)
  <2>1. CASE SendFails
    <3>1. Owner[p[1]] # task.mail.user /\ lastSentAt' = lastSentAt
      BY <2>1 DEF SendFails
    <3>2. Answered(p)'
      BY <3>1, <1>2, <1>3, <1>5 DEF Answered
    <3> QED BY <3>2, <1>1, <1>2 DEF Promise
  <2>2. CASE Stamp
    <3>1. task.step = "stamp"
      BY <2>2 DEF Stamp
    <3>2. lastSentAt'[p[1]] >= beat
      <4>1. CASE Stamped(p[1])
        <5>1. lastSentAt'[p[1]] = task.mail.at /\ Owner[p[1]] = task.mail.user
          BY <2>2, <4>1, <1>1 DEF Stamp, Stamped, Owned
        <5>2. task.mail.at >= beat
          BY <3>1 DEF MailsInv, Clocked
        <5> QED BY <5>1, <5>2
      <4>2. CASE ~Stamped(p[1])
        BY <2>2, <4>2, <1>1, <1>5 DEF Stamp, Stamped, Owned, Promise, Answered
      <4> QED BY <4>1, <4>2
    <3>3. Answered(p)'
      BY <3>1, <3>2, <1>2, <1>3, <1>5 DEF Answered
    <3> QED BY <3>3, <1>1, <1>2 DEF Promise
  <2> QED BY <2>1, <2>2
<1> QED BY <1>1, <1>4, <1>5 DEF Promise

LEMMA PromiseInductive ==
  EmailsInv /\ EmailsTypeOK' /\ [EmailsNext]_emailsVars => PromiseInv'
<1> SUFFICES ASSUME EmailsInv, EmailsTypeOK', [EmailsNext]_emailsVars, NEW p \in promised'
             PROVE  Promise(p)'
  BY DEF PromiseInv, Promise
<1> USE EmailsAssumption
<1>a. \A q \in promised : Promise(q) /\ q \in TagRow
  BY DEF EmailsInv, EmailsTypeOK, PromiseInv, Promise
<1>b. \A q \in TagRow : timesMailed[q] > 0 => tagged[q] > 0
  <2> SUFFICES ASSUME NEW q \in TagRow, timesMailed[q] > 0 PROVE tagged[q] > 0
    OBVIOUS
  <2>1. Mails(q) >= 1
    BY DEF EmailsInv, EmailsTypeOK, Mails
  <2> QED BY <2>1 DEF EmailsInv, MailsInv, MailsBound
\* A step that leaves the run alone, and the alerts that were tagged.
<1>c. ASSUME UNCHANGED <<task, timesMailed, lastSentAt, beat>>, p \in promised, p[1] \in selected',
             \A q \in TagRow : tagged[q] > 0 => tagged'[q] > 0 /\ sent'[q[2]] = sent[q[2]]
      PROVE  Promise(p)'
  <2>1. Promise(p) /\ p \in TagRow /\ MailedStay
    BY <1>a, <1>b, <1>c DEF MailedStay
  <2>2. Answered(p) => Answered(p)'
    BY <1>c, <2>1, AnsweredKept DEF EmailsInv, Promise
  <2> QED BY <1>c, <2>1, <2>2 DEF Promise
<1>1. CASE UNCHANGED emailsVars
  BY <1>1, <1>a, <1>c DEF emailsVars, mailVars, Promise
<1>2. ASSUME NEW a \in Url, Arrive(a) PROVE Promise(p)'
  <2>1. /\ state[a] = "absent" /\ tagged' = tagged
        /\ UNCHANGED <<selected, beat, task, timesMailed, lastSentAt, promised>>
        /\ \E t \in 0 .. time : sent' = [sent EXCEPT ![a] = t]
    BY <1>2 DEF Arrive, Delivery!Arrive, mailVars
  <2>2. \A q \in TagRow : tagged[q] > 0 => q[2] # a
    BY <2>1, PairParts DEF EmailsInv, EmailsTypeOK, MailsInv, ArrivedFirst
  <2>3. \A q \in TagRow : tagged[q] > 0 => tagged'[q] > 0 /\ sent'[q[2]] = sent[q[2]]
    BY <2>1, <2>2, PairParts DEF EmailsInv, EmailsTypeOK
  <2> QED BY <2>1, <2>3, <1>a, <1>c DEF Promise
<1>3. CASE Tag
  <2>1. UNCHANGED <<sent, selected, beat, task, timesMailed, lastSentAt, promised>>
    BY <1>3 DEF Tag, mailVars
  <2>2. \A q \in TagRow : tagged[q] > 0 => tagged'[q] > 0
    BY <1>3 DEF Tag, Delivery!Deliver, TagRow, EmailsInv, EmailsTypeOK
  <2> QED BY <2>1, <2>2, <1>a, <1>c DEF Promise
<1>4. ASSUME NEW s \in MailSubscription, Select(s) PROVE Promise(p)'
  <2>1. /\ p \in promised /\ p[1] # s
        /\ UNCHANGED <<tagged, sent, beat, task, timesMailed, lastSentAt>>
        /\ selected' = IF s \in selected THEN selected \ {s} ELSE selected \cup {s}
    BY <1>4 DEF Select
  <2>2. p[1] \in selected'
    BY <2>1, <1>a DEF Promise
  <2> QED BY <2>1, <2>2, <1>c
<1>5. CASE MailTick
  <2>1. /\ UNCHANGED <<tagged, sent, selected, timesMailed, lastSentAt, promised>>
        /\ time' = time + 1
        /\ task.step = "resting" \/ time < beat + Delay
    BY <1>5 DEF MailTick
  <2>2. task.step # "resting" /\ time \in Int /\ beat \in Int
    BY <2>1, <1>a DEF Promise, EmailsInv, EmailsTypeOK, Time
  <2>3. UNCHANGED <<beat, task>>
    BY <1>5, <2>1, <2>2 DEF MailTick
  <2> QED BY <2>1, <2>3, <1>a, <1>c DEF Promise
<1>6. CASE StartRun
  <2>1. /\ task'.step = "next" /\ task'.todo = {Owner[s] : s \in selected}
        /\ promised' = {q \in TagRow : q[1] \in selected /\ tagged[q] > 0
                                     /\ sent[q[2]] >= beat + Delay - Period}
        /\ UNCHANGED <<state, tagged, sent, selected, time, beat, mailFaults, timesMailed, lastSentAt>>
    BY <1>6 DEF StartRun, EmailsInv, EmailsTypeOK
  <2> QED BY <2>1 DEF Promise
<1>7. ASSUME NEW u \in User, Compose(u) PROVE Promise(p)'
  <2>1. p \in promised
    BY <1>7 DEF Compose
  <2> QED BY <2>1, <1>7, PromiseOfCompose
<1>8. CASE Send
  <2>1. p \in promised
    BY <1>8 DEF Send
  <2> QED BY <2>1, <1>8, PromiseOfSend
<1>9. CASE SendFails \/ Stamp
  BY <1>9, PromiseOfNextUser
<1>10. CASE EndRun \/ Killed
  BY <1>10 DEF EndRun, Killed
<1> QED
  BY <1>1, <1>2, <1>3, <1>4, <1>5, <1>6, <1>7, <1>8, <1>9, <1>10 DEF EmailsNext, EmailTask

\* A run of the task that ends without being killed has mailed every alert that
\* was in the window when it started, or as many later ones as a mail lists, to
\* each user who stayed subscribed and whose own mail did not fail, and has
\* stamped the subscription (emails.py:30-110).
THEOREM RunsKeepPromises == EmailsSpec => RunKeepsPromise
<1>1. EmailsInit => MailsInv /\ PromiseInv
  BY EmailsAssumption, NoMailType, PairParts
  DEF EmailsInit, Delivery!Init, MailsInv, Clocked, ArrivedFirst, MailsBound, Mails, InMail, TagRow,
      PromiseInv
<1>2. EmailsInv /\ [EmailsNext]_emailsVars =>
        [task.step # "resting" /\ task'.step = "resting" /\ mailFaults' = mailFaults =>
           \A p \in promised :
             /\ \/ timesMailed[p] > 0
                \/ Cardinality(MailedInstead(p[1], p[2])) >= LatestLimit
             /\ lastSentAt[p[1]] >= beat]_emailsVars
  <2> SUFFICES ASSUME EmailsInv, EmailsNext, task.step # "resting", task'.step = "resting",
                      mailFaults' = mailFaults, NEW p \in promised
               PROVE  /\ \/ timesMailed[p] > 0
                         \/ Cardinality(MailedInstead(p[1], p[2])) >= LatestLimit
                      /\ lastSentAt[p[1]] >= beat
    OBVIOUS
  <2>1. mailFaults \in Int /\ Promise(p)
    BY DEF EmailsInv, EmailsTypeOK, PromiseInv, Promise
  <2>2. CASE EndRun
    <3>1. task.step = "next" /\ task.todo = {}
      BY <2>2 DEF EndRun
    <3> QED BY <3>1, <2>1 DEF Promise, Answered
  <2>3. CASE Killed
    BY <2>3, <2>1 DEF Killed
  <2>4. CASE UNCHANGED task
    BY <2>4
  <2>5. CASE MailTick
    BY <2>5, NoMailType DEF MailTick
  <2>6. CASE StartRun \/ Send
    BY <2>6 DEF StartRun, Send, EmailsInv, EmailsTypeOK
  <2>7. ASSUME NEW u \in User, Compose(u) PROVE FALSE
    <3>1. task'.step \in {"stamp", "send"}
      BY <2>7 DEF Compose
    <3> QED BY <3>1
  <2>8. CASE SendFails \/ Stamp
    BY <2>8, NextUserType DEF SendFails, Stamp, EmailsInv
  <2> QED BY <2>2, <2>3, <2>4, <2>5, <2>6, <2>7, <2>8
          DEF EmailsNext, EmailTask, Arrive, Tag, Select, mailVars
<1>3. EmailsTypeOK /\ MailsInv /\ PromiseInv => EmailsInv
  BY DEF EmailsInv
<1> QED
  BY <1>1, <1>2, <1>3, MailsInductive, PromiseInductive, EmailsTyped, PTL
  DEF EmailsSpec, RunKeepsPromise

--------------------------------------------------------------------------------

(* MCUsers. *)

\* A behaviour of the run is a behaviour of each component, so that what is proved
\* of one holds in the run.
THEOREM UsersRunIsEach == UsersSpec => Spec /\ EmailsSpec
<1>1. UsersInit => Init /\ EmailsInit
  BY DEF UsersInit
<1>2. [SubscriptionsPart \/ EmailsPart]_usersVars => [Next]_vars /\ [EmailsNext]_emailsVars
  BY DEF SubscriptionsPart, EmailsPart, usersVars, subscriptionVars
<1> QED BY <1>1, <1>2, PTL DEF UsersSpec, Spec, EmailsSpec

\* Subscriptions, requests and mails keep their types side by side.
THEOREM UsersTyped == UsersSpec => []UsersTypeOK
<1>1. TypeOK /\ EmailsTypeOK => UsersTypeOK
  BY DEF UsersTypeOK
<1> QED BY <1>1, UsersRunIsEach, SubscriptionsTypeCorrect, EmailsTyped, PTL

================================================================================
