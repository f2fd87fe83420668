------------------------------ MODULE AlertAnswers -----------------------------
(***************************************************************************)
(* What an alert consists of: workers write the rows of a document under   *)
(* the row of its alert (process_alert_info and BulkCreateManager), a      *)
(* request reads them level by level (the resolvers of types.py through    *)
(* the loaders of dataloaders.py), and the admin site deletes rows with    *)
(* all that depends on them.                                               *)
(*                                                                         *)
(* A document is the sequence of its elements in the order in which they   *)
(* are visited, with the element that each belongs to, 0 for the alert.    *)
(* The row of an element has its place in the document for its key: the    *)
(* ids of the rows of an alert grow in that order.                         *)
(***************************************************************************)
EXTENDS Integers, Sequences, FiniteSets

CONSTANTS
  AlertDoc,    \* documents, one per alert
  Document,    \* [AlertDoc -> sequences of elements]
  Selection,   \* the sets of fields that clients select
  chunk_size   \* of BulkCreateManager

\* Rows of these models are created at once, those of the others are queued.
Created == {"AlertInfo", "AlertInfoArea"}
Queued == {"AlertInfoParameter", "AlertInfoAreaPolygon", "AlertInfoAreaCircle",
           "AlertInfoAreaGeocode"}

Size(n) == Len(Document[n])
Model(n, i) == Document[n][i].model
Parent(n, i) == Document[n][i].parent

\* The model of the row that a row belongs to.
Owner ==
  [AlertInfo |-> "Alert", AlertInfoParameter |-> "AlertInfo", AlertInfoArea |-> "AlertInfo",
   AlertInfoAreaPolygon |-> "AlertInfoArea", AlertInfoAreaCircle |-> "AlertInfoArea",
   AlertInfoAreaGeocode |-> "AlertInfoArea"]

\* A field of a type and the loader behind it, by its model and that of its keys.
Loader ==
  [info |-> "AlertInfo", infos |-> "AlertInfo", parameters |-> "AlertInfoParameter",
   areas |-> "AlertInfoArea", polygons |-> "AlertInfoAreaPolygon",
   circles |-> "AlertInfoAreaCircle", geocodes |-> "AlertInfoAreaGeocode"]

ASSUME AnswersAssumption ==
  /\ chunk_size \in Nat \ {0}
  /\ Selection \subseteq SUBSET DOMAIN Loader
  /\ Document \in [AlertDoc -> Seq([model : Created \cup Queued, parent : Nat])]
  /\ \A n \in AlertDoc : \A i \in 1 .. Size(n) :
       /\ Parent(n, i) < i
       /\ Owner[Model(n, i)] = IF Parent(n, i) = 0 THEN "Alert" ELSE Model(n, Parent(n, i))

VARIABLES
  parts,     \* [AlertDoc -> keys of its rows]
  writer,    \* [AlertDoc -> the worker: its step, the element it is at, its queues]
  answer,    \* the request: its fields, the alerts of its page, the keys that it
             \* loaded and what it got
  pruned,    \* history: alerts that the admin site deleted something of
  whole      \* history: alerts that had been ingested when the request began

answersVars == <<parts, writer, answer, pruned, whole>>

Key == UNION {{n} \X (0 .. Size(n)) : n \in AlertDoc}

AnswersTypeOK ==
  /\ \A n \in AlertDoc :
       /\ parts[n] \subseteq 0 .. Size(n)
       /\ \A i \in parts[n] \ {0} : Parent(n, i) \in parts[n]
       /\ writer[n].step \in {"off", "visit", "done", "ingested", "stopped"}
       /\ writer[n].next \in 1 .. Size(n) + 1
       /\ \A m \in Queued : Len(writer[n].queue[m]) < chunk_size
  /\ answer.step \in {"idle", "open", "done"} /\ answer.fields \in Selection \cup {{}}
  /\ answer.loaded \cup answer.got \subseteq (DOMAIN Loader) \X Key
  /\ pruned \cup whole \cup answer.page \subseteq AlertDoc

NoQueue == [m \in Queued |-> <<>>]

AnswersInit ==
  /\ parts = [n \in AlertDoc |-> {}]
  /\ writer = [n \in AlertDoc |-> [step |-> "off", next |-> 1, queue |-> NoQueue]]
  /\ answer = [step |-> "idle", fields |-> {}, page |-> {}, loaded |-> {}, got |-> {}]
  /\ pruned = {} /\ whole = {}

--------------------------------------------------------------------------------
(***************************************************************************)
(* Ingestion.                                                              *)
(***************************************************************************)
StartDocument(n) ==
  /\ writer[n].step = "off"
  /\ parts' = [parts EXCEPT ![n] = {0}]
  /\ writer' = [writer EXCEPT ![n].step = "visit"]
  /\ UNCHANGED <<answer, pruned, whole>>

\* An exception, or a kill: what is queued is lost, what is written stays.
Stopped(w) == [w EXCEPT !.step = "stopped", !.queue = NoQueue]

\* A row whose parent was deleted is an IntegrityError, for all rows of a
\* bulk_create.
InsertParts(n, I, w) ==
  IF \A i \in I : Parent(n, i) \in parts[n]
  THEN /\ parts' = [parts EXCEPT ![n] = @ \cup I]
       /\ writer' = [writer EXCEPT ![n] = w]
  ELSE /\ writer' = [writer EXCEPT ![n] = Stopped(writer[n])]
       /\ UNCHANGED parts

\* Sensitivity variant: more than a chunk.
OverFull(s) == Len(s) > chunk_size

Full(s) == Len(s) >= chunk_size

\* _commit
Committed(w, m) == [w EXCEPT !.queue[m] = <<>>]

InQueue(w, m) == {w.queue[m][k] : k \in DOMAIN w.queue[m]}

CreatePart(n) ==
  LET w == writer[n] IN
  /\ w.step = "visit" /\ w.next <= Size(n) /\ Model(n, w.next) \in Created
  /\ InsertParts(n, {w.next}, [w EXCEPT !.next = @ + 1])
  /\ UNCHANGED <<answer, pruned, whole>>

\* add
AddPart(n) ==
  LET w == writer[n]
      m == Model(n, w.next)
      added == [w EXCEPT !.next = @ + 1, !.queue[m] = Append(@, w.next)] IN
  /\ w.step = "visit" /\ w.next <= Size(n) /\ m \in Queued
  /\ InsertParts(n, IF Full(added.queue[m]) THEN InQueue(added, m) ELSE {},
            IF Full(added.queue[m]) THEN Committed(added, m) ELSE added)
  /\ UNCHANGED <<answer, pruned, whole>>

\* Sensitivity variant: only what fills a chunk.
Unfilled(w) == {m \in Queued : Full(w.queue[m])}

\* What done() has left to commit.
Unsaved(w) == {m \in Queued : w.queue[m] # <<>>}

EndDocument(n) ==
  /\ writer[n].step = "visit" /\ writer[n].next > Size(n)
  /\ writer' = [writer EXCEPT ![n].step = "done"]
  /\ UNCHANGED <<parts, answer, pruned, whole>>

CommitRest(n) ==
  LET w == writer[n] IN
  /\ w.step = "done"
  /\ \/ \E m \in Unsaved(w) : InsertParts(n, InQueue(w, m), Committed(w, m))
     \/ /\ Unsaved(w) = {}
        /\ writer' = [writer EXCEPT ![n].step = "ingested"]
        /\ UNCHANGED parts
  /\ UNCHANGED <<answer, pruned, whole>>

StopWriter(n) ==
  /\ writer[n].step \in {"visit", "done"}
  /\ writer' = [writer EXCEPT ![n] = Stopped(@)]
  /\ UNCHANGED <<parts, answer, pruned, whole>>

\* A row goes with all that depends on it (on_delete=CASCADE); alerts and infos are
\* what the admin site can delete.
Above(n, i) ==
  LET up[j \in 0 .. Size(n)] == IF j = 0 THEN {0} ELSE {j} \cup up[Parent(n, j)] IN up[i]

Under(n, i) == {j \in 0 .. Size(n) : i \in Above(n, j)}

DeletePart(n, i) ==
  /\ i \in parts[n]
  /\ i # 0 => Model(n, i) = "AlertInfo"
  /\ parts' = [parts EXCEPT ![n] = @ \ Under(n, i)]
  /\ pruned' = pruned \cup {n}
  /\ UNCHANGED <<writer, answer, whole>>

--------------------------------------------------------------------------------
(***************************************************************************)
(* The request: the alerts of the page, then each field of what has been   *)
(* read.  A loader waits for no other; it takes the keys asked of it since *)
(* its last batch, and loads a key once.                                   *)
(***************************************************************************)
AskForAlerts(fields) ==
  /\ answer.step = "idle"
  /\ answer' = [answer EXCEPT !.step = "open", !.fields = fields,
                              !.page = {n \in AlertDoc : 0 \in parts[n]}]
  /\ whole' = {n \in AlertDoc : writer[n].step = "ingested"}
  /\ UNCHANGED <<parts, writer, pruned>>

Got(fields) == {g[2] : g \in {h \in answer.got : h[1] \in fields}}

\* The keys that the resolvers have asked of a loader.
AskedOf(l) ==
  CASE l \notin answer.fields -> {}
    [] l \in {"info", "infos"} \cap answer.fields -> {<<n, 0>> : n \in answer.page}
    [] l \in {"parameters", "areas"} \cap answer.fields -> Got({"info", "infos"})
    [] l \in {"polygons", "circles", "geocodes"} \cap answer.fields -> Got({"areas"})

Batch(l) == {k \in AskedOf(l) : <<l, k>> \notin answer.loaded}

\* Model.objects.filter(parent__in=keys)
Children(model, keys) ==
  {k \in Key : /\ k[2] \in parts[k[1]] \ {0} /\ Model(k[1], k[2]) = model
              /\ <<k[1], Parent(k[1], k[2])>> \in keys}

\* order_by('alert_id', 'id').distinct('alert_id')
FirstOf(rows) == {r \in rows : \A s \in rows : s[1] = r[1] => s[2] >= r[2]}

Loaded(l, keys) ==
  LET rows == Children(Loader[l], keys) IN IF l = "info" THEN FirstOf(rows) ELSE rows

LoadBatch(l) ==
  /\ answer.step = "open" /\ Batch(l) # {}
  /\ answer' = [answer EXCEPT !.loaded = @ \cup ({l} \X Batch(l)),
                              !.got = @ \cup ({l} \X Loaded(l, Batch(l)))]
  /\ UNCHANGED <<parts, writer, pruned, whole>>

EndAnswer ==
  /\ answer.step = "open" /\ \A l \in DOMAIN Loader : Batch(l) = {}
  /\ answer' = [answer EXCEPT !.step = "done"]
  /\ UNCHANGED <<parts, writer, pruned, whole>>

AnswersNext ==
  \/ \E n \in AlertDoc :
       \/ StartDocument(n) \/ CreatePart(n) \/ AddPart(n) \/ EndDocument(n) \/ CommitRest(n)
       \/ StopWriter(n)
       \/ \E i \in 0 .. Size(n) : DeletePart(n, i)
  \/ \E fields \in Selection : AskForAlerts(fields)
  \/ EndAnswer
  \/ \E l \in DOMAIN Loader : LoadBatch(l)

AnswersSpec == AnswersInit /\ [][AnswersNext]_answersVars

--------------------------------------------------------------------------------
Lost(n, m) == {i \in 1 .. writer[n].next - 1 : Model(n, i) = m} \ parts[n]

\* A worker that fails or is killed loses less than a chunk of each model, all of
\* it queued when it stopped: "the final partial chunk" (main/managers.py:46).
LossIsBounded ==
  \A n \in AlertDoc \ pruned : \A m \in Created \cup Queued :
    Cardinality(Lost(n, m)) < IF m \in Queued THEN chunk_size ELSE 1

\* A request that begins after an alert has been ingested answers with all of its
\* document that its fields select, though each level is read by a query of its
\* own, and other alerts of the page are being written.
AnswersIngestedWhole ==
  LET models == {Loader[l] : l \in answer.fields \ {"info"}} IN
  answer.step = "done" =>
    \A n \in (whole \cap answer.page) \ pruned : \A i \in 1 .. Size(n) :
      (\A j \in Above(n, i) \ {0} : Model(n, j) \in models) => <<n, i>> \in Got(DOMAIN Loader)

\* The info of an alert is the first of its infos, though the two are read by
\* queries of their own between which the worker may add infos.
InfoIsFirst ==
  answer.step = "done" =>
    \A r \in Got({"info"}), s \in Got({"infos"}) :
      r[1] = s[1] /\ r[1] \notin pruned => r[2] <= s[2]

\* An answer about ingested alerts is whole and in order, though no transaction
\* holds its queries together (the loaders of dataloaders.py).
AnswersComplete == AnswersIngestedWhole /\ InfoIsFirst

--------------------------------------------------------------------------------
(***************************************************************************)
(* What makes these inductive (Data_proofs).                               *)
(***************************************************************************)
AnswersForm ==
  /\ parts \in [AlertDoc -> SUBSET Nat]
  /\ writer \in [AlertDoc ->
       [step : {"off", "visit", "done", "ingested", "stopped"}, next : Nat,
        queue : [Queued -> Seq(Nat)]]]
  /\ answer \in [step : {"idle", "open", "done"}, fields : SUBSET DOMAIN Loader,
                 page : SUBSET AlertDoc, loaded : SUBSET ((DOMAIN Loader) \X Key),
                 got : SUBSET ((DOMAIN Loader) \X Key)]
  /\ answer.fields \in Selection \cup {{}}
  /\ pruned \subseteq AlertDoc /\ whole \subseteq AlertDoc

Visiting(n) == writer[n].step \in {"visit", "done"}

\* Rows are of elements that were visited, and the rows they belong to are there.
RowsHold(n) ==
  /\ parts[n] \subseteq 0 .. Size(n)
  /\ \A i \in parts[n] : i < writer[n].next
  /\ \A i \in parts[n] \ {0} : Parent(n, i) \in parts[n]
  /\ writer[n].next \in 1 .. Size(n) + 1
  /\ writer[n].step = "off" => writer[n].next = 1
  /\ writer[n].step \in {"done", "ingested"} => writer[n].next = Size(n) + 1

QueuesHold(n) ==
  \A m \in Queued :
    /\ Len(writer[n].queue[m]) < chunk_size
    /\ \A i \in InQueue(writer[n], m) : i \in 1 .. writer[n].next - 1

\* What was visited is written or queued, and no more than the queues is lost.
NothingLeftOut(n) ==
  n \notin pruned =>
    /\ \A i \in 1 .. writer[n].next - 1 : Model(n, i) \in Created => i \in parts[n]
    /\ Visiting(n) => \A i \in (1 .. writer[n].next - 1) \ parts[n] :
                         i \in InQueue(writer[n], Model(n, i))
    /\ ~Visiting(n) => \A m \in Queued : Cardinality(Lost(n, m)) < chunk_size
    /\ writer[n].step = "ingested" => 1 .. Size(n) \subseteq parts[n]

DocumentInv == \A n \in AlertDoc : RowsHold(n) /\ QueuesHold(n) /\ NothingLeftOut(n)

\* A loader that has loaded a key of a whole alert has all that belongs to it; what
\* the loader of info has is the first info of the document.
AnswerHolds ==
  /\ answer.step = "idle" => answer.loaded = {} /\ answer.got = {}
  /\ answer.step = "done" => \A l \in DOMAIN Loader : Batch(l) = {}
  /\ \A n \in whole : writer[n].step = "ingested"
  /\ \A l \in (DOMAIN Loader) \ {"info"}, n \in whole \ pruned, p \in Nat :
       <<l, <<n, p>>>> \in answer.loaded =>
         \A i \in 1 .. Size(n) :
           Model(n, i) = Loader[l] /\ Parent(n, i) = p => <<l, <<n, i>>>> \in answer.got
  /\ \A l \in DOMAIN Loader, n \in AlertDoc, i \in Nat :
       <<l, <<n, i>>>> \in answer.got =>
         /\ i \in 1 .. Size(n) /\ Model(n, i) = Loader[l]
         /\ l = "info" /\ n \notin pruned => \A j \in 1 .. i - 1 : Model(n, j) # "AlertInfo"

AnswersInv == AnswersForm /\ DocumentInv /\ AnswerHolds

================================================================================
