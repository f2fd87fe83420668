--------------------------- MODULE SubscriptionEmails ---------------------------
(***************************************************************************)
(* The mails of subscriptions (apps/subscription/emails.py and tasks.py):  *)
(* the beat sends the task of a frequency once per period, and the task    *)
(* mails every user the alerts that were tagged to a subscription and sent *)
(* by their publisher within the last period, at most five of each.        *)
(*                                                                         *)
(* Tagging is AlertDelivery, which TaggingService implements: an alert may *)
(* be sent, arrive and be tagged at different times.  The mails of one     *)
(* frequency do not depend on another's: the module is about one.          *)
(***************************************************************************)
EXTENDS Integers, FiniteSets

CONSTANTS
  MailSubscription, Url,
  User, Owner,     \* Owner \in [MailSubscription -> User]
  Asked,           \* the pairs of a subscription and an alert it asks for
  Period,          \* of the beat, and the window of from_datetime_threshold
  Delay,           \* bound of the time from the beat to the end of the task
  LatestLimit,     \* alerts that a mail lists of a subscription ([:5])
  LastTime, MaxMailFaults  \* bounds of the instance

ASSUME EmailsAssumption ==
  /\ Owner \in [MailSubscription -> User] /\ Asked \subseteq MailSubscription \X Url
  /\ User # {} /\ IsFiniteSet(Url)
  /\ Period \in Nat /\ Delay \in Nat /\ Delay < Period /\ LatestLimit \in Nat \ {0}
  /\ LastTime \in Nat /\ MaxMailFaults \in Nat

VARIABLES
  state, tagged,   \* tagging, as subscribers see it
  sent,          \* [Url -> time], when its publisher sent the alert
  selected,      \* subscriptions is_active, notify_by_email, of this frequency
  time,
  beat,          \* time of the last message of the beat
  task,          \* the run of the task: step, users to do, the mail in hand
  timesMailed,   \* [MailSubscription \X Url -> Nat], times an alert was mailed
  lastSentAt,    \* [MailSubscription -> email_last_sent_at]
  mailFaults,    \* history: mails refused and runs killed
  promised       \* history: rows that were in the window when the run started

mailVars == <<task, timesMailed, lastSentAt, promised>>
emailsVars == <<state, tagged, sent, selected, time, beat, mailFaults, mailVars>>

Delivery == INSTANCE AlertDelivery WITH Subscription <- MailSubscription, rows <- tagged

TagRow == MailSubscription \X Url
Time == 0 .. LastTime
NoMail == [user |-> CHOOSE u \in User : TRUE, lines |-> {}, at |-> 0]
Waiting == [step |-> "waiting", todo |-> {}, mail |-> NoMail]
Resting == [Waiting EXCEPT !.step = "resting"]

EmailsTypeOK ==
  /\ state \in [Url -> {"absent", "pending", "done"}] /\ tagged \in [TagRow -> Nat]
  /\ sent \in [Url -> Time] /\ selected \subseteq MailSubscription
  /\ time \in Time /\ beat \in Time
  /\ task \in [step: {"resting", "waiting", "next", "send", "stamp"},
               todo: SUBSET User,
               mail: [user: User, lines: SUBSET TagRow, at: Time]]
  /\ \A p \in task.mail.lines : tagged[p] > 0
  /\ timesMailed \in [TagRow -> Nat] /\ lastSentAt \in [MailSubscription -> Time]
  /\ mailFaults \in 0 .. MaxMailFaults
  /\ promised \subseteq TagRow

EmailsInit ==
  /\ Delivery!Init
  /\ sent = [a \in Url |-> 0]
  /\ selected \in SUBSET MailSubscription
  /\ time = 0 /\ beat = 0
  /\ task = Waiting
  /\ timesMailed = [p \in TagRow |-> 0]
  /\ lastSentAt = [s \in MailSubscription |-> 0]
  /\ mailFaults = 0 /\ promised = {}

--------------------------------------------------------------------------------
\* An alert arrives after it was sent.
Arrive(a) ==
  /\ Delivery!Arrive(a)
  /\ \E t \in 0 .. time : sent' = [sent EXCEPT ![a] = t]
  /\ UNCHANGED <<selected, time, beat, mailFaults, mailVars>>

\* The tagging task hands the pending alerts to the subscriptions.
Tag ==
  /\ \E A \in {{a \in Url : state[a] = "pending"}} :
       A # {} /\ Delivery!Deliver(A, {p \in Asked : p[2] \in A})
  /\ UNCHANGED <<sent, selected, time, beat, mailFaults, mailVars>>

\* A user, or an unsubscribe link, takes a subscription in or out of the mails.
Select(s) ==
  /\ selected' = IF s \in selected THEN selected \ {s} ELSE selected \cup {s}
  /\ promised' = {p \in promised : p[1] # s}
  /\ UNCHANGED <<state, tagged, sent, time, beat, mailFaults, task, timesMailed, lastSentAt>>

\* Time passes; the task of a beat has ended before Delay has passed.
MailTick ==
  /\ time < LastTime
  /\ task.step = "resting" \/ time < beat + Delay
  /\ time' = time + 1
  /\ IF time' = beat + Period THEN beat' = time' /\ task' = Waiting
     ELSE UNCHANGED <<beat, task>>
  /\ UNCHANGED <<state, tagged, sent, selected, mailFaults, timesMailed, lastSentAt, promised>>

--------------------------------------------------------------------------------
\* Sensitivity variant: a window that no time bounds.
EverTagged(s) == {a \in Url : tagged[<<s, a>>] > 0}

\* The alerts tagged to s that were sent within the last period.
Window(s) == {a \in Url : tagged[<<s, a>>] > 0 /\ sent[a] >= time - Period}

\* The latest LatestLimit of them, ties broken by the database.
IsLatest(A, s) ==
  /\ A \subseteq Window(s)
  /\ Cardinality(A) = IF Cardinality(Window(s)) < LatestLimit THEN Cardinality(Window(s))
                      ELSE LatestLimit
  /\ \A a \in A, b \in Window(s) \ A : sent[a] >= sent[b]

Owned(u) == {s \in selected : Owner[s] = u}

\* A worker starts the task: users_qs is read once, by a server-side cursor.
StartRun ==
  /\ task.step = "waiting"
  /\ task' = [task EXCEPT !.step = "next", !.todo = {Owner[s] : s \in selected}]
  /\ promised' = {p \in TagRow : p[1] \in selected /\ tagged[p] > 0
                               /\ sent[p[2]] >= beat + Delay - Period}
  /\ UNCHANGED <<state, tagged, sent, selected, time, beat, mailFaults, timesMailed,
                 lastSentAt>>

\* generate_user_alert_subscription_email_context for the next user; without
\* data no mail is sent.
Compose(u) ==
  /\ task.step = "next" /\ u \in task.todo
  /\ \E F \in [Owned(u) -> SUBSET Url] :
       /\ \A s \in Owned(u) : IsLatest(F[s], s)
       /\ LET lines == {p \in TagRow : p[1] \in Owned(u) /\ p[2] \in F[p[1]]} IN
          task' = [step |-> IF lines = {} THEN "stamp" ELSE "send",
                   todo |-> task.todo \ {u},
                   mail |-> [user |-> u, lines |-> lines, at |-> time]]
  /\ UNCHANGED <<state, tagged, sent, selected, time, beat, mailFaults, timesMailed, lastSentAt,
                 promised>>

\* The mail server takes the mail.
Send ==
  /\ task.step = "send"
  /\ timesMailed' = [p \in TagRow |->
       IF p \in task.mail.lines THEN timesMailed[p] + 1 ELSE timesMailed[p]]
  /\ task' = [task EXCEPT !.step = "stamp"]
  /\ UNCHANGED <<state, tagged, sent, selected, time, beat, mailFaults, lastSentAt, promised>>

\* Sensitivity variant: no try around the mail of a user.
AbortsRun == Resting

\* The exception is logged and the next user is done.
NextUser == [task EXCEPT !.step = "next", !.mail = NoMail]

\* The mail server refuses, or a template fails.
SendFails ==
  /\ task.step = "send" /\ mailFaults < MaxMailFaults
  /\ mailFaults' = mailFaults + 1
  /\ task' = NextUser
  /\ promised' = {p \in promised : Owner[p[1]] # task.mail.user}
  /\ UNCHANGED <<state, tagged, sent, selected, time, beat, timesMailed, lastSentAt>>

\* The rows of subscription_qs.
Stamped(s) == s \in Owned(task.mail.user)

\* subscription_qs.update: the filter is evaluated again, the time is that of
\* the composition.
Stamp ==
  /\ task.step = "stamp"
  /\ lastSentAt' = [s \in MailSubscription |-> IF Stamped(s) THEN task.mail.at ELSE lastSentAt[s]]
  /\ task' = NextUser
  /\ UNCHANGED <<state, tagged, sent, selected, time, beat, mailFaults, timesMailed, promised>>

EndRun ==
  /\ task.step = "next" /\ task.todo = {}
  /\ task' = Resting
  /\ promised' = {}
  /\ UNCHANGED <<state, tagged, sent, selected, time, beat, mailFaults, timesMailed,
                 lastSentAt>>

\* The worker is killed, or passes its time limit: the users left get no mail
\* in this period (its redis lock has expired by the next beat).
Killed ==
  /\ task.step \in {"next", "send", "stamp"} /\ mailFaults < MaxMailFaults
  /\ mailFaults' = mailFaults + 1
  /\ task' = Resting
  /\ promised' = {}
  /\ UNCHANGED <<state, tagged, sent, selected, time, beat, timesMailed, lastSentAt>>

EmailTask == \/ StartRun \/ Send \/ SendFails \/ Stamp \/ EndRun \/ Killed
             \/ \E u \in User : Compose(u)

EmailsNext ==
  \/ EmailTask \/ MailTick \/ Tag
  \/ \E a \in Url : Arrive(a)
  \/ \E s \in MailSubscription : Select(s)

EmailsSpec == EmailsInit /\ [][EmailsNext]_emailsVars

--------------------------------------------------------------------------------
\* The window of a run reaches back to the run before, however late either is,
\* and never to the one before that: an alert is mailed for a subscription at
\* most twice.
MailedAtMostTwice == \A p \in TagRow : timesMailed[p] <= 2

\* Of the alerts sent no earlier than a, those s was mailed.
MailedInstead(s, a) == {b \in Url : timesMailed[<<s, b>>] > 0 /\ sent[b] >= sent[a]}

\* A run that ends has mailed every alert that was tagged when it started and
\* stayed in the window, or as many later ones as a mail lists, to each user
\* who stayed subscribed and whose own mail did not fail, and has stamped the
\* subscription: whatever happened to the mails of the others.  (An alert tagged
\* later than a period after it was sent is in no mail.)
RunKeepsPromise ==
  [][task.step # "resting" /\ task'.step = "resting" /\ mailFaults' = mailFaults =>
       \A p \in promised :
         /\ \/ timesMailed[p] > 0
            \/ Cardinality(MailedInstead(p[1], p[2])) >= LatestLimit
         /\ lastSentAt[p[1]] >= beat]_emailsVars

(***************************************************************************)
(* The strengthening that makes these properties inductive.                *)
(***************************************************************************)
\* A task ends before Delay has passed and a beat comes every Period.
Clocked ==
  /\ beat <= time /\ time < beat + Period
  /\ task.step # "resting" => time <= beat + Delay
  /\ task.step \in {"send", "stamp"} => task.mail.at >= beat

\* Alerts are sent before they arrive and tagged after.
ArrivedFirst == \A a \in Url : /\ sent[a] <= time
                               /\ state[a] = "absent" => \A s \in MailSubscription : tagged[<<s, a>>] = 0

\* The task has yet to compose its mail to u.
StillTo(u) ==
  \/ task.step = "waiting"
  \/ task.step \in {"next", "send", "stamp"} /\ u \in task.todo

InMail(p) == task.step = "send" /\ p \in task.mail.lines

\* The mails that list p, the one in hand included.
Mails(p) == timesMailed[p] + (IF InMail(p) THEN 1 ELSE 0)

\* A mail tells when its alert was sent: the first one was of this beat or an
\* earlier one, the second of a later beat.
MailsBound(p) ==
  LET last == IF StillTo(Owner[p[1]]) THEN beat - Period ELSE beat IN
  /\ Mails(p) <= 2
  /\ Mails(p) >= 1 => tagged[p] > 0 /\ sent[p[2]] <= last + Delay
  /\ Mails(p) >= 2 => sent[p[2]] <= last - Period + Delay

MailsInv == Clocked /\ ArrivedFirst /\ \A p \in TagRow : MailsBound(p)

ListedInstead(s, a) == {b \in Url : <<s, b>> \in task.mail.lines /\ sent[b] >= sent[a]}

\* The mail to the owner of p[1] has been composed, and is sent and stamped or will be.
Answered(p) ==
  LET mine == task.mail.user = Owner[p[1]] IN
  /\ \/ timesMailed[p] > 0
     \/ Cardinality(MailedInstead(p[1], p[2])) >= LatestLimit
     \/ /\ task.step = "send" /\ mine
        /\ (p \in task.mail.lines \/ Cardinality(ListedInstead(p[1], p[2])) >= LatestLimit)
  /\ \/ lastSentAt[p[1]] >= beat
     \/ task.step \in {"send", "stamp"} /\ mine

PromiseInv ==
  \A p \in promised :
    /\ task.step \in {"next", "send", "stamp"}
    /\ p[1] \in selected /\ tagged[p] > 0 /\ sent[p[2]] >= beat + Delay - Period
    /\ (Owner[p[1]] \in task.todo \/ Answered(p))

================================================================================
