-------------------------------- MODULE Accounts --------------------------------
(***************************************************************************)
(* User accounts (apps/user, main/tokens.py, utils/tokens.py): sign up,    *)
(* activation and password-reset links, sessions, profile updates.         *)
(*                                                                         *)
(* A request runs in autocommit: it loads the rows it validates, and saves *)
(* later what it has in memory, with other requests in between.  A browser *)
(* has one request at a time and one session.  The salt of a password hash *)
(* and the last_login time are numbers that are never used twice.          *)
(***************************************************************************)
EXTENDS Integers, FiniteSets

CONSTANTS
  Email,       \* addresses, up to case (email__iexact, lower())
  Password,
  Browser,
  NoAccount,   \* model value
  MaxChanges   \* bound of the salts and login times given out

Hash == Password \X (0 .. MaxChanges)
UserRow == [active: BOOLEAN, hash: Hash, login: 0 .. MaxChanges]

ASSUME AccountsAssumption ==
  MaxChanges \in Nat /\ NoAccount \notin UserRow /\ NoAccount \notin Email \X Hash

VARIABLES
  account,   \* [Email -> row of User or NoAccount]
  links,     \* links that have been mailed
  session,   \* [Browser -> the account and hash its session cookie stands for]
  serving,   \* [Browser -> what the request it waits for has in memory]
  changes,   \* the last number given out
  spent,     \* history: links that a completed request has used
  openedBy,  \* history: accounts opened by their link or by an admin
  closed,    \* history: accounts that an admin has closed
  lastSet,   \* history: the hash each account was last given
  undone     \* history: accounts a profile update has set back

accountsVars == <<account, links, session, serving, changes, spent, openedBy,
                  closed, lastSet, undone>>

Link == [kind: {"activation", "reset"}, email: Email, row: UserRow]
NoRequest == [step |-> "idle", data |-> NoAccount]

AccountsTypeOK ==
  /\ account \in [Email -> UserRow \cup {NoAccount}]
  /\ links \subseteq Link /\ spent \subseteq Link
  /\ \A b \in Browser :
       /\ session[b] = NoAccount \/ session[b] \in Email \X Hash
       /\ serving[b].step \in {"idle", "create", "activate", "login", "reset",
                               "change", "refresh", "profile"}
  /\ changes \in 0 .. MaxChanges
  /\ openedBy \cup closed \cup undone \subseteq Email
  /\ lastSet \in [Email -> Hash \cup {NoAccount}]

AccountsInit ==
  /\ account = [e \in Email |-> NoAccount]
  /\ links = {} /\ spent = {} /\ openedBy = {} /\ closed = {} /\ undone = {}
  /\ session = [b \in Browser |-> NoAccount]
  /\ serving = [b \in Browser |-> NoRequest]
  /\ changes = 0
  /\ lastSet = [e \in Email |-> NoAccount]

--------------------------------------------------------------------------------
Registered(e) == account[e] # NoAccount

\* make_token mixes the columns that _make_hash_value names with a secret:
\* check_token recomputes it from the row as it is now.
\* Sensitivity variant: the default hash of _generate_generator, pk and time.
ResetHashOfKey(l, row) == row # NoAccount

ResetLinkHolds(l, row) ==
  row # NoAccount /\ row.hash = l.row.hash /\ row.login = l.row.login

ActivationLinkHolds(l, row) == row # NoAccount /\ row.active = l.row.active

\* Sensitivity variant: a session that holds an account and no hash.
SignedInByName(b) == session[b] # NoAccount /\ account[session[b][1]].active

\* The session middleware finds the user of the cookie: the hash it holds is
\* that of the current password, and the account is active.
SignedIn(b) ==
  /\ session[b] # NoAccount
  /\ account[session[b][1]].hash = session[b][2]
  /\ account[session[b][1]].active

\* set_password: a hash with a salt of its own.
SetPassword(p) == <<p, changes + 1>>

\* b's request loads and validates, and goes on with what it keeps of it.
Load(b, step, data) ==
  /\ serving[b] = NoRequest
  /\ serving' = [serving EXCEPT ![b] = [step |-> step, data |-> data]]
  /\ UNCHANGED <<account, links, session, changes, spent, openedBy, lastSet, undone, closed>>

Data(b) == serving[b].data
Done(b) == serving' = [serving EXCEPT ![b] = NoRequest]
Number == changes < MaxChanges /\ changes' = changes + 1

\* register: the address must be free; create_user and, on commit, the mail,
\* which may fail.  The unique index refuses a second row.
Register(b, e, p) == ~Registered(e) /\ Load(b, "create", [email |-> e, pw |-> p])

NewRow(p) == [active |-> FALSE, hash |-> SetPassword(p), login |-> 0]

CreateUser(b) ==
  /\ serving[b].step = "create"
  /\ LET e == Data(b).email IN
     IF Registered(e) THEN UNCHANGED <<account, links, changes, lastSet>>
     ELSE /\ Number
          /\ account' = [account EXCEPT ![e] = NewRow(Data(b).pw)]
          /\ lastSet' = [lastSet EXCEPT ![e] = account'[e].hash]
          /\ \/ links' = links \cup {[kind |-> "activation", email |-> e, row |-> account'[e]]}
             \/ UNCHANGED links
  /\ Done(b)
  /\ UNCHANGED <<session, spent, openedBy, undone, closed>>

\* account_activation, password_reset_confirm: validate_token.  A link older than
\* the timeout of its generator is one that is not followed any more.
FollowActivation(b, l) ==
  /\ l.kind = "activation" /\ ActivationLinkHolds(l, account[l.email])
  /\ Load(b, "activate", [email |-> l.email, link |-> l])

FollowReset(b, l, p) ==
  /\ l.kind = "reset" /\ ResetLinkHolds(l, account[l.email])
  /\ Load(b, "reset", [email |-> l.email, pw |-> p, link |-> l])

ActivateSave(b) ==
  /\ serving[b].step = "activate"
  /\ account' = [account EXCEPT ![Data(b).email].active = TRUE]
  /\ spent' = spent \cup {Data(b).link}
  /\ openedBy' = openedBy \cup {Data(b).email}
  /\ Done(b)
  /\ UNCHANGED <<links, session, changes, lastSet, undone, closed>>

\* user.save(update_fields=('password',)).
SavePassword(b) ==
  /\ Number
  /\ account' = [account EXCEPT ![Data(b).email].hash = SetPassword(Data(b).pw)]
  /\ lastSet' = [lastSet EXCEPT ![Data(b).email] = SetPassword(Data(b).pw)]

ResetSave(b) ==
  /\ serving[b].step = "reset"
  /\ SavePassword(b)
  /\ spent' = spent \cup {Data(b).link}
  /\ Done(b)
  /\ UNCHANGED <<links, session, openedBy, undone, closed>>

\* password_reset_trigger mails a link, to active users and others.
TriggerReset(e) ==
  /\ Registered(e)
  /\ links' = links \cup {[kind |-> "reset", email |-> e, row |-> account[e]]}
  /\ UNCHANGED <<account, session, serving, changes, spent, openedBy, lastSet, undone, closed>>

--------------------------------------------------------------------------------
\* login: authenticate, then login() stores the hash it has in memory in the
\* session and saves last_login.
Authenticate(b, e, p) ==
  /\ Registered(e) /\ account[e].active /\ account[e].hash[1] = p
  /\ Load(b, "login", [email |-> e, hash |-> account[e].hash])

Login(b) ==
  /\ serving[b].step = "login"
  /\ Number
  /\ session' = [session EXCEPT ![b] = <<Data(b).email, Data(b).hash>>]
  /\ account' = [account EXCEPT ![Data(b).email].login = changes']
  /\ Done(b)
  /\ UNCHANGED <<links, spent, openedBy, lastSet, undone, closed>>

Logout(b) ==
  /\ serving[b] = NoRequest /\ SignedIn(b)
  /\ session' = [session EXCEPT ![b] = NoAccount]
  /\ UNCHANGED <<account, links, serving, changes, spent, openedBy, lastSet, undone, closed>>

\* change_user_password: the old password is right and the new one differs.
ChangePassword(b, p) ==
  /\ SignedIn(b) /\ account[session[b][1]].hash[1] # p
  /\ Load(b, "change", [email |-> session[b][1], pw |-> p])

ChangeSave(b) ==
  /\ serving[b].step = "change"
  /\ SavePassword(b)
  /\ serving' = [serving EXCEPT ![b] = [step |-> "refresh",
       data |-> [email |-> Data(b).email, hash |-> SetPassword(Data(b).pw)]]]
  /\ UNCHANGED <<links, session, spent, openedBy, undone, closed>>

\* update_session_auth_hash, with the user that the request has in memory.
Refreshed(b) == [session EXCEPT ![b] = <<Data(b).email, Data(b).hash>>]

ChangeRefresh(b) ==
  /\ serving[b].step = "refresh"
  /\ session' = Refreshed(b)
  /\ Done(b)
  /\ UNCHANGED <<account, links, changes, spent, openedBy, lastSet, undone, closed>>

\* update_me: the serializer is a ModelSerializer, whose save() saves the whole
\* row of request.user as it was loaded.
UpdateMe(b) ==
  /\ SignedIn(b)
  /\ Load(b, "profile", [email |-> session[b][1], row |-> account[session[b][1]]])

ProfileSave(b) ==
  /\ serving[b].step = "profile"
  /\ account' = [account EXCEPT ![Data(b).email] = Data(b).row]
  /\ undone' = IF account' = account THEN undone ELSE undone \cup {Data(b).email}
  /\ Done(b)
  /\ UNCHANGED <<links, session, changes, spent, openedBy, lastSet, closed>>

\* An admin switches is_active in the admin site.
AdminSwitch(e) ==
  /\ Registered(e)
  /\ account' = [account EXCEPT ![e].active = ~@]
  /\ openedBy' = openedBy \cup {e}
  /\ closed' = IF account[e].active THEN closed \cup {e} ELSE closed
  /\ UNCHANGED <<links, session, serving, changes, spent, lastSet, undone>>

--------------------------------------------------------------------------------
Validates(b) ==
  \/ \E e \in Email, p \in Password : Register(b, e, p) \/ Authenticate(b, e, p)
  \/ \E l \in links : FollowActivation(b, l) \/ \E p \in Password : FollowReset(b, l, p)
  \/ \E p \in Password : ChangePassword(b, p)
  \/ UpdateMe(b)

Saves(b) ==
  \/ CreateUser(b) \/ ActivateSave(b) \/ ResetSave(b) \/ Login(b)
  \/ ChangeSave(b) \/ ChangeRefresh(b) \/ ProfileSave(b)

AccountsNext ==
  \/ \E b \in Browser : Validates(b) \/ Saves(b) \/ Logout(b)
  \/ \E e \in Email : TriggerReset(e) \/ AdminSwitch(e)

AccountsSpec == AccountsInit /\ [][AccountsNext]_accountsVars

--------------------------------------------------------------------------------
\* An account is open only to somebody who followed the link mailed to its
\* address, or because an admin opened it: a failed mail, a second sign up of
\* the address or a reset of the password of an account never opens it.
ActiveByLink == \A e \in Email : Registered(e) /\ account[e].active => e \in openedBy

\* A link works once ("one-use only link", user/emails.py:14 and :38): it is
\* refused from then on, whatever logins, changes and resets came between, unless
\* a profile update sets the account back, or an admin closes the account that
\* an activation link has opened.
SpentLinkIsDead ==
  \A l \in spent : l.email \notin undone =>
    IF l.kind = "reset" THEN ~ResetLinkHolds(l, account[l.email])
    ELSE l.email \notin closed => ~ActivationLinkHolds(l, account[l.email])

\* A new password ends every session opened with the old one, those of requests
\* that are being served included.  The browser that asked for the change is
\* signed in again, unless the account was given another password or was closed
\* meanwhile.
SessionsFollowPassword ==
  [][/\ \A e \in Email : lastSet'[e] # lastSet[e] =>
          \A b \in Browser : session'[b] # NoAccount /\ session'[b][1] = e
                               => ~SignedIn(b)'
     /\ \A b \in Browser :
          /\ serving[b].step = "refresh" /\ serving'[b].step = "idle"
          /\ account[Data(b).email].active
          /\ lastSet[Data(b).email] = Data(b).hash
          /\ Data(b).email \notin undone
          => SignedIn(b)']_accountsVars

\* "Your password has been changed successfully."
\* (templates/emails/user/password_changed/body.txt:4): the password of an
\* account is the last one that it was given.
PasswordIsLastSet ==
  \A e \in Email : Registered(e) => account[e].hash = lastSet[e]

\* No profile update writes back another password than the account has: none read
\* the account before its password was set and saves it after (update_me).
ProfilesKeepPasswords ==
  [][\A b \in Browser :
       ProfileSave(b) => account'[Data(b).email].hash = account[Data(b).email].hash]_accountsVars

\* Links do what they are mailed for and no more: they open an account, once, and
\* nothing else does (account_activation, password_reset_confirm, register).
LinksHold == ActiveByLink /\ SpentLinkIsDead

================================================================================
