------------------------------- MODULE Accounts -------------------------------
(***************************************************************************)
(* The handlers that write a user's row, and the recovery of a password.   *)
(* RecoverPasswordController stores a request and mails a link; the link   *)
(* opens a web flow that holds the request and its user until the user has *)
(* chosen a password; RecoverPasswordManteinance purges the requests whose *)
(* time is over.  A handler loads a user in one transaction and merges it  *)
(* in another: the merge writes every column as it was loaded.             *)
(***************************************************************************)
EXTENDS Integers, FiniteSets

CONSTANTS
  User,
  Request,      \* the HTTP worker threads
  Form,         \* the browsers that can have the reset form open
  Token,        \* bound: recovery requests ever made
  Validity,     \* RecoverPassword: endValidity - startValidity
  Period,       \* fixedDelay of the purge
  Advertised,   \* how long the mail says that the link is active
  MaxTime,      \* bound
  MaxCalls,     \* bound: calls and forms ever started
  MaxCrashes    \* bound: times the server stops

ASSUME AccountsAssumption ==
  /\ Validity \in Nat /\ Period \in Nat \ {0} /\ Advertised \in Nat
  /\ MaxTime \in Nat /\ MaxCalls \in Nat /\ MaxCrashes \in Nat

VARIABLES
  row,      \* row[u]: the columns of user u; their values are numbered as they are set
  req,      \* req[i]: what worker i is doing
  form,     \* form[f]: the reset form in browser f
  request,  \* request[k]: the RecoverPassword row with token k, if there is one
  now, due, \* the clock, and when the purge runs next
  purging,  \* the requests the running purge has still to delete; or Resting
  up, started, crashes,
  issued,   \* issued[k]: the row that was created with token k
  set,      \* set[u]: the last value that was set, column by column
  overlap   \* the users with a column that was set while somebody else held a copy

vars == << row, req, form, request, now, due, purging, up, started, crashes, issued,
           set, overlap >>

-----------------------------------------------------------------------------

Column == { "password", "gcmId", "profile" }

Row == [Column -> Nat]

\* The handlers, and the column each of them changes; recoverPasswordPost changes
\* none, but storing its request merges the user.
Changes == [gcmRegistration |-> {"gcmId"}, postUserEdit |-> {"profile"},
            recoverPasswordPost |-> {}]

Idle == [pc |-> "idle"]

Working == [pc : {"loaded"}, handler : DOMAIN Changes, user : User, copy : Row]

Closed == [pc |-> "closed"]

Open == [pc : {"open"}, token : Token, user : User, copy : Row]

None == [user |-> "none"]

RecoverPassword == [user : User, start : Nat, end : Nat]

Resting == [running |-> FALSE, todo |-> {}]

TypeOK ==
  /\ row \in [User -> Row] /\ set \in [User -> Row]
  /\ req \in [Request -> {Idle} \cup Working]
  /\ form \in [Form -> {Closed} \cup Open]
  /\ request \in [Token -> {None} \cup RecoverPassword]
  /\ issued \in [Token -> {None} \cup RecoverPassword]
  /\ now \in 0 .. MaxTime /\ due \in 0 .. MaxTime + Period
  /\ purging = Resting \/ purging \in [running : {TRUE}, todo : SUBSET Token]
  /\ up \in BOOLEAN
  /\ started \in 0 .. MaxCalls /\ crashes \in 0 .. MaxCrashes
  /\ overlap \subseteq User

Init ==
  /\ row = [u \in User |-> [c \in Column |-> 0]]
  /\ set = row
  /\ req = [i \in Request |-> Idle]
  /\ form = [f \in Form |-> Closed]
  /\ request = [k \in Token |-> None]
  /\ issued = request
  /\ now = 0 /\ due = 0 /\ purging = Resting
  /\ up = TRUE /\ started = 0 /\ crashes = 0
  /\ overlap = {}

Starts == up /\ started < MaxCalls /\ started' = started + 1

-----------------------------------------------------------------------------
(* The handlers of the phone and of the web pages.                         *)

\* userService.getUser
Load(i, h, u) ==
  /\ req[i] = Idle
  /\ Starts
  /\ req' = [req EXCEPT ![i] = [pc |-> "loaded", handler |-> h, user |-> u, copy |-> row[u]]]
  /\ UNCHANGED << row, form, request, now, due, purging, up, crashes, issued, set, overlap >>

\* The merge of a copy in which the columns cs were set; others: whether anybody
\* else holds a copy.
Merge(u, copy, cs, others) ==
  /\ set' = [set EXCEPT ![u] = [c \in Column |-> IF c \in cs THEN @[c] + 1 ELSE @[c]]]
  /\ row' = [row EXCEPT ![u] = [c \in Column |-> IF c \in cs THEN set[u][c] + 1 ELSE copy[c]]]
  /\ overlap' = IF cs # {} /\ others THEN overlap \cup {u} ELSE overlap

Workers(u) == { i \in Request : req[i] # Idle /\ req[i].user = u }

Forms(u) == { f \in Form : form[f] # Closed /\ form[f].user = u }

\* userService.save in gcmRegistration and postUserEdit
Save(i) ==
  /\ req[i].pc = "loaded"
  /\ req[i].handler # "recoverPasswordPost"
  /\ LET u == req[i].user IN
       Merge(u, req[i].copy, Changes[req[i].handler], (Workers(u) \ {i}) \cup Forms(u) # {})
  /\ req' = [req EXCEPT ![i] = Idle]
  /\ UNCHANGED << form, request, now, due, purging, up, started, crashes, issued >>

-----------------------------------------------------------------------------
(* The recovery of a password.                                             *)

\* Mutant: the request names its user by a reference with no columns in it.
SetupRecoveryByReference(i, k) ==
  /\ req[i].pc = "loaded"
  /\ req[i].handler = "recoverPasswordPost"
  /\ issued[k] = None
  /\ issued' = [issued EXCEPT ![k] =
                  [user |-> req[i].user, start |-> now, end |-> now + Validity]]
  /\ request' = [request EXCEPT ![k] = issued'[k]]
  /\ Merge(req[i].user, [c \in Column |-> 0], {}, FALSE)
  /\ req' = [req EXCEPT ![i] = Idle]
  /\ UNCHANGED << form, now, due, purging, up, started, crashes >>

\* Mutant: the validity ends before it starts.
SetupRecoveryBackwards(i, k) ==
  /\ req[i].pc = "loaded"
  /\ req[i].handler = "recoverPasswordPost"
  /\ issued[k] = None
  /\ issued' = [issued EXCEPT ![k] =
                  [user |-> req[i].user, start |-> now, end |-> now - Validity]]
  /\ request' = [request EXCEPT ![k] = issued'[k]]
  /\ Merge(req[i].user, req[i].copy, {}, FALSE)
  /\ req' = [req EXCEPT ![i] = Idle]
  /\ UNCHANGED << form, now, due, purging, up, started, crashes >>

\* setupRecovery: the merge of the new request cascades to its user.
SetupRecovery(i, k) ==
  /\ req[i].pc = "loaded"
  /\ req[i].handler = "recoverPasswordPost"
  /\ issued[k] = None
  /\ issued' = [issued EXCEPT ![k] =
                  [user |-> req[i].user, start |-> now, end |-> now + Validity]]
  /\ request' = [request EXCEPT ![k] = issued'[k]]
  /\ Merge(req[i].user, req[i].copy, {}, FALSE)
  /\ req' = [req EXCEPT ![i] = Idle]
  /\ UNCHANGED << form, now, due, purging, up, started, crashes >>

\* The link of the mail: findByToken.  (Without the row, an error page.)
OpenForm(f, k) ==
  /\ form[f] = Closed
  /\ request[k] # None
  /\ Starts
  /\ form' = [form EXCEPT ![f] = [pc |-> "open", token |-> k, user |-> request[k].user,
                                  copy |-> row[request[k].user]]]
  /\ UNCHANGED << row, req, request, now, due, purging, up, crashes, issued, set, overlap >>

\* Mutant: the request is saved with its user.
SetPasswordOfRequest(f) ==
  /\ form[f] # Closed
  /\ LET u == form[f].user IN
       Merge(u, form[f].copy, {"password"}, (Forms(u) \ {f}) \cup Workers(u) # {})
  /\ request' = [request EXCEPT ![form[f].token] = issued[form[f].token]]
  /\ form' = [form EXCEPT ![f] = Closed]
  /\ UNCHANGED << req, now, due, purging, up, started, crashes, issued >>

\* "change": the user of the request the flow holds is saved; the request itself
\* is neither looked at again nor deleted.
SetPassword(f) ==
  /\ form[f] # Closed
  /\ LET u == form[f].user IN
       Merge(u, form[f].copy, {"password"}, (Forms(u) \ {f}) \cup Workers(u) # {})
  /\ form' = [form EXCEPT ![f] = Closed]
  /\ UNCHANGED << req, request, now, due, purging, up, started, crashes, issued >>

\* "cancel", or the browser is closed
CloseForm(f) ==
  /\ form[f] # Closed
  /\ form' = [form EXCEPT ![f] = Closed]
  /\ UNCHANGED << row, req, request, now, due, purging, up, started, crashes, issued, set,
                  overlap >>

-----------------------------------------------------------------------------
(* The purge.                                                              *)

\* findExpiredAt
Expired == { k \in Token : request[k] # None /\ request[k].end < now }

PurgeScan ==
  /\ up /\ purging = Resting /\ due <= now
  /\ purging' = [running |-> TRUE, todo |-> Expired]
  /\ UNCHANGED << row, req, form, request, now, due, up, started, crashes, issued, set,
                  overlap >>

\* One transaction for each; a row that is gone is skipped.
PurgeDelete ==
  /\ up /\ purging # Resting
  /\ \E k \in purging.todo :
       /\ request' = [request EXCEPT ![k] = None]
       /\ purging' = [running |-> TRUE, todo |-> purging.todo \ {k}]
  /\ UNCHANGED << row, req, form, now, due, up, started, crashes, issued, set, overlap >>

PurgeEnds ==
  /\ up /\ purging # Resting /\ purging.todo = {}
  /\ purging' = Resting
  /\ due' = now + Period
  /\ UNCHANGED << row, req, form, request, now, up, started, crashes, issued, set, overlap >>

-----------------------------------------------------------------------------

\* The scheduler is on time: an hour is long for a purge.
Tick ==
  /\ now < MaxTime
  /\ up => purging = Resting /\ now < due
  /\ now' = now + 1
  /\ UNCHANGED << row, req, form, request, due, purging, up, started, crashes, issued, set,
                  overlap >>

Stop ==
  /\ up /\ crashes < MaxCrashes
  /\ crashes' = crashes + 1
  /\ up' = FALSE
  /\ req' = [i \in Request |-> Idle]
  /\ form' = [f \in Form |-> Closed]
  /\ purging' = Resting
  /\ UNCHANGED << row, request, now, due, started, issued, set, overlap >>

\* A fixed delay begins with a run.
Start ==
  /\ ~ up
  /\ up' = TRUE
  /\ due' = now
  /\ UNCHANGED << row, req, form, request, now, purging, started, crashes, issued, set,
                  overlap >>

Next ==
  \/ \E i \in Request, h \in DOMAIN Changes, u \in User : Load(i, h, u)
  \/ \E i \in Request : Save(i)
  \/ \E i \in Request, k \in Token : SetupRecovery(i, k)
  \/ \E f \in Form, k \in Token : OpenForm(f, k)
  \/ \E f \in Form : SetPassword(f)
  \/ \E f \in Form : CloseForm(f)
  \/ PurgeScan
  \/ PurgeDelete
  \/ PurgeEnds
  \/ Tick
  \/ Stop
  \/ Start

Spec == Init /\ [][Next]_vars

-----------------------------------------------------------------------------
(* Properties.                                                             *)

\* A request is there until its validity is over, and, although nothing but the
\* purge ever looks at the validity, no longer than a period after that: a form
\* sent in late, requests made while the purge runs and a server that was down
\* when it was due leave none behind.
LinkLifetime ==
  \A k \in Token :
    /\ issued[k] # None /\ now <= issued[k].end => request[k] # None
    /\ request[k] # None /\ up /\ now < due => now <= request[k].end + Period

\* What a user sets stays set, however long the form was open and whatever else
\* merges the user, unless somebody held a copy of the user at that moment.
ChangesKept == \A u \in User \ overlap : row[u] = set[u]

\* "Questo link sarà attivo per 24 ore."
LinkActiveAsAdvertised ==
  \A k \in Token :
    issued[k] # None /\ now <= issued[k].start + Advertised => request[k] # None
=============================================================================
