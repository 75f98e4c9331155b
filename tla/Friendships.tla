----------------------------- MODULE Friendships -----------------------------
(***************************************************************************)
(* The friendships of UserRestController: addFriend asks for a friendship, *)
(* accepts or rejects it, getFriendStatus tells a phone how things stand.  *)
(* A friendship is a row with a sender and a receiver; both handlers look  *)
(* for it in one direction and then, in another transaction, in the other. *)
(* Nothing in the table keeps a pair from having several rows, and a       *)
(* query that finds two ends in an exception nobody catches.               *)
(***************************************************************************)
EXTENDS Integers, FiniteSets, Sequences

CONSTANTS
  User,
  Request,    \* the HTTP worker threads
  MaxCalls    \* bound: calls ever started

ASSUME FriendshipsAssumption ==
  /\ IsFiniteSet(Request)
  /\ MaxCalls \in Nat

VARIABLES
  friendship,  \* friendship[d]: the statuses of the rows from sender d[1] to
               \* receiver d[2], in the order of their ids
  req,         \* req[i]: what HTTP worker i is doing
  started,
  recent,      \* recent[i]: the tables there have been since the call that
               \* worker i answers began
  crossed      \* the directions in which addFriend was called while a call for
               \* the same two users was running

friendVars == << friendship, req, started, recent, crossed >>

-----------------------------------------------------------------------------

FriendshipStatus == { "PENDING", "ACCEPTED", "REJECTED" }

Direction == { d \in User \X User : d[1] # d[2] }

Back(d) == << d[2], d[1] >>

Idle == [pc |-> "idle"]

Asking == [pc : {"own", "other", "creating"}, way : Direction, status : FriendshipStatus]

Updating == [pc : {"updating"}, way : Direction, status : FriendshipStatus,
             row : Direction \X Nat]

\* What getFriendStatus answers: a status and whether the user is the sender.
View == { "NOT_SETTED", "ACCEPTED", "PENDING_SENT", "PENDING_RECEIVED",
          "REJECTED_SENT", "REJECTED_RECEIVED" }

Looking == [pc : {"looking", "lookingBack"}, way : Direction]
             \cup [pc : {"answering"}, way : Direction, view : View]

Init ==
  /\ friendship = [d \in Direction |-> << >>]
  /\ req = [i \in Request |-> Idle]
  /\ started = 0
  /\ recent = [i \in Request |-> {}]
  /\ crossed = {}

Goes(i, x) == req' = [req EXCEPT ![i] = x]

\* A worker answers its phone.
Ends(i) ==
  /\ Goes(i, Idle)
  /\ recent' = [recent EXCEPT ![i] = {}]

Starts(i, x) ==
  /\ req[i] = Idle
  /\ started < MaxCalls
  /\ started' = started + 1
  /\ Goes(i, x)

\* The table becomes f, and worker i is done.
Commits(i, f) ==
  /\ friendship' = f
  /\ Goes(i, Idle)
  /\ recent' = [j \in Request |->
                  IF j = i \/ recent[j] = {} THEN {} ELSE recent[j] \cup {f}]

-----------------------------------------------------------------------------
(* addFriend                                                               *)

SamePair(c, d) == c = d \/ c = Back(d)

AsksFor(i, d) ==
  /\ req[i].pc \in { "own", "other", "creating", "updating" }
  /\ SamePair(req[i].way, d)

\* A user posts a status for another one; any of the three will do.
AddFriend(i, d, s) ==
  /\ Starts(i, [pc |-> "own", way |-> d, status |-> s])
  /\ crossed' = IF \E j \in Request : AsksFor(j, d)
                THEN crossed \cup { d, Back(d) } ELSE crossed
  /\ UNCHANGED << friendship, recent >>

\* The row that getFriendshipForSenderAndReceiver finds: getSingleResult.
Finds(i, d) ==
  \/ Len(friendship[d]) = 1
     /\ Goes(i, [pc |-> "updating", way |-> req[i].way, status |-> req[i].status,
                 row |-> << d, 1 >>])
  \/ Len(friendship[d]) > 1 /\ Goes(i, Idle)

FindOwn(i) ==
  /\ req[i].pc = "own"
  /\ \/ Finds(i, req[i].way)
     \/ friendship[req[i].way] = << >> /\ Goes(i, [req[i] EXCEPT !.pc = "other"])
  /\ UNCHANGED << friendship, started, recent, crossed >>

\* Mutant: the other direction is not looked at.
FindOtherNever(i) ==
  /\ req[i].pc = "other"
  /\ Goes(i, [req[i] EXCEPT !.pc = "creating"])
  /\ UNCHANGED << friendship, started, recent, crossed >>

FindOther(i) ==
  /\ req[i].pc = "other"
  /\ \/ Finds(i, Back(req[i].way))
     \/ friendship[Back(req[i].way)] = << >> /\ Goes(i, [req[i] EXCEPT !.pc = "creating"])
  /\ UNCHANGED << friendship, started, recent, crossed >>

\* The detached row is merged with its new status; sender and receiver stay.
SaveFriendship(i) ==
  /\ req[i].pc = "updating"
  /\ LET d == req[i].row[1]
         k == req[i].row[2]
     IN  Commits(i, [friendship EXCEPT ![d] = [@ EXCEPT ![k] = req[i].status]])
  /\ UNCHANGED << started, crossed >>

CreateFriendship(i) ==
  /\ req[i].pc = "creating"
  /\ Commits(i, [friendship EXCEPT ![req[i].way] = Append(@, req[i].status)])
  /\ UNCHANGED << started, crossed >>

-----------------------------------------------------------------------------
(* getFriendStatus                                                         *)

\* (A phone that asks about its own user is answered before the queries or after
\* two that find nothing, as the ids are compared by identity; no row either way.)
GetFriendStatus(i, d) ==
  /\ Starts(i, [pc |-> "looking", way |-> d])
  /\ recent' = [recent EXCEPT ![i] = {friendship}]
  /\ UNCHANGED << friendship, crossed >>

Sent(s) ==
  CASE s = "ACCEPTED" -> "ACCEPTED"
    [] s = "PENDING" -> "PENDING_SENT"
    [] s = "REJECTED" -> "REJECTED_SENT"

\* Mutant: the status is answered as it is stored.
ReceivedRaw(s) == s

Received(s) ==
  CASE s = "ACCEPTED" -> "ACCEPTED"
    [] s = "PENDING" -> "PENDING_RECEIVED"
    [] s = "REJECTED" -> "REJECTED_RECEIVED"

Answers(i, v) ==
  Goes(i, [pc |-> "answering", way |-> req[i].way, view |-> v]) /\ UNCHANGED recent

LookSent(i) ==
  /\ req[i].pc = "looking"
  /\ LET rows == friendship[req[i].way] IN
       \/ /\ rows = << >>
          /\ Goes(i, [pc |-> "lookingBack", way |-> req[i].way])
          /\ UNCHANGED recent
       \/ Len(rows) = 1 /\ Answers(i, Sent(rows[1]))
       \/ Len(rows) > 1 /\ Ends(i)
  /\ UNCHANGED << friendship, started, crossed >>

\* Mutant: the flag that says who sent is not reset.
LookReceivedAsSent(i) ==
  /\ req[i].pc = "lookingBack"
  /\ LET rows == friendship[Back(req[i].way)] IN
       \/ rows = << >> /\ Answers(i, "NOT_SETTED")
       \/ Len(rows) = 1 /\ Answers(i, Sent(rows[1]))
       \/ Len(rows) > 1 /\ Ends(i)
  /\ UNCHANGED << friendship, started, crossed >>

LookReceived(i) ==
  /\ req[i].pc = "lookingBack"
  /\ LET rows == friendship[Back(req[i].way)] IN
       \/ rows = << >> /\ Answers(i, "NOT_SETTED")
       \/ Len(rows) = 1 /\ Answers(i, Received(rows[1]))
       \/ Len(rows) > 1 /\ Ends(i)
  /\ UNCHANGED << friendship, started, crossed >>

AnswerStatus(i) ==
  /\ req[i].pc = "answering"
  /\ Ends(i)
  /\ UNCHANGED << friendship, started, crossed >>

-----------------------------------------------------------------------------

FriendStep(i) ==
  \/ \E d \in Direction, s \in FriendshipStatus : AddFriend(i, d, s)
  \/ FindOwn(i)
  \/ FindOther(i)
  \/ SaveFriendship(i)
  \/ CreateFriendship(i)
  \/ \E d \in Direction : GetFriendStatus(i, d)
  \/ LookSent(i)
  \/ LookReceived(i)
  \/ AnswerStatus(i)

-----------------------------------------------------------------------------
(* Properties.                                                             *)

RowsBetween(d) == Len(friendship[d]) + Len(friendship[Back(d)])

\* Two users who ask each other, and phones that repeat a call, create rows
\* beside each other; but once one is there nobody starts to create another, so
\* a pair has at most one row for each worker thread.
RowsBounded == \A d \in Direction : RowsBetween(d) <= Cardinality(Request)

\* Users whose calls never overlapped have one row between them, however often
\* they ask, accept and reject, and whichever of the two does it.
OneRowUnlessCrossed == \A d \in Direction \ crossed : RowsBetween(d) <= 1

ViewIn(f, d) ==
  IF f[d] # << >> THEN Sent(f[d][1])
  ELSE IF f[Back(d)] # << >> THEN Received(f[Back(d)][1]) ELSE "NOT_SETTED"

\* getFriendStatus reads the two directions at different times; still, unless
\* calls crossed, what it answers was true at some moment of the call.
AnswersWereTrue ==
  \A i \in Request :
    req[i].pc = "answering" /\ req[i].way \notin crossed
      => \E f \in recent[i] : ViewIn(f, req[i].way) = req[i].view
=============================================================================
