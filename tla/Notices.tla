-------------------------------- MODULE Notices --------------------------------
(***************************************************************************)
(* Notifications of cmd/mockserver, run with a database (store.go, db.go): *)
(* NotifyHierarchy collects, under the store's read lock, everyone above a *)
(* user and then adds a notification for each, outside it.  A notification *)
(* is numbered by a counter of the process; the number is the primary key  *)
(* of its row, and readers are served from the rows.                       *)
(***************************************************************************)
EXTENDS Integers, Sequences, FiniteSets, SequencesExt

CONSTANTS
  Member, Above,       \* users; those below another -> who that is, the others are at the top
  Superadmin,          \* users of that role
  Notifier,            \* requests that end in a NotifyHierarchy
  MaxEvents, MaxRestarts, MaxNoticeFaults   \* bounds

VARIABLES
  nextNotifID,   \* the counter
  noticeRows,    \* betting.notifications: number -> row
  telling,       \* what is left for each request to add
  events,        \* history: user each event is about, in order
  untold,        \* history: <<event, user>> pairs whose row was refused or failed
  read,          \* history: numbers of the rows that were read once
  restarts, noticeFaults

noticeVars == <<nextNotifID, noticeRows, telling, events, untold, read, restarts, noticeFaults>>

NothingLeft == [event |-> 0, left |-> <<>>]
ToTell(e, left) == IF left = <<>> THEN NothingLeft ELSE [event |-> e, left |-> left]

NoticesInit ==
  /\ nextNotifID = 0 /\ noticeRows = <<>>
  /\ telling = [p \in Notifier |-> NothingLeft]
  /\ events = <<>>
  /\ untold = {} /\ read = {}
  /\ restarts = 0 /\ noticeFaults = 0

\* The parents of u, nearest first, up to the user who has none.
IsChain(list, u) ==
  LET below(i) == IF i = 1 THEN u ELSE list[i - 1] IN
  /\ \A i \in DOMAIN list : below(i) \in DOMAIN Above /\ list[i] = Above[below(i)]
  /\ below(Len(list) + 1) \notin DOMAIN Above

Chains == UNION {[1..n -> Member] : n \in 0..Cardinality(Member)}
Chain(u) == CHOOSE list \in Chains : IsChain(list, u)

\* A user's parent is there before the user: no one is above himself.
ASSUME NoticesAssumption ==
  /\ IsFiniteSet(Member) /\ Superadmin \subseteq Member
  /\ \A u \in Member : \E list \in Chains : IsChain(list, u)
  /\ {MaxEvents, MaxRestarts, MaxNoticeFaults} \subseteq Nat

\* Mutant: a superadmin that is in the chain already is added again.
AllSuperadmins(chain) == Superadmin

\* The superadmins the walk did not find, in the order of a map.
OtherSuperadmins(chain) == Superadmin \ Range(chain)

\* collectHierarchyIDs, in the request about u.
NotifyHierarchy(p, u) ==
  /\ telling[p] = NothingLeft /\ Len(events) < MaxEvents
  /\ events' = Append(events, u)
  /\ \E rest \in SetToSeqs(OtherSuperadmins(Chain(u))) :
       telling' = [telling EXCEPT ![p] = ToTell(Len(events) + 1, Chain(u) \o rest)]
  /\ UNCHANGED <<nextNotifID, noticeRows, untold, read, restarts, noticeFaults>>

\* AddNotification: the number is taken, and the row inserted if none has it.
AddNotification(p) ==
  LET id == nextNotifID + 1
      to == Head(telling[p].left)
      row == [event |-> telling[p].event, user |-> to, read |-> FALSE] IN
  /\ telling[p].left # <<>>
  /\ nextNotifID' = id
  /\ \/ /\ id \notin DOMAIN noticeRows
        /\ noticeRows' = [k \in DOMAIN noticeRows \cup {id} |->
                            IF k = id THEN row ELSE noticeRows[k]]
        /\ UNCHANGED <<untold, noticeFaults>>
     \/ /\ \/ id \in DOMAIN noticeRows /\ UNCHANGED noticeFaults
           \/ /\ id \notin DOMAIN noticeRows
              /\ noticeFaults < MaxNoticeFaults /\ noticeFaults' = noticeFaults + 1
        /\ untold' = untold \cup {<<telling[p].event, to>>}
        /\ UNCHANGED noticeRows
  /\ telling' = [telling EXCEPT ![p] = ToTell(@.event, Tail(@.left))]
  /\ UNCHANGED <<events, read, restarts>>

\* MarkNotificationRead, for a number the user was shown or any other.
MarkNotificationRead(u, id) ==
  /\ id \in DOMAIN noticeRows /\ noticeRows[id].user = u
  /\ noticeRows' = [noticeRows EXCEPT ![id].read = TRUE]
  /\ read' = read \cup {id}
  /\ UNCHANGED <<nextNotifID, telling, events, untold, restarts, noticeFaults>>

\* What GetNotifications and GetUnreadCount show of u.
Unread(u) == {id \in DOMAIN noticeRows : noticeRows[id].user = u /\ ~noticeRows[id].read}

MarkAllNotificationsRead(u) ==
  LET own == Unread(u) IN
  /\ noticeRows' = [id \in DOMAIN noticeRows |-> [noticeRows[id] EXCEPT !.read = @ \/ id \in own]]
  /\ read' = read \cup own
  /\ UNCHANGED <<nextNotifID, telling, events, untold, restarts, noticeFaults>>

\* The requests that have still to tell a user of an event.
Owed(e, u) == {p \in Notifier : telling[p].event = e /\ u \in Range(telling[p].left)}

\* The process is restarted: the counter begins again, and what was not added is lost.
RestartNumbers ==
  /\ restarts < MaxRestarts /\ restarts' = restarts + 1
  /\ nextNotifID' = 0
  /\ untold' = untold \cup {owed \in (DOMAIN events) \X Member : Owed(owed[1], owed[2]) # {}}
  /\ telling' = [p \in Notifier |-> NothingLeft]
  /\ UNCHANGED <<noticeRows, events, read, noticeFaults>>

NoticesNext ==
  \/ \E p \in Notifier : AddNotification(p) \/ \E u \in Member : NotifyHierarchy(p, u)
  \/ \E u \in Member : \/ MarkAllNotificationsRead(u)
                       \/ \E id \in DOMAIN noticeRows : MarkNotificationRead(u, id)
  \/ RestartNumbers

NoticesSpec == NoticesInit /\ [][NoticesNext]_noticeVars

-----------------------------------------------------------------------------

\* Values of every variable.
NoticesTypeOK ==
  /\ nextNotifID \in Nat /\ DOMAIN noticeRows \subseteq Nat \ {0}
  /\ \A id \in DOMAIN noticeRows :
       noticeRows[id] \in [event : DOMAIN events, user : Member, read : BOOLEAN]
  /\ events \in Seq(Member)

\* Everyone above the user of an event is told of it once, or is still to be told, or a
\* failed insert or a restart came between; and no one else is told.
EveryoneToldOnce ==
  \A e \in DOMAIN events :
    LET above == Range(Chain(events[e])) \cup Superadmin
        told(u) == Cardinality({id \in DOMAIN noticeRows :
                                  noticeRows[id].event = e /\ noticeRows[id].user = u})
        due(u) == Cardinality(Owed(e, u))
        gone(u) == IF <<e, u>> \in untold THEN 1 ELSE 0
    IN \A u \in Member : told(u) + due(u) + gone(u) = IF u \in above THEN 1 ELSE 0

\* A process loses none to a number that is taken: only after a restart, which begins the
\* numbers again, are inserts refused.  What was read stays read, and in its row.
NumbersOfOneProcessDiffer ==
  /\ noticeFaults = 0 /\ restarts = 0 => untold = {}
  /\ \A id \in read : id \in DOMAIN noticeRows /\ noticeRows[id].read

\* Everyone above a user is told of an event once (store.go).
ToldOnce == NoticesTypeOK /\ EveryoneToldOnce /\ NumbersOfOneProcessDiffer

=============================================================================
