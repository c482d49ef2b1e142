--------------------------- MODULE Notifications ---------------------------
(***************************************************************************)
(* The notifications that handlers leave for a user.  A notification may   *)
(* carry a key: sent again while the first is unread it takes its place,   *)
(* sent again after that it is a new one.  It expires after thirty days,   *)
(* counted from the last time it was sent; a job removes it later.         *)
(*                                                                         *)
(* Left out: texts and payloads.  A key stands for a category and a        *)
(* dedup_key.  The trigger swallows errors: a notification that fails is   *)
(* one that was not sent.                                                  *)
(***************************************************************************)
EXTENDS Quota, FiniteSets, Functions

CONSTANTS
  Notified,         \* bound: the accounts that are sent notifications
  DedupKeys,
  Ids,              \* ids randomUUID can yield, for rows of every table
  NULL

ASSUME NotificationsAssumption == Notified \subseteq Users /\ NULL \notin DedupKeys

VARIABLES
  notifications,  \* id -> [user_id, dedup_key, read, expired]
  minted          \* every id drawn so far

Put(table, id, row) ==
  [x \in DOMAIN table \union {id} |-> IF x = id THEN row ELSE table[x]]

Drop(table, ids) == Restrict(table, DOMAIN table \ ids)

draws(id) == id \notin minted /\ minted' = minted \union {id}

unreadWith(u, key) ==
  {n \in DOMAIN notifications : /\ notifications[n].user_id = u
                                /\ notifications[n].dedup_key = key
                                /\ ~notifications[n].read}

notification_insert(id, u, key) ==
  /\ draws(id)
  /\ notifications' = Put(notifications, id,
       [user_id |-> u, dedup_key |-> key, read |-> FALSE, expired |-> FALSE])

\* Mutant: the row to refresh must still be shown.
upsert_shownOnly(id, u, key) ==
  LET found == {n \in unreadWith(u, key) : ~notifications[n].expired}
  IN  \/ /\ found # {}
         /\ notifications' = [n \in DOMAIN notifications |-> notifications[n]]
         /\ UNCHANGED minted
      \/ found = {} /\ notification_insert(id, u, key)

\* The UPDATE refreshes the unread row, one that has expired included.
upsert(id, u, key) ==
  LET found == unreadWith(u, key)
  IN  \/ /\ found # {}
         /\ notifications' = [n \in DOMAIN notifications |->
              IF n \in found THEN [notifications[n] EXCEPT !.expired = FALSE]
              ELSE notifications[n]]
         /\ UNCHANGED minted
      \/ found = {} /\ notification_insert(id, u, key)

\* send, through trigger.notify.
notify(id, u, key) ==
  IF key = NULL THEN notification_insert(id, u, key) ELSE upsert(id, u, key)

shown(u) ==
  {n \in DOMAIN notifications : notifications[n].user_id = u /\ ~notifications[n].expired}

listNotifications(u, unread) ==
  Restrict(notifications, {n \in shown(u) : unread => ~notifications[n].read})

countUnread(u) == Cardinality({n \in shown(u) : ~notifications[n].read})

markNotificationRead(u, n) ==
  /\ n \in DOMAIN notifications
  /\ notifications[n].user_id = u
  /\ notifications' = [notifications EXCEPT ![n].read = TRUE]
  /\ UNCHANGED minted

markAllRead(u) ==
  /\ notifications' = [n \in DOMAIN notifications |->
       IF notifications[n].user_id = u THEN [notifications[n] EXCEPT !.read = TRUE]
       ELSE notifications[n]]
  /\ UNCHANGED minted

deleteNotification(u, n) ==
  /\ n \in DOMAIN notifications
  /\ notifications[n].user_id = u
  /\ notifications' = Drop(notifications, {n})
  /\ UNCHANGED minted

Expire(n) ==
  /\ n \in DOMAIN notifications
  /\ notifications' = [notifications EXCEPT ![n].expired = TRUE]
  /\ UNCHANGED minted

\* The job of two o'clock.
cleanupNotifications ==
  /\ notifications' =
       Drop(notifications, {n \in DOMAIN notifications : notifications[n].expired})
  /\ UNCHANGED minted
=============================================================================
