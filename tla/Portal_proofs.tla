---------------------------- MODULE Portal_proofs ----------------------------
(***************************************************************************)
(* Proofs about the everyday part of the platform: what is sent twice      *)
(* counts once, the menu of an account is honest, and no call of one user  *)
(* changes another's pages.                                                *)
(***************************************************************************)
EXTENDS Portal, FiniteSetTheorems, TLAPS

-----------------------------------------------------------------------------
(* What is declared and what is charged.                                   *)

LEMMA FirstSets ==
  /\ getCapabilitiesForRole("hr") = headhunterCapabilities
  /\ getCapabilitiesForRole("pm") = employerCapabilities
  /\ getCapabilitiesForRole("candidate") = candidateCapabilities
  <1>1. /\ headhunterCapabilities.role = "hr"
        /\ employerCapabilities.role = "pm"
        /\ candidateCapabilities.role = "candidate"
    BY DEF headhunterCapabilities, employerCapabilities, candidateCapabilities
  <1>2. /\ ALL_SETS[1] = headhunterCapabilities
        /\ ALL_SETS[2] = employerCapabilities
        /\ ALL_SETS[3] = candidateCapabilities
        /\ DOMAIN ALL_SETS = 1..11
    BY DEF ALL_SETS
  <1>3. ASSUME NEW role, NEW i \in 1..3, ALL_SETS[i].role = role,
               \A j \in 1..i - 1 : ALL_SETS[j].role # role
        PROVE  getCapabilitiesForRole(role) = ALL_SETS[i]
    <2> DEFINE first(k) == ALL_SETS[k].role = role /\ \A j \in 1..k - 1 : ALL_SETS[j].role # role
    <2>1. first(i) /\ i \in DOMAIN ALL_SETS
      BY <1>2, <1>3
    <2>2. \A k \in DOMAIN ALL_SETS : first(k) => k = i
      <3> SUFFICES ASSUME NEW k \in DOMAIN ALL_SETS, first(k) PROVE k = i
        OBVIOUS
      <3>1. k \in Int /\ i \in Int /\ k >= 1 /\ i >= 1
        BY <1>2
      <3>2. CASE k < i
        BY <3>1, <3>2, <1>3
      <3>3. CASE i < k
        BY <3>1, <3>3, <1>3
      <3> QED
        BY <3>1, <3>2, <3>3
    <2>3. (CHOOSE k \in DOMAIN ALL_SETS : first(k)) = i
      <3> HIDE DEF first
      <3> QED
        BY <2>1, <2>2
    <2> QED
      BY <2>3 DEF getCapabilitiesForRole
  <1>4. getCapabilitiesForRole("hr") = ALL_SETS[1]
    BY <1>1, <1>2, <1>3
  <1>5. getCapabilitiesForRole("pm") = ALL_SETS[2]
    <2>1. \A j \in 1..2 - 1 : ALL_SETS[j].role # "pm"
      BY <1>1, <1>2
    <2> QED
      BY <1>1, <1>2, <1>3, <2>1
  <1>6. getCapabilitiesForRole("candidate") = ALL_SETS[3]
    <2>1. \A j \in 1..3 - 1 : ALL_SETS[j].role # "candidate"
      BY <1>1, <1>2
    <2> QED
      BY <1>1, <1>2, <1>3, <2>1
  <1> QED
    BY <1>2, <1>4, <1>5, <1>6

\* The endpoints that a declaration calls free and a handler charges for.
Undeclared == {"list_recommendations", "list_candidates", "delete_my_data"}

\* What a role's declaration says of the prices its handlers charge.
Covers(declared, price) ==
  /\ DOMAIN declared \subseteq DOMAIN price
  /\ \A name \in DOMAIN declared :
       /\ declared[name] \in Nat /\ price[name] \in Nat
       /\ declared[name] <= price[name]
       /\ declared[name] # price[name] => name \in Undeclared

LEMMA HunterPrices == Covers(headhunterCapabilities.quota_cost, charges("hr"))
  <1> DEFINE declared == headhunterCapabilities.quota_cost
             price == charges("hr")
  <1>1. /\ DOMAIN declared \subseteq DOMAIN price
        /\ \A name \in DOMAIN declared :
             /\ declared[name] \in Nat
             /\ name \notin Undeclared => price[name] = declared[name]
             /\ name \in Undeclared => declared[name] = 0
    <2>1. DOMAIN price = DOMAIN declared
      BY DEF headhunterCapabilities, charges, headhunterCharges, priced
    <2>2. \A name \in DOMAIN declared : declared[name] \in Nat
      BY DEF headhunterCapabilities, priced, QUOTA_COSTS
    <2>3. \A name \in DOMAIN declared \ Undeclared : price[name] = declared[name]
      BY DEF Undeclared, headhunterCapabilities, charges, headhunterCharges, priced
    <2>4. \A name \in DOMAIN declared \intersect Undeclared : declared[name] = 0
      BY DEF Undeclared, headhunterCapabilities, priced
    <2> QED
      BY <2>1, <2>2, <2>3, <2>4
  <1>2. price["list_recommendations"] = 1 /\ price["list_candidates"] = 1
    BY DEF charges, headhunterCharges, priced, QUOTA_COSTS
  <1>3. "delete_my_data" \notin DOMAIN declared
    BY DEF headhunterCapabilities, priced
  <1> HIDE DEF declared, price
  <1>4. \A name \in DOMAIN declared \intersect Undeclared : price[name] = 1
    BY <1>2, <1>3 DEF Undeclared
  <1>5. Covers(declared, price)
    BY <1>1, <1>4 DEF Covers
  <1> QED
    BY <1>5 DEF declared, price

LEMMA EmployerPrices == Covers(employerCapabilities.quota_cost, charges("pm"))
  BY DEF Covers, Undeclared, employerCapabilities, charges, employerCharges, priced, free,
     QUOTA_COSTS

LEMMA CandidatePrices == Covers(candidateCapabilities.quota_cost, charges("candidate"))
  BY DEF Covers, Undeclared, candidateCapabilities, charges, candidateCharges, priced, free,
     QUOTA_COSTS

-----------------------------------------------------------------------------
(* The tables.                                                             *)

UserRow ==
  [status : {"active", "suspended"}, quota_per_day : Nat, quota_used : Nat,
   quota_reset_at : ResetTime]

NotificationRow ==
  [user_id : Users, dedup_key : DedupKeys \union {NULL}, read : BOOLEAN, expired : BOOLEAN]

MessageRow == [from_user_id : Users, to_user_id : Users, read : BOOLEAN]

TaskRow == [hunter_user_id : Hunters, completed : BOOLEAN, due_at : DueDates]

\* The rows of a table, under ids that were drawn.
Table(table, rows) == table \in [DOMAIN table -> rows] /\ DOMAIN table \subseteq minted

\* A user has at most one unread notification of a key, shown or not.
OneUnread ==
  \A u \in Users, key \in DedupKeys : \A m, n \in unreadWith(u, key) : m = n

\* A body has at most one row, and its sender was given that one only.
OneDelivery ==
  /\ answers \in [Bodies -> SUBSET DOMAIN webhook_inbox]
  /\ \A body \in Bodies : answers[body] = rowsOf(body)
  /\ \A body \in Bodies : \A d, e \in rowsOf(body) : d = e

UsersSound == users \in [Users -> UserRow]

NotificationsSound == Table(notifications, NotificationRow) /\ OneUnread

MessagesSound == Table(candidate_messages, MessageRow) /\ IsFiniteSet(DOMAIN candidate_messages)

TasksSound == Table(hunter_tasks, TaskRow)

InboxSound == Table(webhook_inbox, Bodies) /\ OneDelivery

\* The inductive invariant: the rows have their types, which the arithmetic of
\* the quota needs; ids are drawn once for all tables, without which a row that
\* is inserted could take the place of somebody else's; and what is sent twice
\* counts once, in the form of equal ids.
IInv ==
  /\ UsersSound /\ NotificationsSound /\ MessagesSound /\ TasksSound /\ InboxSound

LEMMA InitEstablishes == Init => IInv
  <1> SUFFICES ASSUME Init PROVE IInv
    OBVIOUS
  <1>1. UsersSound
    BY QuotaAssumption DEF Init, QuotaInit, UsersSound, UserRow, ResetTime
  <1>2. NotificationsSound /\ MessagesSound /\ TasksSound
    BY FS_EmptySet DEF Init, Nothing, NotificationsSound, MessagesSound, TasksSound, Table,
       OneUnread, unreadWith
  <1>3. InboxSound
    BY DEF Init, Nothing, InboxSound, Table, OneDelivery, rowsOf
  <1> QED
    BY <1>1, <1>2, <1>3 DEF IInv

-----------------------------------------------------------------------------
(* The quota.                                                              *)

LEMMA AmountsAreNumbers == ASSUME NEW u PROVE amounts(u) \subseteq Nat
  <1>1. \A price \in {headhunterCharges, employerCharges, candidateCharges, configCharges,
                      marketCharges} : Range(price) \subseteq Nat
    <2>1. Range(headhunterCharges) \subseteq Nat
      <3> DEFINE declared == priced({"upload_candidate", "recommend_candidate", "withdraw_recommendation",
                                     "publish_to_pool", "list_recommendations", "create_job"},
                                    {"list_pending_pickup", "pickup", "list_jobs", "list_candidates"})
      <3>1. \A name \in DOMAIN declared : declared[name] \in Nat
        BY DEF priced, QUOTA_COSTS
      <3>2. /\ headhunterCharges = [declared EXCEPT !.list_candidates = QUOTA_COSTS.list_my_candidates]
            /\ QUOTA_COSTS.list_my_candidates \in Nat
        BY DEF headhunterCharges, QUOTA_COSTS
      <3> HIDE DEF declared
      <3> QED
        BY <3>1, <3>2 DEF Range
    <2>2. Range(employerCharges) \subseteq Nat
      BY DEF Range, employerCharges, priced, QUOTA_COSTS
    <2>3. Range(candidateCharges) \subseteq Nat
      <3> DEFINE declared == priced({"view_opportunities", "approve_unlock", "reject_unlock"},
                                    {"access_log", "export_my_data", "delete_my_data"})
      <3>1. \A name \in DOMAIN declared : declared[name] \in Nat
        BY DEF priced, QUOTA_COSTS
      <3>2. candidateCharges = [declared EXCEPT !.delete_my_data = 1] /\ 1 \in Nat
        BY DEF candidateCharges, QUOTA_COSTS
      <3> HIDE DEF declared
      <3> QED
        BY <3>1, <3>2 DEF Range
    <2>4. Range(configCharges) \subseteq Nat /\ Range(marketCharges) \subseteq Nat
      BY DEF Range, configCharges, marketCharges, QUOTA_COSTS
    <2> QED
      BY <2>1, <2>2, <2>3, <2>4
  <1>2. charges(user_type(u)) \in {headhunterCharges, employerCharges, candidateCharges}
    <2>1. user_type(u) \in {"hr", "pm", "candidate"}
      BY DEF user_type
    <2>2. /\ charges("hr") = headhunterCharges
          /\ charges("pm") = employerCharges
          /\ charges("candidate") = candidateCharges
      BY DEF charges
    <2> QED
      BY <2>1, <2>2
  <1>3. \A price \in {charges(user_type(u)), configCharges, marketCharges} : Range(price) \subseteq Nat
    BY <1>1, <1>2
  <1>4. \A amount \in amounts(u) : amount \in Nat
    <2> SUFFICES ASSUME NEW amount \in amounts(u) PROVE amount \in Nat
      OBVIOUS
    <2>1. \/ \E price \in {charges(user_type(u)), configCharges, marketCharges} :
                amount \in Range(price)
          \/ amount = 1
      BY DEF amounts, rotateKeyCharge
    <2> QED
      BY <2>1, <1>3
  <1> QED
    BY <1>4

\* Nothing a call, the administrator or a job does to the accounts makes a row
\* of another type.
LEMMA UsersStep ==
  ASSUME UsersSound,
         \/ \E u \in Metered : ChargedCall(u)
         \/ Administer \/ NewDay \/ HourOfRegistration \/ QuotaReset
  PROVE  UsersSound'
  <1>1. ASSUME NEW u \in Metered, ChargedCall(u) PROVE UsersSound'
    <2>1. PICK amount \in Nat : tryConsume(u, amount)
      BY <1>1, AmountsAreNumbers DEF ChargedCall
    <2> QED
      BY <2>1, QuotaAssumption DEF UsersSound, UserRow, tryConsume
  <1>2. CASE Administer
    BY <1>2, QuotaAssumption DEF Administer, suspend, unsuspend, adjustQuota, UsersSound, UserRow
  <1>3. CASE NewDay
    BY <1>3 DEF NewDay, DayBreaks, UsersSound, UserRow, ResetTime
  <1>4. CASE HourOfRegistration
    BY <1>4 DEF HourOfRegistration, FirstDayEnds, UsersSound, UserRow, ResetTime
  <1>5. CASE QuotaReset
    BY <1>5 DEF QuotaReset, resetDailyQuota, UsersSound, UserRow, ResetTime
  <1> QED
    BY <1>1, <1>2, <1>3, <1>4, <1>5

-----------------------------------------------------------------------------
(* Rows that come and go.                                                  *)

LEMMA DrawnStayDrawn ==
  ASSUME [Next]_vars
  PROVE  minted \subseteq minted'
  <1>1. \A id : draws(id) => minted \subseteq minted'
    BY DEF draws
  <1>2. ASSUME NEW u, Calls(u) PROVE minted \subseteq minted'
    <2>1. CASE MeteredCall(u) \/ NoteCall(u)
      BY <2>1 DEF MeteredCall, NoteCall
    <2>2. CASE NotificationCall(u)
      BY <2>2 DEF NotificationCall, markAllRead, markNotificationRead, deleteNotification
    <2>3. CASE MessageCall(u)
      BY <2>3, <1>1 DEF MessageCall, markRead, send
    <2>4. CASE TaskCall(u)
      BY <2>4, <1>1 DEF TaskCall, complete, reopen, setCompleted, deleteTask, createTask, updateTask
    <2> QED
      BY <1>2, <2>1, <2>2, <2>3, <2>4 DEF Calls
  <1>3. CASE Notify
    BY <1>1, <1>3 DEF Notify, notify, notification_insert, upsert
  <1>4. CASE Deliver
    BY <1>1, <1>4 DEF Deliver, deliver
  <1>5. CASE Administer \/ NewDay \/ HourOfRegistration \/ QuotaReset
    BY <1>5 DEF Administer, NewDay, HourOfRegistration, QuotaReset
  <1>6. CASE Expiry \/ Cleanup
    BY <1>6 DEF Expiry, Expire, Cleanup, cleanupNotifications
  <1>7. CASE UNCHANGED vars
    BY <1>7 DEF vars
  <1> QED
    BY <1>2, <1>3, <1>4, <1>5, <1>6, <1>7 DEF Next

-----------------------------------------------------------------------------
(* Notifications.                                                          *)

LEMMA NotificationInserted ==
  ASSUME NotificationsSound, NEW n \in Ids, NEW u \in Notified,
         NEW key \in DedupKeys \union {NULL}, notification_insert(n, u, key),
         key = NULL \/ unreadWith(u, key) = {}
  PROVE  NotificationsSound'
  <1> DEFINE row == [user_id |-> u, dedup_key |-> key, read |-> FALSE, expired |-> FALSE]
  <1>1. row \in NotificationRow
    BY NotificationsAssumption DEF NotificationRow
  <1>2. draws(n) /\ notifications' = Put(notifications, n, row)
    BY DEF notification_insert
  <1>3. Table(notifications, NotificationRow)
    BY DEF NotificationsSound
  <1>4. /\ notifications' \in [DOMAIN notifications' -> NotificationRow]
        /\ DOMAIN notifications' \subseteq minted'
        /\ DOMAIN notifications' = DOMAIN notifications \union {n}
        /\ notifications'[n] = row
        /\ \A m \in DOMAIN notifications : m # n /\ notifications'[m] = notifications[m]
    <2> HIDE DEF row
    <2>1. /\ Put(notifications, n, row) \in [DOMAIN notifications \union {n} -> NotificationRow]
          /\ DOMAIN notifications \union {n} \subseteq minted'
          /\ n \notin DOMAIN notifications
          /\ Put(notifications, n, row)[n] = row
      BY <1>1, <1>2, <1>3 DEF Table, Put, draws
    <2>2. \A m \in DOMAIN notifications \ {n} :
            Put(notifications, n, row)[m] = notifications[m]
      BY DEF Put
    <2> QED
      BY <1>2, <2>1, <2>2
  <1>5. ASSUME NEW v \in Users, NEW k \in DedupKeys,
               NEW m1 \in unreadWith(v, k)', NEW m2 \in unreadWith(v, k)'
        PROVE  m1 = m2
    <2>1. \A m \in {m1, m2} :
            \/ m \in unreadWith(v, k)
            \/ m = n /\ v = u /\ k = key
      BY <1>4 DEF unreadWith
    <2>2. v = u /\ k = key => unreadWith(v, k) = {}
      BY NotificationsAssumption
    <2> QED
      BY <2>1, <2>2 DEF NotificationsSound, OneUnread
  <1>6. OneUnread'
    BY <1>5 DEF OneUnread
  <1> QED
    BY <1>4, <1>6 DEF NotificationsSound, Table

\* What every other step does to the notifications: some go, none comes or
\* changes its owner or its key, and none is unread that was not.
LEMMA NotificationsWane ==
  ASSUME NotificationsSound, minted \subseteq minted',
         DOMAIN notifications' \subseteq DOMAIN notifications,
         notifications' \in [DOMAIN notifications' -> NotificationRow],
         \A n \in DOMAIN notifications' :
           /\ notifications'[n].user_id = notifications[n].user_id
           /\ notifications'[n].dedup_key = notifications[n].dedup_key
           /\ notifications[n].read => notifications'[n].read
  PROVE  NotificationsSound'
  <1>1. Table(notifications, NotificationRow)'
    BY DEF NotificationsSound, Table
  <1>2. \A u \in Users, key \in DedupKeys : unreadWith(u, key)' \subseteq unreadWith(u, key)
    BY DEF unreadWith
  <1>3. OneUnread'
    BY <1>2 DEF OneUnread, NotificationsSound
  <1> QED
    BY <1>1, <1>3 DEF NotificationsSound

LEMMA NotificationsStep ==
  ASSUME NotificationsSound, minted \subseteq minted',
         \/ Notify \/ Expiry \/ Cleanup
         \/ \E u \in Users : NotificationCall(u)
  PROVE  NotificationsSound'
  <1>1. /\ notifications \in [DOMAIN notifications -> NotificationRow]
        /\ \A n \in DOMAIN notifications :
             /\ notifications[n] \in NotificationRow
             /\ [notifications[n] EXCEPT !.read = TRUE] \in NotificationRow
             /\ [notifications[n] EXCEPT !.expired = TRUE] \in NotificationRow
             /\ [notifications[n] EXCEPT !.expired = FALSE] \in NotificationRow
    BY DEF NotificationsSound, Table, NotificationRow
  <1>2. ASSUME NEW S \in SUBSET DOMAIN notifications, NEW x \in BOOLEAN,
               notifications' = [n \in DOMAIN notifications |->
                 IF n \in S THEN [notifications[n] EXCEPT !.expired = x] ELSE notifications[n]]
        PROVE  NotificationsSound'
    BY <1>1, <1>2, NotificationsWane DEF NotificationRow
  <1>3. ASSUME NEW S \in SUBSET DOMAIN notifications,
               notifications' = [n \in DOMAIN notifications |->
                 IF n \in S THEN [notifications[n] EXCEPT !.read = TRUE] ELSE notifications[n]]
        PROVE  NotificationsSound'
    BY <1>1, <1>3, NotificationsWane DEF NotificationRow
  <1>4. ASSUME NEW S, notifications' = Drop(notifications, S)
        PROVE  NotificationsSound'
    BY <1>1, <1>4, NotificationsWane DEF Drop, Restrict
  <1>5. CASE Notify
    <2>1. PICK n \in Ids, u \in Notified, key \in DedupKeys \union {NULL} : notify(n, u, key)
      BY <1>5 DEF Notify
    <2>2. CASE notification_insert(n, u, key) /\ (key = NULL \/ unreadWith(u, key) = {})
      BY <2>2, NotificationInserted
    <2>3. CASE notifications' = [m \in DOMAIN notifications |->
                 IF m \in unreadWith(u, key) THEN [notifications[m] EXCEPT !.expired = FALSE]
                 ELSE notifications[m]]
      <3>1. unreadWith(u, key) \subseteq DOMAIN notifications
        BY DEF unreadWith
      <3> QED
        BY <1>2, <2>3, <3>1
    <2> QED
      BY <2>1, <2>2, <2>3 DEF notify, upsert
  <1>6. CASE Expiry
    <2>1. PICK n \in DOMAIN notifications :
            notifications' = [notifications EXCEPT ![n].expired = TRUE]
      BY <1>6 DEF Expiry, Expire
    <2>2. notifications' = [m \in DOMAIN notifications |->
            IF m \in {n} THEN [notifications[m] EXCEPT !.expired = TRUE] ELSE notifications[m]]
      BY <2>1
    <2> QED
      BY <1>2, <2>2
  <1>7. CASE Cleanup
    BY <1>4, <1>7 DEF Cleanup, cleanupNotifications
  <1>8. ASSUME NEW u \in Users, NotificationCall(u)
        PROVE  NotificationsSound'
    <2>1. CASE markAllRead(u)
      <3> DEFINE S == {n \in DOMAIN notifications : notifications[n].user_id = u}
      <3>1. notifications' = [n \in DOMAIN notifications |->
              IF n \in S THEN [notifications[n] EXCEPT !.read = TRUE] ELSE notifications[n]]
        BY <2>1 DEF markAllRead
      <3> QED
        BY <1>3, <3>1
    <2>2. ASSUME NEW n, markNotificationRead(u, n) PROVE NotificationsSound'
      <3>1. notifications' = [m \in DOMAIN notifications |->
              IF m \in {n} THEN [notifications[m] EXCEPT !.read = TRUE] ELSE notifications[m]]
        BY <2>2 DEF markNotificationRead
      <3> QED
        BY <1>3, <2>2, <3>1 DEF markNotificationRead
    <2>3. ASSUME NEW n, deleteNotification(u, n) PROVE NotificationsSound'
      BY <1>4, <2>3 DEF deleteNotification
    <2> QED
      BY <1>8, <2>1, <2>2, <2>3 DEF NotificationCall
  <1> QED
    BY <1>5, <1>6, <1>7, <1>8

-----------------------------------------------------------------------------
(* Messages, tasks and deliveries.                                         *)

LEMMA MessagesStep ==
  ASSUME MessagesSound, NEW u \in Users, MessageCall(u)
  PROVE  MessagesSound'
  <1>1. Table(candidate_messages, MessageRow) /\ IsFiniteSet(DOMAIN candidate_messages)
    BY DEF MessagesSound
  <1>2. ASSUME NEW m, markRead(u, m) PROVE MessagesSound'
    BY <1>1, <1>2 DEF markRead, MessagesSound, Table, MessageRow
  <1>3. ASSUME NEW m, NEW to \in Users, send(m, u, to) PROVE MessagesSound'
    <2> DEFINE row == [from_user_id |-> u, to_user_id |-> to, read |-> FALSE]
    <2>1. row \in MessageRow
      BY DEF MessageRow
    <2>2. draws(m) /\ candidate_messages' = Put(candidate_messages, m, row)
      BY <1>3 DEF send
    <2>3. /\ candidate_messages' \in [DOMAIN candidate_messages' -> MessageRow]
          /\ DOMAIN candidate_messages' \subseteq minted'
          /\ DOMAIN candidate_messages' = DOMAIN candidate_messages \union {m}
      <3> HIDE DEF row
      <3> QED
        BY <1>1, <2>1, <2>2 DEF Table, Put, draws
    <2>4. IsFiniteSet(DOMAIN candidate_messages')
      BY <1>1, <2>3, FS_AddElement
    <2> QED
      BY <2>3, <2>4 DEF MessagesSound, Table
  <1> QED
    BY <1>2, <1>3 DEF MessageCall

LEMMA TasksStep ==
  ASSUME TasksSound, NEW u \in Users, TaskCall(u)
  PROVE  TasksSound'
  <1>1. Table(hunter_tasks, TaskRow)
    BY DEF TasksSound
  <1>2. ASSUME NEW t, NEW completed \in BOOLEAN, setCompleted(u, t, completed)
        PROVE  TasksSound'
    BY <1>1, <1>2 DEF setCompleted, ownsTask, TasksSound, Table, TaskRow
  <1>3. ASSUME NEW t, deleteTask(u, t) PROVE TasksSound'
    BY <1>1, <1>3 DEF deleteTask, Drop, Restrict, TasksSound, Table
  <1>4. ASSUME NEW t, NEW due \in DueDates, updateTask(u, t, due) PROVE TasksSound'
    BY <1>1, <1>4 DEF updateTask, ownsTask, TasksSound, Table, TaskRow
  <1>5. ASSUME NEW t, NEW due \in DueDates, createTask(t, u, due) PROVE TasksSound'
    <2> DEFINE row == [hunter_user_id |-> u, completed |-> FALSE, due_at |-> due]
    <2>1. row \in TaskRow
      BY <1>5 DEF TaskRow, createTask
    <2>2. draws(t) /\ hunter_tasks' = Put(hunter_tasks, t, row)
      BY <1>5 DEF createTask
    <2> HIDE DEF row
    <2>3. /\ Put(hunter_tasks, t, row) \in [DOMAIN hunter_tasks \union {t} -> TaskRow]
          /\ DOMAIN hunter_tasks \union {t} \subseteq minted'
      BY <1>1, <2>1, <2>2 DEF Table, Put, draws
    <2> QED
      BY <2>2, <2>3 DEF TasksSound, Table
  <1> QED
    BY <1>2, <1>3, <1>4, <1>5 DEF TaskCall, complete, reopen

LEMMA InboxStep ==
  ASSUME InboxSound, Deliver
  PROVE  InboxSound'
  <1>1. PICK d \in Ids, body \in Bodies : deliver(d, body)
    BY DEF Deliver
  <1>2. Table(webhook_inbox, Bodies) /\ OneDelivery
    BY DEF InboxSound
  <1>3. CASE /\ rowsOf(body) = {}
             /\ draws(d)
             /\ webhook_inbox' = Put(webhook_inbox, d, body)
             /\ answers' = [answers EXCEPT ![body] = @ \union {d}]
    <2>1. /\ webhook_inbox' \in [DOMAIN webhook_inbox' -> Bodies]
          /\ DOMAIN webhook_inbox' \subseteq minted'
          /\ DOMAIN webhook_inbox' = DOMAIN webhook_inbox \union {d}
          /\ d \notin DOMAIN webhook_inbox
          /\ webhook_inbox'[d] = body
          /\ \A x \in DOMAIN webhook_inbox : webhook_inbox'[x] = webhook_inbox[x]
      <3>1. /\ Put(webhook_inbox, d, body) \in [DOMAIN webhook_inbox \union {d} -> Bodies]
            /\ DOMAIN webhook_inbox \union {d} \subseteq minted'
            /\ d \notin DOMAIN webhook_inbox
            /\ Put(webhook_inbox, d, body)[d] = body
        BY <1>2, <1>3 DEF Table, Put, draws
      <3>2. \A x \in DOMAIN webhook_inbox \ {d} :
              Put(webhook_inbox, d, body)[x] = webhook_inbox[x]
        BY DEF Put
      <3> QED
        BY <1>3, <3>1, <3>2
    <2>2. rowsOf(body)' = {d} /\ \A b \in Bodies \ {body} : rowsOf(b)' = rowsOf(b)
      BY <1>3, <2>1 DEF rowsOf
    <2>3. answers'[body] = {d} /\ \A b \in Bodies \ {body} : answers'[b] = answers[b]
      BY <1>2, <1>3 DEF OneDelivery
    <2>4. answers' \in [Bodies -> SUBSET DOMAIN webhook_inbox']
      BY <1>2, <1>3, <2>1 DEF OneDelivery
    <2> QED
      BY <1>2, <2>1, <2>2, <2>3, <2>4 DEF InboxSound, Table, OneDelivery
  <1>4. CASE /\ answers' = [answers EXCEPT ![body] = @ \union rowsOf(body)]
             /\ UNCHANGED <<webhook_inbox, minted>>
    <2>1. answers[body] = rowsOf(body)
      BY <1>2 DEF OneDelivery
    <2>2. answers' = answers
      BY <1>2, <1>4, <2>1 DEF OneDelivery
    <2> QED
      BY <1>2, <1>4, <2>2 DEF InboxSound, Table, OneDelivery, rowsOf
  <1> QED
    BY <1>1, <1>3, <1>4 DEF deliver

LEMMA StepPreserves == IInv /\ [Next]_vars => IInv'
  <1> SUFFICES ASSUME IInv, [Next]_vars PROVE IInv'
    OBVIOUS
  <1>1. minted \subseteq minted'
    BY DrawnStayDrawn
  <1>2. UsersSound /\ UNCHANGED users => UsersSound'
    BY DEF UsersSound
  <1>3. NotificationsSound /\ UNCHANGED notifications => NotificationsSound'
    BY <1>1 DEF NotificationsSound, Table, OneUnread, unreadWith
  <1>4. MessagesSound /\ UNCHANGED candidate_messages => MessagesSound'
    BY <1>1 DEF MessagesSound, Table
  <1>5. TasksSound /\ UNCHANGED hunter_tasks => TasksSound'
    BY <1>1 DEF TasksSound, Table
  <1>6. InboxSound /\ UNCHANGED inbox => InboxSound'
    BY <1>1 DEF InboxSound, Table, OneDelivery, rowsOf, inbox
  <1>7. ASSUME NEW u \in Users, Calls(u) PROVE IInv'
    <2>1. CASE MeteredCall(u)
      BY <2>1, <1>3, <1>4, <1>5, <1>6, UsersStep DEF MeteredCall, desks, IInv
    <2>2. CASE NotificationCall(u)
      BY <2>2, <1>1, <1>2, <1>4, <1>5, <1>6, NotificationsStep DEF NotificationCall, desks, IInv
    <2>3. CASE MessageCall(u)
      BY <2>3, <1>2, <1>3, <1>5, <1>6, MessagesStep DEF MessageCall, IInv
    <2>4. CASE TaskCall(u)
      BY <2>4, <1>2, <1>3, <1>4, <1>6, TasksStep DEF TaskCall, IInv
    <2>5. CASE NoteCall(u)
      BY <2>5, <1>2, <1>3, <1>4, <1>5, <1>6 DEF NoteCall, IInv
    <2> QED
      BY <1>7, <2>1, <2>2, <2>3, <2>4, <2>5 DEF Calls
  <1>8. CASE Notify \/ Expiry \/ Cleanup
    BY <1>8, <1>1, <1>2, <1>4, <1>5, <1>6, NotificationsStep
       DEF Notify, Expiry, Cleanup, desks, IInv
  <1>9. CASE Deliver
    BY <1>9, <1>2, <1>3, <1>4, <1>5, InboxStep DEF Deliver, desks, IInv
  <1>10. CASE Administer \/ NewDay \/ HourOfRegistration \/ QuotaReset
    BY <1>10, <1>3, <1>4, <1>5, <1>6, UsersStep
       DEF Administer, NewDay, HourOfRegistration, QuotaReset, desks, IInv
  <1>11. CASE UNCHANGED vars
    BY <1>11, <1>2, <1>3, <1>4, <1>5, <1>6 DEF vars, desks, IInv
  <1> QED
    BY <1>7, <1>8, <1>9, <1>10, <1>11 DEF Next

\* The rows of all tables have their types and ids of their own, and what is
\* sent twice counts once, in every reachable state of the portal.
THEOREM Invariance == Spec => []IInv
  BY InitEstablishes, StepPreserves, PTL DEF Spec

-----------------------------------------------------------------------------
(* What the runs check.                                                    *)

\* A notification that is sent again while the first is unread takes its place,
\* in whatever order it is read, deleted, expired and sent, by handlers and by
\* the jobs; and a webhook that is delivered again is answered with the id of
\* its one row, which is still there.
THEOREM RepetitionsCountOnce == Spec => []SentTwiceCountsOnce
  <1>1. IInv => SentTwiceCountsOnce
    <2> SUFFICES ASSUME IInv PROVE SentTwiceCountsOnce
      OBVIOUS
    <2>1. OneUnread /\ OneDelivery
      BY DEF IInv, NotificationsSound, InboxSound
    <2>2. ASSUME NEW body \in Bodies PROVE Cardinality(rowsOf(body)) <= 1
      <3>1. CASE rowsOf(body) = {}
        BY <3>1, FS_EmptySet
      <3>2. ASSUME NEW d \in rowsOf(body) PROVE Cardinality(rowsOf(body)) <= 1
        <4>1. rowsOf(body) = {d}
          BY <2>1, <3>2 DEF OneDelivery
        <4> QED
          BY <4>1, FS_Singleton
      <3> QED
        BY <3>1, <3>2
    <2> QED
      BY <2>1, <2>2 DEF SentTwiceCountsOnce, OneUnread, OneDelivery
  <1> QED
    BY <1>1, Invariance, PTL

LEMMA MenuPrices ==
  ASSUME NEW role \in {"hr", "pm", "candidate"}
  PROVE  Covers(getCapabilitiesForRole(role).quota_cost, charges(role))
  BY FirstSets, HunterPrices, EmployerPrices, CandidatePrices

\* The menu of an active account offers endpoints that its role's router has,
\* offers none that the handler would refuse for quota but for the three that
\* are declared to be free and are not, and withholds none that the handler
\* would accept but the free ones of an account whose quota was lowered below
\* what it used: for any quotas, and the prices as they are written twice.
THEOREM MenusAreHonest == Spec => []MenuIsHonest
  <1>1. IInv => MenuIsHonest
    <2> SUFFICES ASSUME IInv, NEW u \in Metered, NEW role \in {"hr", "pm", "candidate"},
                        active(u)
                 PROVE  LET price == charges(role)
                            offers == menu(role, u)
                            refused(name) == price[name] > 0 /\ ~hasQuota(u, price[name])
                        IN  /\ DOMAIN offers \subseteq DOMAIN price
                            /\ \A name \in DOMAIN offers :
                                 /\ offers[name] = "ok" /\ refused(name)
                                      => name \in {"list_recommendations", "list_candidates",
                                                   "delete_my_data"}
                                 /\ offers[name] # "ok" /\ ~refused(name)
                                      => price[name] = 0 /\ ~hasQuota(u, 0)
      BY DEF MenuIsHonest
    <2> DEFINE declared == getCapabilitiesForRole(role).quota_cost
               price == charges(role)
               offers == menu(role, u)
    <2>1. Covers(declared, price)
      BY MenuPrices
    <2>2. users[u].quota_used \in Nat /\ users[u].quota_per_day \in Nat
      BY QuotaAssumption DEF IInv, UsersSound, UserRow
    <2>3. /\ DOMAIN offers = DOMAIN declared
          /\ \A name \in DOMAIN offers : offers[name] = canInvoke(declared[name], u)
      BY DEF menu
    <2> HIDE DEF declared, price, offers
    <2>4. \A amount \in Nat : canInvoke(amount, u) = "ok" <=> hasQuota(u, amount)
      BY <2>2 DEF canInvoke, hasQuota
    <2>5. \A name \in DOMAIN offers :
            /\ declared[name] \in Nat /\ price[name] \in Nat
            /\ declared[name] <= price[name]
            /\ declared[name] # price[name] => name \in Undeclared
            /\ offers[name] = "ok" <=> hasQuota(u, declared[name])
      BY <2>1, <2>3, <2>4 DEF Covers
    <2>6. DOMAIN offers \subseteq DOMAIN price
      BY <2>1, <2>3 DEF Covers
    <2>7. ASSUME NEW name \in DOMAIN offers, offers[name] = "ok", price[name] > 0,
                 ~hasQuota(u, price[name])
          PROVE  name \in Undeclared
      BY <2>5, <2>7
    <2>8. ASSUME NEW name \in DOMAIN offers, offers[name] # "ok",
                 price[name] = 0 \/ hasQuota(u, price[name])
          PROVE  price[name] = 0 /\ ~hasQuota(u, 0)
      BY <2>2, <2>5, <2>8 DEF hasQuota
    <2> QED
      BY <2>5, <2>6, <2>7, <2>8 DEF Undeclared, declared, price, offers
  <1> QED
    BY <1>1, Invariance, PTL

-----------------------------------------------------------------------------
(* Desks.                                                                  *)


LEMMA OthersNotifications ==
  ASSUME NotificationsSound, NEW u \in Users, NEW v \in Users \ {u}, NotificationCall(u)
  PROVE  /\ listNotifications(v, FALSE)' = listNotifications(v, FALSE)
         /\ countUnread(v)' = countUnread(v)
  <1>1. /\ \A n : n \in DOMAIN notifications /\ notifications[n].user_id = v
                    <=> n \in DOMAIN notifications' /\ notifications'[n].user_id = v
        /\ \A n \in DOMAIN notifications :
             notifications[n].user_id = v => notifications'[n] = notifications[n]
    <2>1. /\ notifications \in [DOMAIN notifications -> NotificationRow]
          /\ \A n \in DOMAIN notifications :
               [notifications[n] EXCEPT !.read = TRUE].user_id = notifications[n].user_id
      BY DEF NotificationsSound, Table, NotificationRow
    <2>2. CASE markAllRead(u)
      BY <2>1, <2>2 DEF markAllRead
    <2>3. ASSUME NEW n, markNotificationRead(u, n)
          PROVE  /\ notifications' = [notifications EXCEPT ![n].read = TRUE]
                 /\ n \in DOMAIN notifications /\ notifications[n].user_id = u
      BY <2>3 DEF markNotificationRead
    <2>4. CASE \E n \in Ids : markNotificationRead(u, n)
      BY <2>1, <2>3, <2>4
    <2>5. CASE \E n \in Ids : deleteNotification(u, n)
      BY <2>1, <2>5 DEF deleteNotification, Drop, Restrict
    <2> QED
      BY <2>2, <2>4, <2>5 DEF NotificationCall
  <1>2. shown(v)' = shown(v)
    BY <1>1 DEF shown
  <1>3. \A n \in shown(v) : notifications'[n] = notifications[n]
    BY <1>1 DEF shown
  <1>4. listNotifications(v, FALSE)' = listNotifications(v, FALSE)
    BY <1>2, <1>3 DEF listNotifications, Restrict
  <1>5. {n \in shown(v) : ~notifications[n].read}' = {n \in shown(v) : ~notifications[n].read}
    BY <1>2, <1>3
  <1> QED
    BY <1>4, <1>5 DEF countUnread

LEMMA OthersTasks ==
  ASSUME TasksSound, NEW u \in Users, NEW v \in Users \ {u}, TaskCall(u)
  PROVE  Restrict(hunter_tasks, listTasks(v, "all"))' = Restrict(hunter_tasks, listTasks(v, "all"))
  <1>1. hunter_tasks \in [DOMAIN hunter_tasks -> TaskRow] /\ DOMAIN hunter_tasks \subseteq minted
    BY DEF TasksSound, Table
  <1>2. /\ \A t : ownsTask(v, t) <=> ownsTask(v, t)'
        /\ \A t : ownsTask(v, t) => hunter_tasks'[t] = hunter_tasks[t]
    <2>1. ASSUME NEW t, NEW completed, setCompleted(u, t, completed)
          PROVE  <1>2!:
      BY <1>1, <2>1 DEF setCompleted, ownsTask, TaskRow
    <2>2. ASSUME NEW t, deleteTask(u, t) PROVE <1>2!:
      BY <1>1, <2>2 DEF deleteTask, ownsTask, Drop, Restrict
    <2>3. ASSUME NEW t, NEW due, updateTask(u, t, due) PROVE <1>2!:
      BY <1>1, <2>3 DEF updateTask, ownsTask, TaskRow
    <2>4. ASSUME NEW t, NEW due, createTask(t, u, due) PROVE <1>2!:
      BY <1>1, <2>4 DEF createTask, ownsTask, draws, Put
    <2> QED
      BY <2>1, <2>2, <2>3, <2>4 DEF TaskCall, complete, reopen
  <1>3. listTasks(v, "all") = {t \in DOMAIN hunter_tasks : ownsTask(v, t)}
    BY DEF listTasks
  <1>4. listTasks(v, "all")' = {t \in DOMAIN hunter_tasks' : ownsTask(v, t)'}
    BY DEF listTasks
  <1>5. listTasks(v, "all")' = listTasks(v, "all")
    BY <1>2, <1>3, <1>4 DEF ownsTask
  <1>6. \A t \in listTasks(v, "all") : hunter_tasks'[t] = hunter_tasks[t]
    BY <1>2, <1>3
  <1> QED
    BY <1>5, <1>6 DEF Restrict

LEMMA OthersNotes ==
  ASSUME NEW u \in Users, NEW v \in Users \ {u}, NoteCall(u)
  PROVE  listMyNotes(v)' = listMyNotes(v)
  <1>1. PICK c \in Subjects, patch \in NotePatches : upsertNote(u, c, patch)
    BY DEF NoteCall
  <1>2. /\ DOMAIN pm_notes' = DOMAIN pm_notes \union {<<u, c>>}
        /\ \A x \in DOMAIN pm_notes \ {<<u, c>>} : pm_notes'[x] = pm_notes[x]
    BY <1>1 DEF upsertNote, Put
  <1>3. <<u, c>>[1] # v
    OBVIOUS
  <1>4. {x \in DOMAIN pm_notes' : x[1] = v} = {x \in DOMAIN pm_notes : x[1] = v}
    BY <1>2, <1>3
  <1>5. \A x \in {y \in DOMAIN pm_notes : y[1] = v} : pm_notes'[x] = pm_notes[x]
    BY <1>2, <1>3
  <1> QED
    BY <1>4, <1>5 DEF listMyNotes, Restrict

LEMMA MessageWritten ==
  ASSUME MessagesSound, NEW u \in Users, NEW v \in Users \ {u}, MessageCall(u)
  PROVE  \/ /\ DOMAIN candidate_messages' = DOMAIN candidate_messages
            /\ \A m \in DOMAIN candidate_messages :
                 /\ candidate_messages'[m].to_user_id = candidate_messages[m].to_user_id
                 /\ candidate_messages'[m].from_user_id = candidate_messages[m].from_user_id
                 /\ candidate_messages[m].to_user_id = v
                      => candidate_messages'[m] = candidate_messages[m]
         \/ \E id, to :
              /\ id \notin DOMAIN candidate_messages
              /\ DOMAIN candidate_messages' = DOMAIN candidate_messages \union {id}
              /\ candidate_messages'[id] =
                   [from_user_id |-> u, to_user_id |-> to, read |-> FALSE]
              /\ \A m \in DOMAIN candidate_messages :
                   candidate_messages'[m] = candidate_messages[m]
  <1>1. /\ candidate_messages \in [DOMAIN candidate_messages -> MessageRow]
        /\ DOMAIN candidate_messages \subseteq minted
    BY DEF MessagesSound, Table
  <1>2. ASSUME NEW m, markRead(u, m)
        PROVE  /\ DOMAIN candidate_messages' = DOMAIN candidate_messages
               /\ \A x \in DOMAIN candidate_messages :
                    /\ candidate_messages'[x].to_user_id = candidate_messages[x].to_user_id
                    /\ candidate_messages'[x].from_user_id = candidate_messages[x].from_user_id
                    /\ candidate_messages[x].to_user_id = v
                         => candidate_messages'[x] = candidate_messages[x]
    BY <1>1, <1>2 DEF markRead, MessageRow
  <1>3. ASSUME NEW id, NEW to, send(id, u, to)
        PROVE  /\ id \notin DOMAIN candidate_messages
               /\ DOMAIN candidate_messages' = DOMAIN candidate_messages \union {id}
               /\ candidate_messages'[id] =
                    [from_user_id |-> u, to_user_id |-> to, read |-> FALSE]
               /\ \A m \in DOMAIN candidate_messages :
                    candidate_messages'[m] = candidate_messages[m]
    BY <1>1, <1>3 DEF send, draws, Put
  <1>4. CASE \E m \in Ids : markRead(u, m)
    BY <1>2, <1>4
  <1>5. CASE \E id \in Ids, to \in Users : send(id, u, to)
    <2>1. PICK id \in Ids, to \in Users : send(id, u, to)
      BY <1>5
    <2> QED
      BY <1>3, <2>1
  <1> QED
    BY <1>4, <1>5 DEF MessageCall

\* What v sent stays as it is when somebody else writes or reads a message.
LEMMA OthersSent ==
  ASSUME MessagesSound, NEW u \in Users, NEW v \in Users \ {u}, MessageCall(u)
  PROVE  {<<m, candidate_messages[m].to_user_id>> :
            m \in messages(v, "sent", FALSE).items}'
           = {<<m, candidate_messages[m].to_user_id>> :
                m \in messages(v, "sent", FALSE).items}
  <1>1. /\ sent(v)' = sent(v)
        /\ \A m \in sent(v) :
             candidate_messages'[m].to_user_id = candidate_messages[m].to_user_id
    <2>1. CASE /\ DOMAIN candidate_messages' = DOMAIN candidate_messages
               /\ \A m \in DOMAIN candidate_messages :
                    /\ candidate_messages'[m].to_user_id = candidate_messages[m].to_user_id
                    /\ candidate_messages'[m].from_user_id = candidate_messages[m].from_user_id
      BY <2>1 DEF sent
    <2>2. ASSUME NEW id, NEW to,
                 /\ id \notin DOMAIN candidate_messages
                 /\ DOMAIN candidate_messages' = DOMAIN candidate_messages \union {id}
                 /\ candidate_messages'[id] =
                      [from_user_id |-> u, to_user_id |-> to, read |-> FALSE]
                 /\ \A m \in DOMAIN candidate_messages :
                      candidate_messages'[m] = candidate_messages[m]
          PROVE  <1>1!:
      BY <2>2 DEF sent
    <2> QED
      BY <2>1, <2>2, MessageWritten
  <1>2. messages(v, "sent", FALSE).items = sent(v) /\ messages(v, "sent", FALSE)'.items = sent(v)'
    BY DEF messages
  <1> QED
    BY <1>1, <1>2

LEMMA OthersInbox ==
  ASSUME MessagesSound, NEW u \in Users, NEW v \in Users \ {u}, MessageCall(u)
  PROVE  InboxOnlyGrows(v)
  <1> DEFINE unread == {m \in received(v) : ~candidate_messages[m].read}
             came == received(v)' \ received(v)
  <1>1. IsFiniteSet(unread) /\ Cardinality(unread) \in Nat
    <2>1. unread \subseteq DOMAIN candidate_messages
      BY DEF received
    <2> QED
      BY <2>1, FS_Subset, FS_CardinalityType DEF MessagesSound
  <1>2. /\ received(v)' = received(v) \union came
        /\ unread' = unread \union came
        /\ Cardinality(unread') = Cardinality(unread) + Cardinality(came)
    <2>1. CASE /\ DOMAIN candidate_messages' = DOMAIN candidate_messages
               /\ \A m \in DOMAIN candidate_messages :
                    /\ candidate_messages'[m].to_user_id = candidate_messages[m].to_user_id
                    /\ candidate_messages[m].to_user_id = v
                         => candidate_messages'[m] = candidate_messages[m]
      <3>1. received(v)' = received(v) /\ came = {}
        BY <2>1 DEF received
      <3>2. unread' = unread
        BY <2>1, <3>1 DEF received
      <3>3. Cardinality(came) = 0
        BY <3>1, FS_EmptySet
      <3> HIDE DEF unread, came
      <3> QED
        BY <1>1, <3>1, <3>2, <3>3
    <2>2. ASSUME NEW id, NEW to,
                 /\ id \notin DOMAIN candidate_messages
                 /\ DOMAIN candidate_messages' = DOMAIN candidate_messages \union {id}
                 /\ candidate_messages'[id] =
                      [from_user_id |-> u, to_user_id |-> to, read |-> FALSE]
                 /\ \A m \in DOMAIN candidate_messages :
                      candidate_messages'[m] = candidate_messages[m]
          PROVE  <1>2!:
      <3>1. CASE to = v
        <4>1. received(v)' = received(v) \union {id} /\ id \notin received(v)
          BY <2>2, <3>1 DEF received
        <4>2. came = {id}
          BY <4>1
        <4>3. unread' = unread \union {id} /\ id \notin unread
          BY <2>2, <3>1, <4>1 DEF received
        <4>4. Cardinality(unread') = Cardinality(unread) + 1
          BY <1>1, <4>3, FS_AddElement
        <4>5. Cardinality(came) = 1
          BY <4>2, FS_Singleton
        <4> QED
          BY <4>1, <4>2, <4>3, <4>4, <4>5
      <3>2. CASE to # v
        <4>1. received(v)' = received(v) /\ came = {}
          BY <2>2, <3>2 DEF received
        <4>2. unread' = unread
          BY <2>2, <4>1 DEF received
        <4>3. Cardinality(came) = 0
          BY <4>1, FS_EmptySet
        <4> HIDE DEF unread, came
        <4> QED
          BY <1>1, <4>1, <4>2, <4>3
      <3> QED
        BY <3>1, <3>2
    <2> QED
      BY <2>1, <2>2, MessageWritten
  <1>3. /\ messages(v, "inbox", FALSE).items = received(v)
        /\ messages(v, "inbox", TRUE).items = unread
        /\ messages(v, "inbox", FALSE).unread_count = Cardinality(unread)
    BY DEF messages, unreadCount
  <1>4. /\ messages(v, "inbox", FALSE)'.items = received(v)'
        /\ messages(v, "inbox", TRUE)'.items = unread'
        /\ unreadCount(v)' = Cardinality(unread')
    BY DEF messages, unreadCount
  <1> HIDE DEF unread, came
  <1>5. came = messages(v, "inbox", FALSE)'.items \ messages(v, "inbox", FALSE).items
    BY <1>3, <1>4 DEF came
  <1> QED
    BY <1>2, <1>3, <1>4, <1>5 DEF InboxOnlyGrows

LEMMA DesksStep ==
  ASSUME IInv, NEW u \in Users, NEW v \in Users \ {u}, Calls(u)
  PROVE  Pages(v)' = Pages(v) /\ InboxOnlyGrows(v)
  <1> DEFINE sentOnes == {<<m, candidate_messages[m].to_user_id>> :
                            m \in messages(v, "sent", FALSE).items}
             myTasks == Restrict(hunter_tasks, listTasks(v, "all"))
  <1>1. UNCHANGED notifications => /\ listNotifications(v, FALSE)' = listNotifications(v, FALSE)
                                   /\ countUnread(v)' = countUnread(v)
    BY DEF listNotifications, countUnread, shown
  <1>2. UNCHANGED candidate_messages => sentOnes' = sentOnes /\ InboxOnlyGrows(v)
    BY DEF messages, sent, received, unreadCount, InboxOnlyGrows
  <1>3. UNCHANGED hunter_tasks => myTasks' = myTasks
    BY DEF listTasks, ownsTask
  <1>4. UNCHANGED pm_notes => listMyNotes(v)' = listMyNotes(v)
    BY DEF listMyNotes
  <1>5. users'[v] = users[v]
    <2>1. CASE MeteredCall(u)
      BY <2>1 DEF MeteredCall, ChargedCall, tryConsume, IInv, UsersSound
    <2> QED
      BY <2>1 DEF Calls, NotificationCall, MessageCall, TaskCall, NoteCall
  <1>6. /\ listNotifications(v, FALSE)' = listNotifications(v, FALSE)
        /\ countUnread(v)' = countUnread(v)
    BY <1>1, OthersNotifications
       DEF Calls, MeteredCall, MessageCall, TaskCall, NoteCall, IInv
  <1>7. sentOnes' = sentOnes /\ InboxOnlyGrows(v)
    <2>1. CASE MessageCall(u)
      BY <2>1, OthersSent, OthersInbox DEF IInv
    <2>2. CASE ~MessageCall(u)
      BY <1>2, <2>2 DEF Calls, MeteredCall, NotificationCall, TaskCall, NoteCall, desks
    <2> QED
      BY <2>1, <2>2
  <1>8. myTasks' = myTasks
    <2>1. CASE TaskCall(u)
      BY <2>1, OthersTasks DEF IInv
    <2>2. CASE ~TaskCall(u)
      BY <1>3, <2>2 DEF Calls, MeteredCall, NotificationCall, MessageCall, NoteCall, desks
    <2> QED
      BY <2>1, <2>2
  <1>9. listMyNotes(v)' = listMyNotes(v)
    <2>1. CASE NoteCall(u)
      BY <2>1, OthersNotes
    <2>2. CASE ~NoteCall(u)
      BY <1>4, <2>2 DEF Calls, MeteredCall, NotificationCall, MessageCall, TaskCall, desks
    <2> QED
      BY <2>1, <2>2
  <1> QED
    BY <1>5, <1>6, <1>7, <1>8, <1>9 DEF Pages

\* No call of one user changes what another reads on its own pages, and it adds
\* to another's inbox at most a message, unread: the WHERE clauses of five
\* tables name the caller, and a row that is inserted takes nobody's place.
THEOREM UsersAreApart == Spec => DesksAreApart
  <1>1. ASSUME IInv, [Next]_vars
        PROVE  [\A v \in Users :
                  Pages(v)' # Pages(v) \/ ~InboxOnlyGrows(v)
                    => \A u \in Users \ {v} : ~Calls(u)]_vars
    BY <1>1, DesksStep
  <1> QED
    BY <1>1, Invariance, PTL DEF Spec, DesksAreApart
=============================================================================
