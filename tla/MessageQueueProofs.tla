-------------------------- MODULE MessageQueueProofs --------------------------
(***************************************************************************)
(* Theorems about MessageQueue for any finite set of users, any set of     *)
(* handlers and any bounds.                                                *)
(***************************************************************************)
EXTENDS MessageQueue, TablesProofs, FiniteSetTheorems

USE QueueBounds, KeysAreFinite
USE DEF QueueBounds, KeysAreFinite

(***************************************************************************)
(* The invariant: types; MaxMsgs leaves room for the messages that are     *)
(* about to be inserted; mail and storage belong to accounts.              *)
(***************************************************************************)
Inserting == {h \in Handlers : op[h].at = "insert"}

RoomToInsert == IsFiniteSet(Inserting) /\ sent + Cardinality(Inserting) <= MaxMsgs

TablesInv == IsTable(users) /\ IsTable(messages)

MailHasAnAccount == \A id \in DOMAIN messages : messages[id].recipient \in DOMAIN users

IInv == /\ TypeInv
        /\ TablesInv
        /\ RoomToInsert
        /\ MailHasAnAccount

LEMMA InvInit == Init => IInv
<1> SUFFICES ASSUME Init PROVE IInv
  OBVIOUS
<1>1. IsTable(messages) /\ DOMAIN messages = {} /\ DOMAIN usage = {}
  BY NoRows DEF Init
<1>2. Cardinality(Keys) \in Nat
  BY FS_CardinalityType
<1>3. /\ DOMAIN users = 1..Cardinality(Keys)
      /\ \A id \in DOMAIN users : users[id] \in Keys
  BY DEF Init
<1>4. IsTable(users)
  <2>1. DOMAIN users \subseteq 0..Cardinality(Keys)
    BY <1>2, <1>3
  <2>2. QED
    BY <1>2, <2>1 DEF IsTable
<1>5. Inserting = {}
  BY DEF Init, Idle, Inserting
<1>6. RoomToInsert
  <2>1. IsFiniteSet({}) /\ Cardinality({}) = 0
    BY FS_EmptySet
  <2>2. QED
    BY <1>5, <2>1 DEF RoomToInsert, Init
<1>7. TypeInv
  BY <1>1, <1>2, <1>3 DEF Init, TypeInv, TypeOK, Op, Idle
<1>8. QED
  BY <1>1, <1>4, <1>6, <1>7 DEF IInv, TablesInv, MailHasAnAccount

\* A handler enters the queue of those that insert, or leaves it.
LEMMA RoomShrinks ==
  ASSUME IInv, Inserting' \subseteq Inserting, sent' = sent
  PROVE  RoomToInsert'
<1>1. IsFiniteSet(Inserting') /\ Cardinality(Inserting') <= Cardinality(Inserting)
  BY FS_Subset DEF IInv, RoomToInsert
<1>2. Cardinality(Inserting') \in Nat /\ Cardinality(Inserting) \in Nat
  BY <1>1, FS_CardinalityType DEF IInv, RoomToInsert
<1>3. QED
  BY <1>1, <1>2 DEF IInv, RoomToInsert, TypeInv, TypeOK

LEMMA RoomForOneMore ==
  ASSUME IInv, NEW h \in Handlers, Inserting' \subseteq Inserting \cup {h},
         sent + Cardinality(Inserting) < MaxMsgs, sent' = sent
  PROVE  RoomToInsert'
<1>1. IsFiniteSet(Inserting)
  BY DEF IInv, RoomToInsert
<1>2. /\ IsFiniteSet(Inserting \cup {h})
      /\ Cardinality(Inserting \cup {h}) <= Cardinality(Inserting) + 1
  <2>1. Cardinality(Inserting) \in Nat
    BY <1>1, FS_CardinalityType
  <2>2. /\ IsFiniteSet(Inserting \cup {h})
        /\ \/ Cardinality(Inserting \cup {h}) = Cardinality(Inserting)
           \/ Cardinality(Inserting \cup {h}) = Cardinality(Inserting) + 1
    BY <1>1, FS_AddElement
  <2>3. QED
    BY <2>1, <2>2
<1>3. IsFiniteSet(Inserting') /\ Cardinality(Inserting') <= Cardinality(Inserting \cup {h})
  BY <1>2, FS_Subset
<1>4. /\ Cardinality(Inserting') \in Nat /\ Cardinality(Inserting) \in Nat
      /\ Cardinality(Inserting \cup {h}) \in Nat
  BY <1>1, <1>2, <1>3, FS_CardinalityType
<1>5. QED
  BY <1>2, <1>3, <1>4 DEF IInv, RoomToInsert, TypeInv, TypeOK

LEMMA RoomUsed ==
  ASSUME IInv, NEW h \in Inserting, Inserting' = Inserting \ {h}, sent' \in {sent, sent + 1}
  PROVE  RoomToInsert' /\ sent' \in 0..MaxMsgs
<1>1. IsFiniteSet(Inserting) /\ Cardinality(Inserting) \in Nat
  BY FS_CardinalityType DEF IInv, RoomToInsert
<1>2. IsFiniteSet(Inserting \ {h}) /\ Cardinality(Inserting \ {h}) = Cardinality(Inserting) - 1
  BY <1>1, FS_RemoveElement
<1>3. Cardinality(Inserting \ {h}) \in Nat
  BY <1>2, FS_CardinalityType
<1>4. QED
  BY <1>1, <1>2, <1>3 DEF IInv, RoomToInsert, TypeInv, TypeOK

\* A lookup of an account, by a sender or by a recipient.
LEMMA InvLookup ==
  ASSUME IInv, NEW h \in Handlers, NEW key \in Keys, NEW next \in {"insert", "select"},
         LookupUser(h, key, next), next = "insert" => sent + Cardinality(Inserting) < MaxMsgs
  PROVE  IInv'
<1>1. PICK uid \in DOMAIN users : op' = [op EXCEPT ![h] = [at |-> next, key |-> key, uid |-> uid]]
  BY DEF LookupUser
<1>2. UNCHANGED <<users, messages, usage, cleaner, sent, seen, purged, strays, clock>>
  BY DEF LookupUser
<1>3. op \in [Handlers -> Op] /\ uid \in Nat
  BY DEF IInv, TypeInv, TypeOK
<1>4. op' \in [Handlers -> Op]
  BY <1>1, <1>3 DEF Op
<1>5. TypeInv'
  BY <1>2, <1>4 DEF IInv, TypeInv, TypeOK, strays, clock
<1>6. RoomToInsert'
  <2>1. CASE next = "insert"
    <3>1. Inserting' \subseteq Inserting \cup {h}
      BY <1>1, <1>3 DEF Inserting
    <3>2. QED
      BY <1>2, <2>1, <3>1, RoomForOneMore
  <2>2. CASE next = "select"
    <3>1. Inserting' \subseteq Inserting
      BY <1>1, <1>3, <2>2 DEF Inserting
    <3>2. QED
      BY <1>2, <3>1, RoomShrinks
  <2>3. QED
    BY <2>1, <2>2
<1>7. TablesInv' /\ MailHasAnAccount'
  BY <1>2 DEF IInv, TablesInv, MailHasAnAccount
<1>8. QED
  BY <1>5, <1>6, <1>7 DEF IInv

\* The row SendInsert adds.
LEMMA Sent ==
  ASSUME IInv, NEW h \in Handlers, SendInsert(h)
  PROVE  \/ UNCHANGED <<messages, sent>>
         \/ \E new \in Nat \ DOMAIN messages :
              /\ sent' = sent + 1
              /\ IsTable(messages')
              /\ DOMAIN messages' = DOMAIN messages \cup {new}
              /\ \A id \in DOMAIN messages : messages'[id] = messages[id]
              /\ messages'[new] = [n |-> sent + 1, to |-> op[h].key, recipient |-> op[h].uid,
                                   delivered |-> FALSE]
              /\ op[h].uid \in DOMAIN users
<1> DEFINE row == [n |-> sent + 1, to |-> op[h].key, recipient |-> op[h].uid, delivered |-> FALSE]
<1>1. CASE op[h].uid \in DOMAIN users
  <2>1. sent' = sent + 1 /\ messages' = InsertRow(messages, row)
    BY <1>1 DEF SendInsert, ForeignKey
  <2>2. IsTable(messages)
    BY DEF IInv, TablesInv
  <2> HIDE DEF row
  <2>3. /\ IsTable(InsertRow(messages, row))
        /\ DOMAIN InsertRow(messages, row) = DOMAIN messages \cup {NextRowid(messages)}
        /\ \A id \in DOMAIN messages : InsertRow(messages, row)[id] = messages[id]
        /\ InsertRow(messages, row)[NextRowid(messages)] = row
    BY <2>2, InsertedRow
  <2>4. NextRowid(messages) \in Nat \ DOMAIN messages
    BY <2>2, NextRowidIsFresh
  <2>5. QED
    BY <1>1, <2>1, <2>3, <2>4 DEF row
<1>2. CASE op[h].uid \notin DOMAIN users
  BY <1>2 DEF SendInsert, ForeignKey
<1>3. QED
  BY <1>1, <1>2

LEMMA InvSend ==
  ASSUME IInv, NEW h \in Handlers, SendInsert(h)
  PROVE  IInv'
<1>1. /\ h \in Inserting /\ op \in [Handlers -> Op]
      /\ op' = [op EXCEPT ![h] = Idle]
      /\ UNCHANGED <<users, usage, cleaner, seen, purged, clock>>
      /\ stale' \subseteq stale
  BY DEF SendInsert, Inserting, IInv, TypeInv, TypeOK
<1>2. Inserting' = Inserting \ {h}
  BY <1>1 DEF Inserting, Idle
<1>3. sent' \in {sent, sent + 1}
  BY Sent
<1>4. RoomToInsert' /\ sent' \in 0..MaxMsgs
  BY <1>1, <1>2, <1>3, RoomUsed
<1>5. op' \in [Handlers -> Op] /\ op[h].uid \in Nat /\ op[h].key \in Keys
  BY <1>1 DEF Inserting, Op, Idle
<1>6. /\ IsTable(messages') /\ DOMAIN messages' \subseteq Nat
      /\ \A id \in DOMAIN messages' : messages'[id] \in Row /\ messages'[id].recipient \in DOMAIN users
  <2>1. CASE UNCHANGED <<messages, sent>>
    BY <2>1 DEF IInv, TypeInv, TypeOK, TablesInv, MailHasAnAccount
  <2>2. CASE ~UNCHANGED <<messages, sent>>
    <3>1. PICK new \in Nat \ DOMAIN messages :
            /\ sent' = sent + 1
            /\ IsTable(messages')
            /\ DOMAIN messages' = DOMAIN messages \cup {new}
            /\ \A id \in DOMAIN messages : messages'[id] = messages[id]
            /\ messages'[new] = [n |-> sent + 1, to |-> op[h].key, recipient |-> op[h].uid,
                                 delivered |-> FALSE]
            /\ op[h].uid \in DOMAIN users
      BY <2>2, Sent
    <3>2. messages'[new] \in Row
      BY <1>4, <1>5, <3>1 DEF Row, Numbers, IInv, TypeInv, TypeOK
    <3>3. messages'[new].recipient \in DOMAIN users
      BY <3>1
    <3>4. \A id \in DOMAIN messages : messages[id] \in Row /\ messages[id].recipient \in DOMAIN users
      BY DEF IInv, TypeInv, TypeOK, MailHasAnAccount
    <3>5. DOMAIN messages \subseteq Nat
      BY DEF IInv, TypeInv, TypeOK
    <3>6. QED
      BY <3>1, <3>2, <3>3, <3>4, <3>5
  <2>3. QED
    BY <2>1, <2>2
<1>7. sent <= sent' /\ sent \in Nat
  BY <1>3 DEF IInv, TypeInv, TypeOK
<1>10. strayed' \subseteq Numbers
  <2>1. strayed' \subseteq strayed \cup {sent'} /\ (strayed' = strayed \/ sent' = sent + 1)
    BY DEF SendInsert
  <2>2. QED
    BY <1>4, <1>7, <2>1 DEF Numbers, IInv, TypeInv, TypeOK
<1>8. TypeInv'
  BY <1>1, <1>4, <1>5, <1>6, <1>7, <1>10 DEF IInv, TypeInv, TypeOK, clock
<1>9. QED
  BY <1>1, <1>4, <1>6, <1>8 DEF IInv, TablesInv, MailHasAnAccount

\* What an API call or the cleanup leaves alone: it adds no mail, deletes no
\* account and keeps the handlers, or one of them is through.
LEMMA InvKept ==
  ASSUME IInv, UNCHANGED <<users, usage, sent>>, IsTable(messages'),
         DOMAIN messages' \subseteq DOMAIN messages,
         \A id \in DOMAIN messages' : /\ messages'[id] \in Row
                                     /\ messages'[id].recipient = messages[id].recipient,
         op' \in [Handlers -> Op], Inserting' \subseteq Inserting,
         cleaner' \in {"wait", "expired", "delivered", "storage"},
         seen' \in [Keys -> SUBSET Mail], purged' \subseteq Numbers,
         stale' \subseteq Handlers, strayed' \subseteq Numbers,
         weekOld' \in 0..hourOld', hourOld' \in 0..sent, ticks' \in 0..MaxTicks
  PROVE  IInv'
<1>1. RoomToInsert'
  BY RoomShrinks
<1>2. TypeInv'
  BY DEF IInv, TypeInv, TypeOK
<1>3. TablesInv' /\ MailHasAnAccount'
  BY DEF IInv, TablesInv, MailHasAnAccount
<1>4. QED
  BY <1>1, <1>2, <1>3 DEF IInv

\* A DELETE keeps the other rows.
LEMMA DeletedMail ==
  ASSUME IInv, NEW ids, messages' = DeleteRows(messages, ids)
  PROVE  /\ IsTable(messages') /\ DOMAIN messages' = DOMAIN messages \ ids
         /\ \A id \in DOMAIN messages' : messages'[id] = messages[id] /\ messages[id] \in Row
<1>1. IsTable(messages)
  BY DEF IInv, TablesInv
<1>2. /\ IsTable(DeleteRows(messages, ids))
      /\ DOMAIN DeleteRows(messages, ids) = DOMAIN messages \ ids
      /\ \A id \in DOMAIN messages \ ids : DeleteRows(messages, ids)[id] = messages[id]
  BY <1>1, DeletedRows
<1>3. \A id \in DOMAIN messages : messages[id] \in Row
  BY DEF IInv, TypeInv, TypeOK
<1>4. QED
  BY <1>2, <1>3

LEMMA InvFetch ==
  ASSUME IInv, NEW h \in Handlers, FetchSelect(h)
  PROVE  IInv'
<1> DEFINE fetched == {[n |-> messages[id].n, to |-> messages[id].to, id |-> id] : id \in Pending(op[h].uid)}
<1>1. /\ op[h].at = "select" /\ op' = [op EXCEPT ![h] = Idle]
      /\ seen' = [seen EXCEPT ![op[h].key] = @ \cup fetched]
      /\ UNCHANGED <<users, messages, usage, cleaner, sent, purged, clock>>
      /\ stale' \subseteq stale /\ strayed' \subseteq strayed \cup {messages[id].n : id \in Pending(op[h].uid)}
  BY DEF FetchSelect
<1>2. fetched \subseteq Mail /\ {messages[id].n : id \in Pending(op[h].uid)} \subseteq Numbers
  BY DEF Pending, RowsWhere, IInv, TypeInv, TypeOK, Row, Mail
<1> HIDE DEF fetched
<1>3. op[h].key \in Keys /\ op \in [Handlers -> Op]
  BY <1>1 DEF IInv, TypeInv, TypeOK, Op
<1>4. seen' \in [Keys -> SUBSET Mail]
  BY <1>1, <1>2, <1>3 DEF IInv, TypeInv, TypeOK
<1>5. op' \in [Handlers -> Op] /\ Inserting' \subseteq Inserting
  BY <1>1, <1>3 DEF Op, Idle, Inserting
<1>6. QED
  BY <1>1, <1>2, <1>4, <1>5, InvKept DEF IInv, TypeInv, TypeOK, TablesInv, clock

LEMMA InvMark ==
  ASSUME IInv, NEW key \in Keys, NEW m \in seen[key], MarkDelivered(key, m)
  PROVE  IInv'
<1>1. /\ m.id \in DOMAIN messages
      /\ messages' = [messages EXCEPT ![m.id].delivered = TRUE]
      /\ UNCHANGED <<users, usage, op, cleaner, sent, seen, purged, strays, clock>>
  BY DEF MarkDelivered
<1>2. /\ DOMAIN messages' = DOMAIN messages
      /\ \A id \in DOMAIN messages : /\ messages'[id] \in Row
                                     /\ messages'[id].recipient = messages[id].recipient
  BY <1>1 DEF IInv, TypeInv, TypeOK, Row
<1>3. IsTable(messages')
  BY <1>2, SameIds DEF IInv, TablesInv
<1>4. Inserting' = Inserting
  BY <1>1 DEF Inserting
<1>5. QED
  BY <1>1, <1>2, <1>3, <1>4, InvKept DEF IInv, TypeInv, TypeOK, clock, strays

\* The other accounts stay when one goes.
LEMMA GoneAccount ==
  ASSUME IInv, NEW uid \in DOMAIN users, DeleteUser(uid)
  PROVE  /\ IsTable(users') /\ DOMAIN users' = DOMAIN users \ {uid}
         /\ \A id \in DOMAIN users' : users'[id] = users[id]
<1>1. users' = DeleteRows(users, {uid}) /\ IsTable(users)
  BY DEF DeleteUser, IInv, TablesInv
<1>2. /\ IsTable(DeleteRows(users, {uid})) /\ DOMAIN DeleteRows(users, {uid}) = DOMAIN users \ {uid}
      /\ \A id \in DOMAIN users \ {uid} : DeleteRows(users, {uid})[id] = users[id]
  BY <1>1, DeletedRows
<1>3. QED
  BY <1>1, <1>2

\* An account goes, and its mail and its storage go with it.
LEMMA InvDeleteUser ==
  ASSUME IInv, NEW uid \in DOMAIN users, DeleteUser(uid)
  PROVE  IInv'
<1>1. /\ IsTable(users') /\ DOMAIN users' = DOMAIN users \ {uid}
      /\ \A id \in DOMAIN users' : users'[id] = users[id]
  BY GoneAccount
<1>2. DOMAIN usage' = DOMAIN usage \ {uid} /\ \A id \in DOMAIN usage' : usage'[id] = usage[id]
  BY DEF DeleteUser, UsageWithout, DeleteRows, Restrict
<1>3. /\ IsTable(messages') /\ DOMAIN messages' = DOMAIN messages \ Cascade(uid)
      /\ \A id \in DOMAIN messages' : messages'[id] = messages[id] /\ messages[id] \in Row
  BY DeletedMail DEF DeleteUser
<1>4. \A id \in DOMAIN messages' : messages[id].recipient # uid
  BY <1>3 DEF Cascade, RowsWhere
<1>5. /\ UNCHANGED <<op, cleaner, sent, seen, strayed, clock>>
      /\ stale' \subseteq stale \cup Handlers
      /\ purged' = purged \cup {messages[id].n : id \in Cascade(uid)}
  BY DEF DeleteUser
<1>6. purged' \subseteq Numbers
  BY <1>5 DEF Cascade, RowsWhere, IInv, TypeInv, TypeOK, Row
<1>7. RoomToInsert'
  <2>1. Inserting' = Inserting
    BY <1>5 DEF Inserting
  <2>2. QED
    BY <1>5, <2>1, RoomShrinks
<1>8. MailHasAnAccount'
  BY <1>1, <1>3, <1>4 DEF IInv, MailHasAnAccount
<1>9. TypeInv'
  BY <1>1, <1>2, <1>3, <1>5, <1>6 DEF IInv, TypeInv, TypeOK, clock
<1>10. QED
  BY <1>1, <1>3, <1>7, <1>8, <1>9 DEF IInv, TablesInv

\* The row of a new account has an id nobody has.
LEMMA NewAccount ==
  ASSUME IInv, NEW key \in Keys, CreateUser(key)
  PROVE  /\ IsTable(users') /\ DOMAIN users' = DOMAIN users \cup {NextRowid(users)}
         /\ NextRowid(users) \in Nat \ DOMAIN users
         /\ \A id \in DOMAIN users : users'[id] = users[id]
         /\ users'[NextRowid(users)] = key
<1>1. users' = InsertRow(users, key) /\ IsTable(users)
  BY DEF CreateUser, IInv, TablesInv
<1>2. QED
  BY <1>1, InsertedRow, NextRowidIsFresh

LEMMA InvCreateUser ==
  ASSUME IInv, NEW key \in Keys, CreateUser(key)
  PROVE  IInv'
<1>1. /\ IsTable(users') /\ DOMAIN users \subseteq DOMAIN users' /\ DOMAIN users' \subseteq Nat
      /\ \A id \in DOMAIN users' : users'[id] \in Keys
  BY NewAccount DEF IInv, TypeInv, TypeOK
<1>2. UNCHANGED <<messages, usage, op, cleaner, sent, seen, purged, strays, clock>>
  BY DEF CreateUser
<1>3. RoomToInsert'
  <2>1. Inserting' = Inserting
    BY <1>2 DEF Inserting
  <2>2. QED
    BY <1>2, <2>1, RoomShrinks
<1>4. TypeInv'
  BY <1>1, <1>2 DEF IInv, TypeInv, TypeOK, clock, strays
<1>5. QED
  BY <1>1, <1>2, <1>3, <1>4 DEF IInv, TablesInv, MailHasAnAccount

\* The accounting: there are finitely many messages to count.
LEMMA InvUsage ==
  ASSUME IInv, UpdateStorageUsage
  PROVE  IInv'
<1>1. /\ usage' = [uid \in DOMAIN usage \cup Recipients |->
                      IF uid \in Recipients THEN Cardinality(Pending(uid)) ELSE usage[uid]]
      /\ cleaner' = "wait"
      /\ UNCHANGED <<users, messages, op, sent, seen, purged, strays, clock>>
  BY DEF UpdateStorageUsage
<1>2. Recipients \subseteq DOMAIN users
  BY DEF Recipients, RowsWhere, IInv, MailHasAnAccount
<1>3. \A uid : Cardinality(Pending(uid)) \in Nat
  <2>1. PICK bound \in Nat : DOMAIN messages \subseteq 0..bound
    BY DEF IInv, TablesInv, IsTable
  <2>2. IsFiniteSet(0..bound)
    BY FS_Interval
  <2>3. \A uid : Pending(uid) \subseteq 0..bound
    BY <2>1 DEF Pending, RowsWhere
  <2>4. QED
    BY <2>2, <2>3, FS_Subset, FS_CardinalityType
<1>4. /\ DOMAIN usage' \subseteq DOMAIN users /\ DOMAIN usage' \subseteq Nat
      /\ \A uid \in DOMAIN usage' : usage'[uid] \in Nat
  BY <1>1, <1>2, <1>3 DEF IInv, TypeInv, TypeOK
<1>5. TypeInv'
  BY <1>1, <1>4 DEF IInv, TypeInv, TypeOK, clock, strays
<1>6. RoomToInsert'
  <2>1. Inserting' = Inserting
    BY <1>1 DEF Inserting
  <2>2. QED
    BY <1>1, <2>1, RoomShrinks
<1>7. QED
  BY <1>1, <1>5, <1>6 DEF IInv, TablesInv, MailHasAnAccount

LEMMA InvNext == IInv /\ [Next]_vars => IInv'
<1> SUFFICES ASSUME IInv, [Next]_vars PROVE IInv'
  OBVIOUS
<1>1. ASSUME NEW h \in Handlers, Handle(h) PROVE IInv'
  <2>1. ASSUME NEW key \in Keys, SendLookup(h, key) PROVE IInv'
    BY <2>1, InvLookup DEF SendLookup, Inserting
  <2>2. ASSUME NEW key \in Keys, FetchLookup(h, key) PROVE IInv'
    BY <2>2, InvLookup DEF FetchLookup
  <2>3. QED
    BY <1>1, <2>1, <2>2, InvSend, InvFetch DEF Handle
<1>2. ASSUME CleanExpired \/ CleanDelivered PROVE IInv'
  <2>1. PICK ids : messages' = DeleteRows(messages, ids)
    BY <1>2 DEF CleanExpired, CleanDelivered
  <2>2. UNCHANGED <<users, usage, op, sent, seen, purged, strays, clock>> /\ cleaner' \in {"delivered", "storage"}
    BY <1>2 DEF CleanExpired, CleanDelivered
  <2>3. Inserting' = Inserting
    BY <2>2 DEF Inserting
  <2>4. /\ IsTable(messages') /\ DOMAIN messages' \subseteq DOMAIN messages
        /\ \A id \in DOMAIN messages' : /\ messages'[id] \in Row
                                        /\ messages'[id].recipient = messages[id].recipient
    BY <2>1, DeletedMail
  <2>5. QED
    BY <2>2, <2>3, <2>4, InvKept DEF IInv, TypeInv, TypeOK, clock, strays
<1>3. CASE /\ UNCHANGED <<users, messages, usage, op, sent, seen, purged, strays>>
           /\ cleaner' \in {"wait", "expired", "delivered", "storage"}
           /\ weekOld' \in 0..hourOld' /\ hourOld' \in 0..sent /\ ticks' \in 0..MaxTicks
  <2>1. Inserting' = Inserting
    BY <1>3 DEF Inserting
  <2>2. QED
    BY <1>3, <2>1, InvKept DEF IInv, TypeInv, TypeOK, TablesInv, strays
<1>4. CASE TimerFires
  BY <1>3, <1>4 DEF TimerFires, IInv, TypeInv, TypeOK, clock
<1>5. CASE Tick
  BY <1>3, <1>5 DEF Tick, IInv, TypeInv, TypeOK
<1>6. CASE UNCHANGED vars
  BY <1>3, <1>6 DEF vars, strays, IInv, TypeInv, TypeOK
<1>7. QED
  BY <1>1, <1>2, <1>4, <1>5, <1>6, InvMark, InvDeleteUser, InvCreateUser, InvUsage DEF Next, Cleanup

LEMMA InvHolds == Spec => []IInv
BY InvInit, InvNext, PTL DEF Spec

\* The tables and the handlers have their types, and storage is accounted only to
\* accounts that exist.
THEOREM TypeCorrect == Spec => []TypeInv
<1>1. IInv => TypeInv
  BY DEF IInv
<1>2. QED
  BY <1>1, InvHolds, PTL

\* Whoever gets the id of a deleted account finds no mail and no storage under it.
THEOREM NewAccountsStartEmpty == Spec => NewAccountsAreEmpty
<1>1. IInv /\ [Next]_vars =>
        [\A uid \in DOMAIN users' \ DOMAIN users :
           uid \notin DOMAIN usage /\ \A id \in DOMAIN messages : messages[id].recipient # uid]_vars
  BY DEF IInv, TypeInv, MailHasAnAccount
<1>2. QED
  BY <1>1, InvHolds, PTL DEF Spec, NewAccountsAreEmpty

(***************************************************************************)
(* Whose mail it is.  A handler that is not stale holds the id its key     *)
(* still has, so what it queues or fetches under the id is the key's; ids  *)
(* are given out again, but the mail of the old account went with it.      *)
(***************************************************************************)
LookedUp == \A h \in Handlers \ stale :
              op[h] # Idle => op[h].uid \in DOMAIN users /\ users[op[h].uid] = op[h].key

MailOfItsAccount == \A id \in DOMAIN messages :
                      \/ users[messages[id].recipient] = messages[id].to
                      \/ messages[id].n \in strayed

OwnInv == LookedUp /\ MailOfItsAccount /\ MailIsOwn

\* A step that queues and fetches nothing and gives no account another key.
LEMMA OwnKept ==
  ASSUME IInv, OwnInv, UNCHANGED <<seen, strayed>>,
         \A id \in DOMAIN messages' : /\ id \in DOMAIN messages
                                     /\ messages'[id].n = messages[id].n
                                     /\ messages'[id].to = messages[id].to
                                     /\ messages'[id].recipient = messages[id].recipient
                                     /\ messages[id].recipient \in DOMAIN users',
         \A uid \in DOMAIN users \cap DOMAIN users' : users'[uid] = users[uid],
         LookedUp'
  PROVE  OwnInv'
<1>1. MailOfItsAccount'
  BY DEF OwnInv, MailOfItsAccount, IInv, MailHasAnAccount
<1>2. MailIsOwn'
  BY DEF OwnInv, MailIsOwn
<1>3. QED
  BY <1>1, <1>2 DEF OwnInv

LEMMA OwnSend ==
  ASSUME IInv, OwnInv, NEW h \in Handlers, SendInsert(h)
  PROVE  OwnInv'
<1>1. /\ op[h].at = "insert" /\ op' = [op EXCEPT ![h] = Idle] /\ op \in [Handlers -> Op]
      /\ UNCHANGED <<users, seen>> /\ stale' = stale \ {h} /\ strayed \subseteq strayed'
  BY DEF SendInsert, IInv, TypeInv, TypeOK
<1>2. LookedUp'
  BY <1>1 DEF OwnInv, LookedUp
<1>3. MailIsOwn'
  BY <1>1 DEF OwnInv, MailIsOwn
<1>4. MailOfItsAccount'
  <2>1. CASE UNCHANGED <<messages, sent>>
    BY <1>1, <2>1 DEF OwnInv, MailOfItsAccount
  <2>2. CASE ~UNCHANGED <<messages, sent>>
    <3>1. PICK new \in Nat \ DOMAIN messages :
            /\ DOMAIN messages' = DOMAIN messages \cup {new}
            /\ \A id \in DOMAIN messages : messages'[id] = messages[id]
            /\ messages'[new] = [n |-> sent + 1, to |-> op[h].key, recipient |-> op[h].uid,
                                 delivered |-> FALSE]
      BY <2>2, Sent
    <3>2. h \in stale => sent + 1 \in strayed'
      BY <2>2 DEF SendInsert
    <3>3. h \notin stale => users[op[h].uid] = op[h].key
      BY <1>1 DEF OwnInv, LookedUp, Idle
    <3>4. users'[messages'[new].recipient] = messages'[new].to \/ messages'[new].n \in strayed'
      BY <1>1, <3>1, <3>2, <3>3
    <3>5. QED
      BY <1>1, <3>1, <3>4 DEF OwnInv, MailOfItsAccount
  <2>3. QED
    BY <2>1, <2>2
<1>5. QED
  BY <1>2, <1>3, <1>4 DEF OwnInv

LEMMA OwnFetch ==
  ASSUME IInv, OwnInv, NEW h \in Handlers, FetchSelect(h)
  PROVE  OwnInv'
<1>1. /\ op[h].at = "select" /\ op' = [op EXCEPT ![h] = Idle] /\ op \in [Handlers -> Op]
      /\ UNCHANGED <<users, messages>> /\ stale' = stale \ {h} /\ strayed \subseteq strayed'
      /\ seen \in [Keys -> SUBSET Mail]
  BY DEF FetchSelect, IInv, TypeInv, TypeOK
<1>2. LookedUp'
  BY <1>1 DEF OwnInv, LookedUp
<1>3. MailOfItsAccount'
  BY <1>1 DEF OwnInv, MailOfItsAccount
<1>4. ASSUME NEW key \in Keys, NEW m \in seen'[key] PROVE m.to = key \/ m.n \in strayed'
  <2>1. CASE m \in seen[key]
    BY <1>1, <2>1 DEF OwnInv, MailIsOwn
  <2>2. CASE m \notin seen[key]
    <3>1. PICK id \in Pending(op[h].uid) :
            key = op[h].key /\ m = [n |-> messages[id].n, to |-> messages[id].to, id |-> id]
      BY <1>1, <2>2 DEF FetchSelect
    <3>2. m.n = messages[id].n /\ m.to = messages[id].to
      BY <3>1
    <3>3. id \in DOMAIN messages /\ messages[id].recipient = op[h].uid
      BY DEF Pending, RowsWhere
    <3>4. h \in stale => m.n \in strayed'
      BY <3>2 DEF FetchSelect
    <3>5. h \notin stale => users[op[h].uid] = op[h].key
      BY <1>1 DEF OwnInv, LookedUp, Idle
    <3>6. QED
      BY <1>1, <3>1, <3>2, <3>3, <3>4, <3>5 DEF OwnInv, MailOfItsAccount
  <2>3. QED
    BY <2>1, <2>2
<1>5. QED
  BY <1>2, <1>3, <1>4 DEF OwnInv, MailIsOwn

LEMMA OwnDeleteUser ==
  ASSUME IInv, OwnInv, NEW uid \in DOMAIN users, DeleteUser(uid)
  PROVE  OwnInv'
<1>1. DOMAIN users' = DOMAIN users \ {uid} /\ \A id \in DOMAIN users' : users'[id] = users[id]
  BY GoneAccount
<1>2. /\ DOMAIN messages' = DOMAIN messages \ Cascade(uid)
      /\ \A id \in DOMAIN messages' : messages'[id] = messages[id]
  BY DeletedMail DEF DeleteUser
<1>3. /\ UNCHANGED <<op, seen, strayed>>
      /\ stale' = stale \cup {h \in Handlers : op[h] # Idle /\ op[h].uid = uid}
  BY DEF DeleteUser
<1>4. LookedUp'
  BY <1>1, <1>3 DEF OwnInv, LookedUp
<1>5. \A id \in DOMAIN messages' : messages[id].recipient \in DOMAIN users'
  BY <1>1, <1>2 DEF Cascade, RowsWhere, IInv, MailHasAnAccount
<1>6. QED
  BY <1>1, <1>2, <1>3, <1>4, <1>5, OwnKept

LEMMA OwnNext == IInv /\ OwnInv /\ [Next]_vars => OwnInv'
<1> SUFFICES ASSUME IInv, OwnInv, [Next]_vars PROVE OwnInv'
  OBVIOUS
<1>1. CASE UNCHANGED <<users, messages, op, seen, strays>>
  <2>1. LookedUp'
    BY <1>1 DEF OwnInv, LookedUp, strays
  <2>2. QED
    BY <1>1, <2>1, OwnKept DEF strays, IInv, MailHasAnAccount
<1>2. ASSUME NEW h \in Handlers, NEW key \in Keys, SendLookup(h, key) \/ FetchLookup(h, key) PROVE OwnInv'
  <2>1. PICK next \in {"insert", "select"}, uid \in DOMAIN users :
          users[uid] = key /\ op' = [op EXCEPT ![h] = [at |-> next, key |-> key, uid |-> uid]]
    BY <1>2 DEF SendLookup, FetchLookup, LookupUser
  <2>2. UNCHANGED <<users, messages, seen, strays>> /\ op \in [Handlers -> Op]
    BY <1>2 DEF SendLookup, FetchLookup, LookupUser, IInv, TypeInv, TypeOK
  <2>3. LookedUp'
    BY <2>1, <2>2 DEF OwnInv, LookedUp, strays
  <2>4. QED
    BY <2>2, <2>3, OwnKept DEF strays, IInv, MailHasAnAccount
<1>3. ASSUME NEW key \in Keys, NEW m \in seen[key], MarkDelivered(key, m) PROVE OwnInv'
  <2>1. /\ messages' = [messages EXCEPT ![m.id].delivered = TRUE]
        /\ UNCHANGED <<users, op, seen, strays>>
    BY <1>3 DEF MarkDelivered
  <2>2. /\ DOMAIN messages' = DOMAIN messages
        /\ \A id \in DOMAIN messages : /\ messages'[id].n = messages[id].n
                                       /\ messages'[id].to = messages[id].to
                                       /\ messages'[id].recipient = messages[id].recipient
    BY <2>1 DEF IInv, TypeInv, TypeOK, Row
  <2>3. LookedUp'
    BY <2>1 DEF OwnInv, LookedUp, strays
  <2>4. QED
    BY <2>1, <2>2, <2>3, OwnKept DEF strays, IInv, MailHasAnAccount
<1>4. ASSUME NEW key \in Keys, CreateUser(key) PROVE OwnInv'
  <2>1. DOMAIN users \subseteq DOMAIN users' /\ \A id \in DOMAIN users : users'[id] = users[id]
    BY <1>4, NewAccount
  <2>2. UNCHANGED <<messages, op, seen, strays>>
    BY <1>4 DEF CreateUser
  <2>3. LookedUp'
    BY <2>1, <2>2 DEF OwnInv, LookedUp, strays
  <2>4. QED
    BY <2>1, <2>2, <2>3, OwnKept DEF strays, IInv, MailHasAnAccount
<1>5. ASSUME CleanExpired \/ CleanDelivered PROVE OwnInv'
  <2>1. PICK ids : messages' = DeleteRows(messages, ids)
    BY <1>5 DEF CleanExpired, CleanDelivered
  <2>2. UNCHANGED <<users, op, seen, strays>>
    BY <1>5 DEF CleanExpired, CleanDelivered
  <2>3. LookedUp'
    BY <2>2 DEF OwnInv, LookedUp, strays
  <2>4. QED
    BY <2>1, <2>2, <2>3, DeletedMail, OwnKept DEF strays, IInv, MailHasAnAccount
<1>6. ASSUME TimerFires \/ UpdateStorageUsage \/ Tick PROVE OwnInv'
  BY <1>1, <1>6 DEF TimerFires, UpdateStorageUsage, Tick
<1>7. CASE UNCHANGED vars
  BY <1>1, <1>7 DEF vars, strays
<1>8. QED
  BY <1>2, <1>3, <1>4, <1>5, <1>6, <1>7, OwnSend, OwnFetch, OwnDeleteUser DEF Next, Handle, Cleanup

LEMMA OwnHolds == Spec => []OwnInv
<1>1. Init => OwnInv
  BY NoRows DEF Init, OwnInv, LookedUp, MailOfItsAccount, MailIsOwn
<1>2. QED
  BY <1>1, OwnNext, InvHolds, PTL DEF Spec

\* What a client fetches was sent to its key, whoever had the id of its account
\* before, unless a request that outlived its account has handled the message.
THEOREM MailStaysOwn == Spec => []MailIsOwn
<1>1. OwnInv => MailIsOwn
  BY DEF OwnInv
<1>2. QED
  BY <1>1, OwnHolds, PTL

(***************************************************************************)
(* What becomes of a message when no acknowledgement is late: one that is  *)
(* marked delivered has been fetched by the client it was sent to, for     *)
(* that client's mail is its own, or it has strayed.                       *)
(***************************************************************************)
Waiting(n) == \E id \in DOMAIN messages : messages[id].n = n /\ ~messages[id].delivered

DeliveredIsFetched ==
  \A id \in DOMAIN messages :
    messages[id].delivered => Fetched(messages[id].n) \/ messages[id].n \in strayed

Accounted ==
  \A n \in 1..sent : n <= weekOld \/ n \in purged \/ Waiting(n) \/ Fetched(n) \/ n \in strayed

QueueInv == DeliveredIsFetched /\ Accounted

\* A DELETE of messages each of which has expired, gone with its account or been
\* fetched.
LEMMA QueueDeletes ==
  ASSUME IInv, QueueInv, NEW ids, messages' = DeleteRows(messages, ids),
         UNCHANGED <<sent, seen, strayed, weekOld>>, purged \subseteq purged',
         \A id \in DOMAIN messages \cap ids : \/ messages[id].n <= weekOld
                                            \/ messages[id].n \in purged'
                                            \/ messages[id].delivered
  PROVE  QueueInv'
<1>1. /\ DOMAIN messages' = DOMAIN messages \ ids
      /\ \A id \in DOMAIN messages' : messages'[id] = messages[id]
  BY DeletedMail
<1>2. DeliveredIsFetched'
  BY <1>1 DEF QueueInv, DeliveredIsFetched, Fetched
<1>3. Accounted'
  BY <1>1 DEF QueueInv, Accounted, DeliveredIsFetched, Waiting, Fetched
<1>4. QED
  BY <1>2, <1>3 DEF QueueInv

\* Any other step keeps the messages, but for one that is new.
LEMMA QueueKept ==
  ASSUME IInv, QueueInv, UNCHANGED <<messages, sent, purged>>,
         \A key \in Keys : seen[key] \subseteq seen'[key], strayed \subseteq strayed',
         weekOld <= weekOld', weekOld' \in Nat
  PROVE  QueueInv'
<1>1. \A n : Fetched(n) => Fetched(n)'
  BY DEF Fetched
<1>2. DeliveredIsFetched'
  BY <1>1 DEF QueueInv, DeliveredIsFetched
<1>3. Accounted'
  <2>1. \A n \in 1..sent : n <= weekOld => n <= weekOld'
    BY DEF IInv, TypeInv, TypeOK
  <2>2. QED
    BY <1>1, <2>1 DEF QueueInv, Accounted, Waiting
<1>4. QED
  BY <1>2, <1>3 DEF QueueInv

LEMMA QueueNext == ~LateAcks /\ IInv /\ OwnInv /\ QueueInv /\ [Next]_vars => QueueInv'
<1> SUFFICES ASSUME ~LateAcks, IInv, OwnInv, QueueInv, [Next]_vars PROVE QueueInv'
  OBVIOUS
<1>0. weekOld \in Nat /\ hourOld \in Nat /\ sent \in Nat /\ weekOld <= hourOld /\ hourOld <= sent
  BY DEF IInv, TypeInv, TypeOK
<1>1. ASSUME NEW h \in Handlers, SendInsert(h) PROVE QueueInv'
  <2>1. UNCHANGED <<seen, purged, weekOld>> /\ strayed \subseteq strayed'
    BY <1>1 DEF SendInsert, clock
  <2>2. CASE UNCHANGED <<messages, sent>>
    BY <1>0, <2>1, <2>2, QueueKept
  <2>3. CASE ~UNCHANGED <<messages, sent>>
    <3>1. PICK new \in Nat \ DOMAIN messages :
            /\ sent' = sent + 1
            /\ DOMAIN messages' = DOMAIN messages \cup {new}
            /\ \A id \in DOMAIN messages : messages'[id] = messages[id]
            /\ messages'[new] = [n |-> sent + 1, to |-> op[h].key, recipient |-> op[h].uid,
                                 delivered |-> FALSE]
      BY <1>1, <2>3, Sent
    <3>2. DeliveredIsFetched'
      BY <2>1, <3>1 DEF QueueInv, DeliveredIsFetched, Fetched
    <3>3. \A n : Waiting(n) => Waiting(n)'
      BY <3>1 DEF Waiting
    <3>4. \A n \in 1..sent' : n \in 1..sent \/ n = sent'
      BY <1>0, <3>1
    <3>5. Accounted'
      <4>1. messages'[new].n = sent' /\ ~messages'[new].delivered /\ new \in DOMAIN messages'
        BY <3>1
      <4>2. QED
        BY <2>1, <3>3, <3>4, <4>1 DEF QueueInv, Accounted, Waiting, Fetched
    <3>6. QED
      BY <3>2, <3>5 DEF QueueInv
  <2>4. QED
    BY <2>2, <2>3
<1>2. ASSUME NEW h \in Handlers, FetchSelect(h) PROVE QueueInv'
  <2>1. /\ UNCHANGED <<messages, sent, purged, weekOld>> /\ strayed \subseteq strayed'
        /\ seen \in [Keys -> SUBSET Mail]
    BY <1>2 DEF FetchSelect, clock, IInv, TypeInv, TypeOK
  <2>2. \A key \in Keys : seen[key] \subseteq seen'[key]
    BY <1>2, <2>1 DEF FetchSelect
  <2>3. QED
    BY <1>0, <2>1, <2>2, QueueKept
<1>3. ASSUME NEW key \in Keys, NEW m \in seen[key], MarkDelivered(key, m) PROVE QueueInv'
  <2>1. /\ m.id \in DOMAIN messages /\ messages[m.id].n = m.n
        /\ messages' = [messages EXCEPT ![m.id].delivered = TRUE]
        /\ UNCHANGED <<sent, seen, purged, strayed, weekOld>>
    BY <1>3 DEF MarkDelivered, clock, strays
  <2>2. /\ DOMAIN messages' = DOMAIN messages
        /\ \A id \in DOMAIN messages : /\ messages'[id].n = messages[id].n
                                       /\ id # m.id => messages'[id] = messages[id]
    BY <2>1 DEF IInv, TypeInv, TypeOK, Row
  <2>3. Fetched(m.n) \/ m.n \in strayed
    BY DEF Fetched, OwnInv, MailIsOwn
  <2>4. DeliveredIsFetched'
    BY <2>1, <2>2, <2>3 DEF QueueInv, DeliveredIsFetched, Fetched
  <2>5. \A n : Waiting(n) => Waiting(n)' \/ n = m.n
    BY <2>1, <2>2 DEF Waiting
  <2>6. Accounted'
    BY <2>1, <2>3, <2>5 DEF QueueInv, Accounted, Fetched
  <2>7. QED
    BY <2>4, <2>6 DEF QueueInv
<1>4. ASSUME NEW uid \in DOMAIN users, DeleteUser(uid) PROVE QueueInv'
  <2>1. /\ messages' = DeleteRows(messages, Cascade(uid))
        /\ purged' = purged \cup {messages[id].n : id \in Cascade(uid)}
        /\ UNCHANGED <<sent, seen, strayed, weekOld>>
    BY <1>4 DEF DeleteUser, clock
  <2>2. QED
    BY <2>1, QueueDeletes
<1>5. ASSUME CleanExpired PROVE QueueInv'
  <2>1. messages' = DeleteRows(messages, Expired) /\ UNCHANGED <<sent, seen, purged, strayed, weekOld>>
    BY <1>5 DEF CleanExpired, clock, strays
  <2>2. \A id \in Expired : messages[id].n <= weekOld
    BY DEF Expired, RowsWhere
  <2>3. QED
    BY <2>1, <2>2, QueueDeletes
<1>6. ASSUME CleanDelivered PROVE QueueInv'
  <2>1. messages' = DeleteRows(messages, DeliveredOld) /\ UNCHANGED <<sent, seen, purged, strayed, weekOld>>
    BY <1>6 DEF CleanDelivered, clock, strays
  <2>2. \A id \in DeliveredOld : messages[id].delivered
    BY DEF DeliveredOld, RowsWhere
  <2>3. QED
    BY <2>1, <2>2, QueueDeletes
<1>7. CASE UNCHANGED <<messages, sent, seen, purged, strayed, weekOld>>
  BY <1>0, <1>7, QueueKept
<1>8. ASSUME Tick PROVE QueueInv'
  <2>1. UNCHANGED <<messages, sent, seen, purged, strayed>> /\ weekOld' \in Nat /\ weekOld <= weekOld'
    BY <1>0, <1>8 DEF Tick, strays
  <2>2. QED
    BY <2>1, QueueKept
<1>9. ASSUME NEW h \in Handlers, NEW key \in Keys, SendLookup(h, key) \/ FetchLookup(h, key) PROVE QueueInv'
  BY <1>7, <1>9 DEF SendLookup, FetchLookup, LookupUser, clock, strays
<1>10. ASSUME NEW key \in Keys, CreateUser(key) PROVE QueueInv'
  BY <1>7, <1>10 DEF CreateUser, clock, strays
<1>11. ASSUME TimerFires \/ UpdateStorageUsage PROVE QueueInv'
  BY <1>7, <1>11 DEF TimerFires, UpdateStorageUsage, clock, strays
<1>12. CASE UNCHANGED vars
  BY <1>7, <1>12 DEF vars
<1>13. QED
  BY <1>1, <1>2, <1>3, <1>4, <1>5, <1>6, <1>8, <1>9, <1>10, <1>11, <1>12
     DEF Next, Handle, Cleanup

\* As long as clients acknowledge only messages that are still there, a message the
\* API has accepted is pending, or the client it was sent to has fetched it, or it
\* has expired or gone with its account; those a request that outlived its account
\* has handled are the exception.
THEOREM NothingGetsLost == ~LateAcks => (Spec => []NothingLost)
<1> SUFFICES ASSUME ~LateAcks PROVE Spec => []NothingLost
  OBVIOUS
<1>1. Init => QueueInv
  BY NoRows DEF Init, QueueInv, DeliveredIsFetched, Accounted
<1>2. IInv /\ OwnInv /\ QueueInv /\ [Next]_vars => QueueInv'
  BY QueueNext
<1>3. QueueInv => NothingLost
  BY DEF QueueInv, Accounted, Waiting, Fetched, NothingLost
<1>4. QED
  BY <1>1, <1>2, <1>3, InvHolds, OwnHolds, PTL DEF Spec

===============================================================================
