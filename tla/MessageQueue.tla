----------------------------- MODULE MessageQueue -----------------------------
(***************************************************************************)
(* The store-and-forward queue for encrypted messages: the API handlers    *)
(* that send, fetch and acknowledge (internal/api/api.go), the accounts    *)
(* they look up, and the periodic cleanup (internal/cleanup/cleanup.go).   *)
(*                                                                         *)
(* The database has one connection, so a statement is atomic; a handler    *)
(* and a run of the cleanup are several statements, and other handlers'    *)
(* statements come in between.                                             *)
(*                                                                         *)
(* Time is what has become old: messages 1..hourOld were created more than *)
(* an hour ago, messages 1..weekOld are past their expires_at.             *)
(***************************************************************************)
EXTENDS Naturals, FiniteSets, Tables, Functions

CONSTANTS Keys,       \* public keys of the users
          Handlers,   \* API handlers at work at the same time
          MaxMsgs,    \* bound: messages queued
          MaxTicks,   \* bound: times the clock advances by an hour or more
          LateAcks,   \* may a client acknowledge a message that is gone?
          MaxUid      \* bound: the largest user id given out

ASSUME QueueBounds   == MaxMsgs \in Nat /\ MaxTicks \in Nat /\ MaxUid \in Nat
ASSUME AckSwitch     == LateAcks \in BOOLEAN
ASSUME KeysAreFinite == IsFiniteSet(Keys)

VARIABLES
  users,     \* the users table: the key of each user id
  messages,  \* the messages table
  usage,     \* the storage_usage table, by user id: pending messages
  op,        \* what each handler is in the middle of
  cleaner,   \* the statement the cleanup loop runs next
  sent,      \* messages queued so far; n tells a message from the others
  seen,      \* what each client has fetched: message numbers and their ids
  purged,    \* messages that went with the account of their recipient
  stale,     \* handlers whose account was deleted after they looked it up
  strayed,   \* messages such a handler has queued or fetched
  hourOld, weekOld, ticks

vars == <<users, messages, usage, op, cleaner, sent, seen, purged, stale, strayed,
          hourOld, weekOld, ticks>>
clock == <<hourOld, weekOld, ticks>>
strays == <<stale, strayed>>

Numbers == 1..MaxMsgs

\* n numbers the message and to is the key its sender named; the table holds
\* neither.
Row == [n : Numbers, to : Keys, recipient : Nat, delivered : BOOLEAN]

\* What a client knows of a message it has fetched.
Mail == [n : Numbers, to : Keys, id : Nat]

Idle == [at |-> "idle"]
Op == [at : {"idle"}] \cup [at : {"insert", "select"}, key : Keys, uid : Nat]

TypeOK == /\ DOMAIN users \subseteq Nat
          /\ \A id \in DOMAIN users : users[id] \in Keys
          /\ DOMAIN messages \subseteq Nat
          /\ \A id \in DOMAIN messages : messages[id] \in Row
          /\ DOMAIN usage \subseteq Nat
          /\ \A uid \in DOMAIN usage : usage[uid] \in Nat
          /\ op \in [Handlers -> Op]
          /\ cleaner \in {"wait", "expired", "delivered", "storage"}
          /\ sent \in 0..MaxMsgs
          /\ seen \in [Keys -> SUBSET Mail]
          /\ purged \subseteq Numbers /\ strayed \subseteq Numbers
          /\ stale \subseteq Handlers
          /\ weekOld \in 0..hourOld /\ hourOld \in 0..sent /\ ticks \in 0..MaxTicks

Init == /\ users \in {t \in [1..Cardinality(Keys) -> Keys] : Range(t) = Keys}
        /\ messages = EmptyTable
        /\ usage = EmptyTable
        /\ op = [h \in Handlers |-> Idle]
        /\ cleaner = "expired"    \* the loop runs once at once
        /\ sent = 0
        /\ seen = [k \in Keys |-> {}]
        /\ purged = {} /\ stale = {} /\ strayed = {}
        /\ hourOld = 0 /\ weekOld = 0 /\ ticks = 0

(***************************************************************************)
(* Sending and fetching.                                                   *)
(***************************************************************************)

\* SELECT id FROM users WHERE public_key = key, the first statement of
\* handleSendMessage and of handleGetMessages.  An unknown key is a 404.
LookupUser(h, key, next) ==
  /\ op[h] = Idle
  /\ \E uid \in DOMAIN users :
       /\ users[uid] = key
       /\ op' = [op EXCEPT ![h] = [at |-> next, key |-> key, uid |-> uid]]
  /\ UNCHANGED <<users, messages, usage, cleaner, sent, seen, purged, strays, clock>>

SendLookup(h, key) == /\ sent + Cardinality({g \in Handlers : op[g].at = "insert"}) < MaxMsgs
                      /\ LookupUser(h, key, "insert")
FetchLookup(h, key) == LookupUser(h, key, "select")

\* Mutant: PRAGMA foreign_keys left at its default.
NoForeignKeys(uid) == TRUE

\* PRAGMA foreign_keys = ON: a message refers to an account that exists.
ForeignKey(uid) == uid \in DOMAIN users

\* INSERT INTO messages.  Once the account is gone the foreign key fails it and
\* the sender gets an error.
SendInsert(h) ==
  /\ op[h].at = "insert"
  /\ IF ForeignKey(op[h].uid)
     THEN /\ sent' = sent + 1
          /\ messages' = InsertRow(messages, [n |-> sent + 1, to |-> op[h].key,
                                             recipient |-> op[h].uid, delivered |-> FALSE])
          /\ strayed' = strayed \cup {n \in {sent + 1} : h \in stale}
     ELSE UNCHANGED <<sent, messages, strayed>>
  /\ stale' = stale \ {h}
  /\ op' = [op EXCEPT ![h] = Idle]
  /\ UNCHANGED <<users, usage, cleaner, seen, purged, clock>>

Pending(uid) == RowsWhere(messages, LAMBDA row : row.recipient = uid /\ ~row.delivered)

\* SELECT FROM messages WHERE recipient_id = uid AND delivered = 0.  (A response
\* that is lost is a fetch the client has not made.)
FetchSelect(h) ==
  /\ op[h].at = "select"
  /\ seen' = [seen EXCEPT ![op[h].key] =
                @ \cup {[n |-> messages[id].n, to |-> messages[id].to, id |-> id] :
                         id \in Pending(op[h].uid)}]
  /\ strayed' = strayed \cup {n \in {messages[id].n : id \in Pending(op[h].uid)} : h \in stale}
  /\ stale' = stale \ {h}
  /\ op' = [op EXCEPT ![h] = Idle]
  /\ UNCHANGED <<users, messages, usage, cleaner, sent, purged, clock>>

\* handleMarkDelivered, one UPDATE by id.  A client acknowledges what it has
\* fetched, perhaps more than once, and perhaps late.
MarkDelivered(key, m) ==
  /\ m \in seen[key]
  /\ m.id \in DOMAIN messages
  /\ ~messages[m.id].delivered
  /\ LateAcks \/ messages[m.id].n = m.n
  /\ messages' = [messages EXCEPT ![m.id].delivered = TRUE]
  /\ UNCHANGED <<users, usage, op, cleaner, sent, seen, purged, strays, clock>>

(***************************************************************************)
(* Accounts.                                                               *)
(***************************************************************************)

\* Mutant: the messages table without ON DELETE CASCADE.
NoCascade(uid) == {}

\* ON DELETE CASCADE: the rows of the messages table that go with an account.
Cascade(uid) == RowsWhere(messages, LAMBDA row : row.recipient = uid)

\* Mutant: the storage_usage table without ON DELETE CASCADE.
KeepUsage(uid) == usage

UsageWithout(uid) == DeleteRows(usage, {uid})

\* handleDeleteUser, and the rows the foreign keys take along.
DeleteUser(uid) ==
  /\ uid \in DOMAIN users
  /\ users' = DeleteRows(users, {uid})
  /\ messages' = DeleteRows(messages, Cascade(uid))
  /\ usage' = UsageWithout(uid)
  /\ purged' = purged \cup {messages[id].n : id \in Cascade(uid)}
  /\ stale' = stale \cup {h \in Handlers : op[h] # Idle /\ op[h].uid = uid}
  /\ UNCHANGED <<op, cleaner, sent, seen, strayed, clock>>

\* handleCreateUser: public_key is UNIQUE.
CreateUser(key) == /\ NextRowid(users) <= MaxUid
                   /\ key \notin Range(users)
                   /\ users' = InsertRow(users, key)
                   /\ UNCHANGED <<messages, usage, op, cleaner, sent, seen, purged, strays, clock>>

(***************************************************************************)
(* The cleanup loop.  (pruneOldCallLogs, its third statement, is Prune of  *)
(* CallTracking.)                                                          *)
(***************************************************************************)

Expired == RowsWhere(messages, LAMBDA row : row.n <= weekOld)

\* Mutant: delete by age alone.
OldEnough == RowsWhere(messages, LAMBDA row : row.n <= hourOld)

\* The age of a delivered message is counted from created_at.
DeliveredOld == RowsWhere(messages, LAMBDA row : row.delivered /\ row.n <= hourOld)

\* The timer fires.
TimerFires == /\ cleaner = "wait"
              /\ cleaner' = "expired"
              /\ UNCHANGED <<users, messages, usage, op, sent, seen, purged, strays, clock>>

CleanExpired == /\ cleaner = "expired"
                /\ messages' = DeleteRows(messages, Expired)
                /\ cleaner' = "delivered"
                /\ UNCHANGED <<users, usage, op, sent, seen, purged, strays, clock>>

CleanDelivered == /\ cleaner = "delivered"
                  /\ messages' = DeleteRows(messages, DeliveredOld)
                  /\ cleaner' = "storage"
                  /\ UNCHANGED <<users, usage, op, sent, seen, purged, strays, clock>>

\* The upsert of storage_usage: SELECT .. WHERE delivered = 0 GROUP BY
\* recipient_id has no group for a user without pending messages.
Recipients == {messages[id].recipient : id \in RowsWhere(messages, LAMBDA row : ~row.delivered)}

UpdateStorageUsage ==
  /\ cleaner = "storage"
  /\ usage' = [uid \in DOMAIN usage \cup Recipients |->
                 IF uid \in Recipients THEN Cardinality(Pending(uid)) ELSE usage[uid]]
  /\ cleaner' = "wait"
  /\ UNCHANGED <<users, messages, op, sent, seen, purged, strays, clock>>

\* At least an hour passes: all that is there is now an hour old, and some of
\* it may have passed its expiry as well.
Tick == /\ ticks < MaxTicks
        /\ ticks' = ticks + 1
        /\ hourOld' = sent
        /\ weekOld' \in weekOld..sent
        /\ UNCHANGED <<users, messages, usage, op, cleaner, sent, seen, purged, strays>>

(***************************************************************************)
(* The specification.                                                      *)
(***************************************************************************)
Handle(h) == \/ \E key \in Keys : SendLookup(h, key) \/ FetchLookup(h, key)
             \/ SendInsert(h)
             \/ FetchSelect(h)

Cleanup == TimerFires \/ CleanExpired \/ CleanDelivered \/ UpdateStorageUsage

Next == \/ \E h \in Handlers : Handle(h)
        \/ \E key \in Keys : \E m \in seen[key] : MarkDelivered(key, m)
        \/ \E uid \in DOMAIN users : DeleteUser(uid)
        \/ \E key \in Keys : CreateUser(key)
        \/ Cleanup
        \/ Tick

Spec == Init /\ [][Next]_vars

(***************************************************************************)
(* Properties.                                                             *)
(***************************************************************************)

\* Storage is accounted to accounts that exist, although the cleanup sums it up
\* while accounts are being deleted (db.go:214).
TypeInv == TypeOK /\ DOMAIN usage \subseteq DOMAIN users

\* The client with the key the message was sent to has fetched it.
Fetched(n) == \E key \in Keys : \E m \in seen[key] : m.n = n /\ m.to = key

\* A message the API has accepted is still pending, or the client it was sent to
\* has fetched it, or its time has run out, or the account it was queued for is
\* gone: "relay queue -- encrypted, deleted after delivery" (api.go:402).  With
\* LateAcks a retried acknowledgement can hit another message that has been
\* given the id, and that message is deleted though nobody has fetched it.
\* Strayed messages are excepted: a send or a fetch whose account is deleted
\* between its two statements goes on with the id, which may by then be another
\* account's (api.go:424-431, 450-455).
NothingLost ==
  \A n \in 1..sent :
    \/ n <= weekOld
    \/ n \in purged
    \/ \E id \in DOMAIN messages : messages[id].n = n /\ ~messages[id].delivered
    \/ Fetched(n)
    \/ n \in strayed

\* A client finds in its queue only what was sent to its key, although the queue is
\* held by user id and the id of a deleted account goes to the next one: what is
\* fetched by another than it was sent to has strayed (api.go:445-460, db.go:35-37,
\* 101).
MailIsOwn == \A key \in Keys : \A m \in seen[key] : m.to = key \/ m.n \in strayed

\* The id of a deleted account goes to the next one that is created, and what was
\* queued for the old account does not: whoever gets the id finds no mail and no
\* storage accounted to it (db.go:35-37, 101, 214).
NewAccountsAreEmpty ==
  [][\A uid \in DOMAIN users' \ DOMAIN users :
       uid \notin DOMAIN usage /\ \A id \in DOMAIN messages : messages[id].recipient # uid]_vars

===============================================================================
