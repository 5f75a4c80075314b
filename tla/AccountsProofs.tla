---------------------------- MODULE AccountsProofs ----------------------------
(***************************************************************************)
(* Theorems about Accounts for any sets of keys, profile names, runs of    *)
(* `register` and requests.                                                *)
(***************************************************************************)
EXTENDS Accounts, TablesProofs

USE NoneIsNoProfile, IdsAreNotZero

(***************************************************************************)
(* Types.                                                                  *)
(***************************************************************************)
TypeInd == TypeOK /\ IsTable(users) /\ IsTable(devices) /\ IsTable(contacts)

LEMMA TypeInit == Init => TypeInd
<1> SUFFICES ASSUME Init PROVE TypeInd
  OBVIOUS
<1>1. /\ IsTable(users) /\ IsTable(devices) /\ IsTable(contacts)
      /\ DOMAIN users = {} /\ DOMAIN devices = {} /\ DOMAIN contacts = {}
  BY NoRows DEF Init
<1>2. profile \in [Names -> [key : Keys, id : Nat] \cup {None}]
  BY DEF Init
<1>3. cmd \in [Commands -> Command] /\ req \in [Procs -> Request]
  BY DEF Init, Command, Request, Idle
<1>4. used \subseteq Keys /\ overtaken \subseteq Keys
  BY DEF Init
<1>5. QED
  BY <1>1, <1>2, <1>3, <1>4 DEF TypeInd, TypeOK

\* A row added to a table of rows of a kind gives a table of rows of that kind.
LEMMA TypedInsert ==
  ASSUME NEW table, NEW Kind, NEW row \in Kind, IsTable(table),
         \A id \in DOMAIN table : id \in Nat /\ table[id] \in Kind
  PROVE  /\ IsTable(InsertRow(table, row))
         /\ \A id \in DOMAIN InsertRow(table, row) : id \in Nat /\ InsertRow(table, row)[id] \in Kind
<1> DEFINE new == InsertRow(table, row)
<1>1. /\ IsTable(new) /\ DOMAIN new = DOMAIN table \cup {NextRowid(table)}
      /\ \A id \in DOMAIN table : new[id] = table[id]
      /\ new[NextRowid(table)] = row
  BY InsertedRow
<1>2. NextRowid(table) \in Nat
  BY NextRowidIsFresh
<1> HIDE DEF new
<1>3. IsTable(new) /\ \A id \in DOMAIN new : id \in Nat /\ new[id] \in Kind
  BY <1>1, <1>2
<1>4. QED
  BY <1>3 DEF new

LEMMA TypedDelete ==
  ASSUME NEW table, NEW Kind, NEW ids, IsTable(table),
         \A id \in DOMAIN table : id \in Nat /\ table[id] \in Kind
  PROVE  /\ IsTable(DeleteRows(table, ids))
         /\ \A id \in DOMAIN DeleteRows(table, ids) : id \in Nat /\ DeleteRows(table, ids)[id] \in Kind
<1> DEFINE rest == DeleteRows(table, ids)
<1>1. /\ IsTable(rest) /\ DOMAIN rest = DOMAIN table \ ids
      /\ \A id \in DOMAIN table \ ids : rest[id] = table[id]
  BY DeletedRows
<1> HIDE DEF rest
<1>2. IsTable(rest) /\ \A id \in DOMAIN rest : id \in Nat /\ rest[id] \in Kind
  BY <1>1
<1>3. QED
  BY <1>2 DEF rest

\* The clients: their commands and the profiles.
LEMMA TypeRegister ==
  ASSUME TypeInd, NEW c \in Commands, Register(c)
  PROVE  TypeInd'
<1>1. ASSUME NEW n \in Names, NEW k \in Keys, Generate(c, n, k) PROVE TypeInd'
  <2>1. cmd' \in [Commands -> Command]
    BY <1>1 DEF Generate, TypeInd, TypeOK, Command
  <2>2. QED
    BY <1>1, <2>1 DEF Generate, TypeInd, TypeOK
<1>2. ASSUME CreateUser(c) PROVE TypeInd'
  <2> DEFINE row == [key |-> cmd[c].key, seenBy |-> {}]
  <2>1. cmd[c].key \in Keys /\ cmd[c].name \in Names
    BY <1>2 DEF CreateUser, TypeInd, TypeOK, Command
  <2>2. row \in User
    BY <2>1 DEF User
  <2>3. AnsweredId \in Nat
    BY NextRowidIsFresh DEF AnsweredId, TypeInd
  <2>4. cmd' \in [Commands -> Command]
    BY <1>2, <2>1, <2>3 DEF CreateUser, TypeInd, TypeOK, Command, Idle
  <2>5. users' = InsertRow(users, row)
    BY <1>2 DEF CreateUser
  <2>6. /\ IsTable(InsertRow(users, row))
        /\ \A id \in DOMAIN InsertRow(users, row) : id \in Nat /\ InsertRow(users, row)[id] \in User
    <3> HIDE DEF row
    <3> QED
      BY <2>2, TypedInsert DEF TypeInd, TypeOK
  <2> HIDE DEF row
  <2>7. QED
    BY <1>2, <2>4, <2>5, <2>6 DEF CreateUser, TypeInd, TypeOK
<1>3. ASSUME SaveProfile(c) PROVE TypeInd'
  <2>1. cmd[c].key \in Keys /\ cmd[c].name \in Names /\ cmd[c].id \in Nat
    BY <1>3 DEF SaveProfile, TypeInd, TypeOK, Command
  <2>2. cmd' \in [Commands -> Command]
    BY <1>3 DEF SaveProfile, TypeInd, TypeOK, Command, Idle
  <2>3. profile' \in [Names -> [key : Keys, id : Nat] \cup {None}]
    BY <1>3, <2>1 DEF SaveProfile, TypeInd, TypeOK
  <2>4. QED
    BY <1>3, <2>2, <2>3 DEF SaveProfile, TypeInd, TypeOK
<1>4. ASSUME GiveUp(c) PROVE TypeInd'
  <2>1. cmd' \in [Commands -> Command]
    BY <1>4 DEF GiveUp, TypeInd, TypeOK, Command, Idle
  <2>2. QED
    BY <1>4, <2>1 DEF GiveUp, TypeInd, TypeOK
<1>5. QED
  BY <1>1, <1>2, <1>3, <1>4 DEF Register

\* What a request is, while the middleware has it.
LEMMA RequestType ==
  ASSUME TypeInd, NEW p \in Procs, req[p].at = "seen"
  PROVE  req[p].key \in Keys /\ req[p].uid \in Nat
BY DEF TypeInd, TypeOK, Request

LEMMA HandledType ==
  ASSUME TypeInd, NEW p \in Procs, Handle(p)
  PROVE  req' \in [Procs -> Request]
BY DEF TypeInd, TypeOK, Handle, Request, Idle

\* The requests.
LEMMA TypeServe ==
  ASSUME TypeInd, NEW p \in Procs, Serve(p)
  PROVE  TypeInd'
<1>1. ASSUME NEW k \in Keys, Authenticate(p, k) PROVE TypeInd'
  <2>1. PICK uid \in AccountsOf(k) : req' = [req EXCEPT ![p] = [at |-> "seen", key |-> k, uid |-> uid]]
    BY <1>1 DEF Authenticate
  <2>2. uid \in Nat
    BY DEF AccountsOf, TypeInd, TypeOK
  <2>3. req' \in [Procs -> Request]
    BY <2>1, <2>2 DEF TypeInd, TypeOK, Request
  <2>4. QED
    BY <1>1, <2>3 DEF Authenticate, TypeInd, TypeOK
<1>2. ASSUME TouchLastSeen(p) PROVE TypeInd'
  <2>1. req[p].key \in Keys
    BY <1>2, RequestType DEF TouchLastSeen
  <2>2. req' \in [Procs -> Request]
    BY <1>2 DEF TouchLastSeen, TypeInd, TypeOK, Request
  <2>3. DOMAIN users' = DOMAIN users /\ \A id \in DOMAIN users : users'[id] \in User
    BY <1>2, <2>1 DEF TouchLastSeen, TypeInd, TypeOK, User
  <2>4. IsTable(users')
    BY <2>3, SameIds DEF TypeInd
  <2>5. QED
    BY <1>2, <2>2, <2>3, <2>4 DEF TouchLastSeen, TypeInd, TypeOK
<1>3. ASSUME NEW uid \in Ids, NEW d \in DeviceKeys, RegisterDevice(p, uid, d) PROVE TypeInd'
  <2> DEFINE row == [owner |-> uid, device |-> d, of |-> users[uid].key]
  <2>1. uid \in DOMAIN users => row \in Device
    BY DEF TypeInd, TypeOK, User, Device
  <2>2. uid \in DOMAIN users =>
        /\ IsTable(InsertRow(devices, row))
        /\ \A id \in DOMAIN InsertRow(devices, row) : id \in Nat /\ InsertRow(devices, row)[id] \in Device
    <3> HIDE DEF row
    <3> QED
      BY <2>1, TypedInsert DEF TypeInd, TypeOK
  <2>3. \/ DOMAIN devices' = DOMAIN devices /\ \A id \in DOMAIN devices : devices'[id] = devices[id]
        \/ uid \in DOMAIN users /\ devices' = InsertRow(devices, row)
    BY <1>3 DEF RegisterDevice, Upserted, ForeignKey
  <2> HIDE DEF row
  <2>4. IsTable(devices') /\ \A id \in DOMAIN devices' : id \in Nat /\ devices'[id] \in Device
    BY <2>2, <2>3, SameIds DEF TypeInd, TypeOK
  <2>5. QED
    BY <1>3, <2>4, HandledType DEF RegisterDevice, TypeInd, TypeOK
<1>4. ASSUME NEW uid \in Ids, NEW k \in ContactKeys, AddContact(p, uid, k) PROVE TypeInd'
  <2> DEFINE row == [owner |-> uid, contact |-> k, blocked |-> FALSE, of |-> users[uid].key]
  <2>1. uid \in DOMAIN users => row \in Contact
    BY DEF TypeInd, TypeOK, User, Contact
  <2>2. uid \in DOMAIN users =>
        /\ IsTable(InsertRow(contacts, row))
        /\ \A id \in DOMAIN InsertRow(contacts, row) : id \in Nat /\ InsertRow(contacts, row)[id] \in Contact
    <3> HIDE DEF row
    <3> QED
      BY <2>1, TypedInsert DEF TypeInd, TypeOK
  <2>3. contacts' = contacts \/ (uid \in DOMAIN users /\ contacts' = InsertRow(contacts, row))
    BY <1>4 DEF AddContact, ForeignKey
  <2> HIDE DEF row
  <2>4. IsTable(contacts') /\ \A id \in DOMAIN contacts' : id \in Nat /\ contacts'[id] \in Contact
    BY <2>2, <2>3 DEF TypeInd, TypeOK
  <2>5. QED
    BY <1>4, <2>4, HandledType DEF AddContact, TypeInd, TypeOK
<1>5. ASSUME NEW id \in DOMAIN devices, DeleteDevice(p, id) PROVE TypeInd'
  <2>1. devices' = DeleteRows(devices, {id})
    BY <1>5 DEF DeleteDevice
  <2>2. IsTable(devices') /\ \A i \in DOMAIN devices' : i \in Nat /\ devices'[i] \in Device
    BY <2>1, TypedDelete DEF TypeInd, TypeOK
  <2>3. QED
    BY <1>5, <2>2, HandledType DEF DeleteDevice, TypeInd, TypeOK
<1>6. ASSUME NEW id \in DOMAIN contacts, DeleteContact(p, id) PROVE TypeInd'
  <2>1. contacts' = DeleteRows(contacts, {id})
    BY <1>6 DEF DeleteContact
  <2>2. IsTable(contacts') /\ \A i \in DOMAIN contacts' : i \in Nat /\ contacts'[i] \in Contact
    BY <2>1, TypedDelete DEF TypeInd, TypeOK
  <2>3. QED
    BY <1>6, <2>2, HandledType DEF DeleteContact, TypeInd, TypeOK
<1>7. ASSUME NEW id \in DOMAIN contacts, NEW blocked \in BOOLEAN, BlockContact(p, id, blocked)
      PROVE  TypeInd'
  <2>1. contacts' = [contacts EXCEPT ![id].blocked = blocked]
    BY <1>7 DEF BlockContact
  <2>2. DOMAIN contacts' = DOMAIN contacts /\ \A i \in DOMAIN contacts : contacts'[i] \in Contact
    BY <2>1 DEF TypeInd, TypeOK, Contact
  <2>3. IsTable(contacts')
    BY <2>2, SameIds DEF TypeInd
  <2>4. QED
    BY <1>7, <2>2, <2>3, HandledType DEF BlockContact, TypeInd, TypeOK
<1>8. ASSUME NEW id \in DOMAIN users, DeleteUser(p, id) PROVE TypeInd'
  <2>1. users' = DeleteRows(users, {id})
    BY <1>8 DEF DeleteUser
  <2>2. IsTable(users') /\ \A i \in DOMAIN users' : i \in Nat /\ users'[i] \in User
    BY <2>1, TypedDelete DEF TypeInd, TypeOK
  <2>3. IsTable(devices') /\ \A i \in DOMAIN devices' : i \in Nat /\ devices'[i] \in Device
    BY <1>8, TypedDelete DEF DeleteUser, Cascade, TypeInd, TypeOK
  <2>4. IsTable(contacts') /\ \A i \in DOMAIN contacts' : i \in Nat /\ contacts'[i] \in Contact
    BY <1>8, TypedDelete DEF DeleteUser, Cascade, TypeInd, TypeOK
  <2>5. overtaken' \subseteq Keys
    BY <1>8 DEF DeleteUser, TypeInd, TypeOK, User
  <2>6. req' \in [Procs -> Request] /\ UNCHANGED <<profile, used, cmd>>
    BY <1>8, HandledType DEF DeleteUser
  <2>7. QED
    BY <2>2, <2>3, <2>4, <2>5, <2>6 DEF TypeInd, TypeOK
<1>9. ASSUME UpdateUser(p) \/ ReadOnly(p) PROVE TypeInd'
  BY <1>9, HandledType DEF UpdateUser, ReadOnly, TypeInd, TypeOK
<1>10. QED
  BY <1>1, <1>2, <1>3, <1>4, <1>5, <1>6, <1>7, <1>8, <1>9 DEF Serve

LEMMA TypeNext == TypeInd /\ [Next]_vars => TypeInd'
<1> SUFFICES ASSUME TypeInd, [Next]_vars PROVE TypeInd'
  OBVIOUS
<1>1. ASSUME NEW n \in Names, RemoveProfile(n) PROVE TypeInd'
  <2>1. profile' \in [Names -> [key : Keys, id : Nat] \cup {None}]
    BY <1>1 DEF RemoveProfile, TypeInd, TypeOK
  <2>2. QED
    BY <1>1, <2>1 DEF RemoveProfile, TypeInd, TypeOK
<1>2. CASE UNCHANGED vars
  BY <1>2 DEF vars, TypeInd, TypeOK
<1>3. QED
  BY <1>1, <1>2, TypeRegister, TypeServe DEF Next

(***************************************************************************)
(* Keys and the ids that go with them.                                     *)
(***************************************************************************)

\* Whoever has key k has it with this id: the account of k has no other.
Named(k, id) == \A i \in DOMAIN users : users[i].key = k => i = id

\* A run of `register` that has not sent its key is alone in knowing it.
Unclaimed(c) ==
  /\ \A i \in DOMAIN users : users[i].key # cmd[c].key
  /\ \A n \in Names : profile[n] # None => profile[n].key # cmd[c].key
  /\ \A d \in Commands : cmd[d].at # "idle" /\ d # c => cmd[d].key # cmd[c].key

KeysAreUsed ==
  /\ \A i \in DOMAIN users : users[i].key \in used
  /\ \A n \in Names : profile[n] # None => profile[n].key \in used
  /\ \A c \in Commands : cmd[c].at # "idle" => cmd[c].key \in used

KeysAreNamed ==
  /\ \A i, j \in DOMAIN users : users[i].key = users[j].key => i = j
  /\ \A n \in Names : profile[n] # None => Named(profile[n].key, profile[n].id)
  /\ \A c \in Commands : cmd[c].at = "save" => Named(cmd[c].key, cmd[c].id)

NewKeysAreUnclaimed == \A c \in Commands : cmd[c].at = "post" => Unclaimed(c)

KeysInv == KeysAreUsed /\ KeysAreNamed /\ NewKeysAreUnclaimed

LEMMA KeysInit == Init => KeysInv
<1> SUFFICES ASSUME Init PROVE KeysInv
  OBVIOUS
<1>1. /\ DOMAIN users = {} /\ \A n \in Names : profile[n] = None
      /\ \A c \in Commands : cmd[c].at = "idle"
  BY NoRows DEF Init, Idle
<1>2. QED
  BY <1>1 DEF KeysInv, KeysAreUsed, KeysAreNamed, NewKeysAreUnclaimed

\* No new account, profile or command appears.
NothingNew ==
  /\ DOMAIN users' \subseteq DOMAIN users
  /\ \A i \in DOMAIN users' : users'[i].key = users[i].key
  /\ \A n \in Names : profile'[n] # None => profile'[n] = profile[n]
  /\ \A c \in Commands : cmd'[c].at # "idle" => cmd'[c] = cmd[c]
  /\ used' = used

LEMMA NothingNewKeepsKeys == KeysInv /\ NothingNew => KeysInv'
<1> SUFFICES ASSUME KeysInv, NothingNew PROVE KeysInv'
  OBVIOUS
<1>1. KeysAreUsed'
  BY DEF KeysInv, KeysAreUsed, NothingNew
<1>2. KeysAreNamed'
  BY DEF KeysInv, KeysAreNamed, Named, NothingNew
<1>3. NewKeysAreUnclaimed'
  BY DEF KeysInv, NewKeysAreUnclaimed, Unclaimed, NothingNew
<1>4. QED
  BY <1>1, <1>2, <1>3 DEF KeysInv

\* A request changes no key.
LEMMA ServingIsNothingNew ==
  ASSUME TypeInd, NEW p \in Procs, Serve(p)
  PROVE  NothingNew
<1>1. CASE UNCHANGED <<users, profile, used, cmd>>
  BY <1>1 DEF NothingNew
<1>2. ASSUME TouchLastSeen(p) PROVE NothingNew
  BY <1>2 DEF TouchLastSeen, NothingNew, TypeInd, TypeOK, User
<1>3. ASSUME NEW id \in DOMAIN users, DeleteUser(p, id) PROVE NothingNew
  <2>1. users' = DeleteRows(users, {id}) /\ IsTable(users) /\ UNCHANGED <<profile, used, cmd>>
    BY <1>3 DEF DeleteUser, TypeInd
  <2>2. /\ DOMAIN DeleteRows(users, {id}) = DOMAIN users \ {id}
        /\ \A i \in DOMAIN users \ {id} : DeleteRows(users, {id})[i] = users[i]
    BY <2>1, DeletedRows
  <2>3. QED
    BY <2>1, <2>2 DEF NothingNew
<1>4. QED
  BY <1>1, <1>2, <1>3 DEF Serve, Authenticate, RegisterDevice, AddContact, DeleteDevice,
                          DeleteContact, BlockContact, UpdateUser, ReadOnly

\* The row of a new account.
LEMMA NewAccount ==
  ASSUME TypeInd, NEW c \in Commands, CreateUser(c)
  PROVE  /\ DOMAIN users' = DOMAIN users \cup {AnsweredId}
         /\ AnsweredId \notin DOMAIN users
         /\ \A i \in DOMAIN users : users'[i] = users[i]
         /\ users'[AnsweredId] = [key |-> cmd[c].key, seenBy |-> {}]
<1> DEFINE row == [key |-> cmd[c].key, seenBy |-> {}]
<1>1. users' = InsertRow(users, row)
  BY DEF CreateUser
<1>2. AnsweredId \notin DOMAIN users
  BY NextRowidIsFresh DEF TypeInd, AnsweredId
<1>3. /\ DOMAIN InsertRow(users, row) = DOMAIN users \cup {AnsweredId}
      /\ \A i \in DOMAIN users : InsertRow(users, row)[i] = users[i]
      /\ InsertRow(users, row)[AnsweredId] = row
  <2> HIDE DEF row
  <2>1. IsTable(users)
    BY DEF TypeInd
  <2>2. /\ DOMAIN InsertRow(users, row) = DOMAIN users \cup {NextRowid(users)}
        /\ \A i \in DOMAIN users : InsertRow(users, row)[i] = users[i]
        /\ InsertRow(users, row)[NextRowid(users)] = row
    BY <2>1, InsertedRow
  <2>3. QED
    BY <2>2 DEF AnsweredId
<1>4. QED
  BY <1>1, <1>2, <1>3

LEMMA KeysNext == TypeInd /\ KeysInv /\ [Next]_vars => KeysInv'
<1> SUFFICES ASSUME TypeInd, KeysInv, [Next]_vars PROVE KeysInv'
  OBVIOUS
<1>0. /\ cmd \in [Commands -> Command]
      /\ profile \in [Names -> [key : Keys, id : Nat] \cup {None}]
  BY DEF TypeInd, TypeOK
<1> USE DEF KeysInv, KeysAreUsed, KeysAreNamed, NewKeysAreUnclaimed
<1>1. ASSUME NEW c \in Commands, NEW n \in Names, NEW k \in Keys, Generate(c, n, k)
      PROVE  KeysInv'
  <2>1. /\ cmd'[c].at = "post" /\ cmd'[c].key = k /\ k \notin used /\ used' = used \cup {k}
        /\ \A d \in Commands : d # c => cmd'[d] = cmd[d]
        /\ UNCHANGED <<users, profile>>
    BY <1>0, <1>1 DEF Generate
  <2>2. KeysAreUsed'
    BY <2>1
  <2>3. KeysAreNamed'
    BY <2>1 DEF Named
  <2>4. NewKeysAreUnclaimed'
    BY <2>1 DEF Unclaimed
  <2>5. QED
    BY <2>2, <2>3, <2>4
<1>2. ASSUME NEW c \in Commands, CreateUser(c) PROVE KeysInv'
  <2>1. /\ DOMAIN users' = DOMAIN users \cup {AnsweredId}
        /\ AnsweredId \notin DOMAIN users
        /\ \A i \in DOMAIN users : users'[i] = users[i]
        /\ users'[AnsweredId].key = cmd[c].key
    <3>1. /\ DOMAIN users' = DOMAIN users \cup {AnsweredId}
          /\ AnsweredId \notin DOMAIN users
          /\ \A i \in DOMAIN users : users'[i] = users[i]
          /\ users'[AnsweredId] = [key |-> cmd[c].key, seenBy |-> {}]
      BY <1>2, NewAccount
    <3>2. QED
      BY <3>1
  <2>2. cmd[c].at = "post" /\ Unclaimed(c) /\ cmd[c].key \in used
    BY <1>2 DEF CreateUser
  <2>3. /\ \A d \in Commands : d # c => cmd'[d] = cmd[d]
        /\ \/ cmd'[c].at = "idle"
           \/ cmd'[c].at = "save" /\ cmd'[c].key = cmd[c].key /\ cmd'[c].id = AnsweredId
        /\ UNCHANGED <<profile, used>>
    BY <1>0, <1>2 DEF CreateUser, Idle
  <2>4. KeysAreUsed'
    BY <2>1, <2>2, <2>3
  <2>5. KeysAreNamed'
    BY <2>1, <2>2, <2>3 DEF Named, Unclaimed
  <2>6. NewKeysAreUnclaimed'
    BY <2>1, <2>2, <2>3 DEF Unclaimed
  <2>7. QED
    BY <2>4, <2>5, <2>6
<1>3. ASSUME NEW c \in Commands, SaveProfile(c) PROVE KeysInv'
  <2>1. /\ cmd[c].at = "save" /\ cmd'[c].at = "idle"
        /\ \A d \in Commands : d # c => cmd'[d] = cmd[d]
        /\ profile'[cmd[c].name] = [key |-> cmd[c].key, id |-> cmd[c].id]
        /\ \A n \in Names : n # cmd[c].name => profile'[n] = profile[n]
        /\ UNCHANGED <<users, used>>
    BY <1>0, <1>3 DEF SaveProfile, Command, Idle
  <2>2. KeysAreUsed'
    BY <2>1
  <2>3. KeysAreNamed'
    BY <2>1 DEF Named
  <2>4. NewKeysAreUnclaimed'
    BY <2>1 DEF Unclaimed
  <2>5. QED
    BY <2>2, <2>3, <2>4
<1>5. ASSUME NEW c \in Commands, GiveUp(c) PROVE KeysInv'
  BY <1>0, <1>5, NothingNewKeepsKeys DEF GiveUp, NothingNew, Idle
<1>6. ASSUME NEW n \in Names, RemoveProfile(n) PROVE KeysInv'
  BY <1>0, <1>6, NothingNewKeepsKeys DEF RemoveProfile, NothingNew
<1>7. CASE UNCHANGED vars
  BY <1>7, NothingNewKeepsKeys DEF vars, NothingNew
<1>8. ASSUME NEW p \in Procs, Serve(p) PROVE KeysInv'
  BY <1>8, ServingIsNothingNew, NothingNewKeepsKeys
<1>9. QED
  BY <1>1, <1>2, <1>3, <1>5, <1>6, <1>7, <1>8 DEF Next, Register

\* A profile keeps the id of the account that has its key, for as long as that
\* account is there, however many runs of `register` create accounts at the same
\* time, lose their answers or are killed.
THEOREM ProfilesNameTheirAccounts == Spec => []ProfileNamesItsAccount
<1>1. KeysInv => ProfileNamesItsAccount
  BY DEF KeysInv, KeysAreNamed, Named, ProfileNamesItsAccount, AccountsOf
<1>2. QED
  BY <1>1, TypeInit, TypeNext, KeysInit, KeysNext, PTL DEF Spec

(***************************************************************************)
(* The rows of an account.                                                 *)
(***************************************************************************)
RowsAreOwned ==
  /\ \A i \in DOMAIN devices : devices[i].owner \in DOMAIN users
                                /\ users[devices[i].owner].key = devices[i].of
  /\ \A i \in DOMAIN contacts : contacts[i].owner \in DOMAIN users
                                 /\ users[contacts[i].owner].key = contacts[i].of

VisitsAreOwn ==
  \A i \in DOMAIN users : \A k \in users[i].seenBy : k = users[i].key \/ k \in overtaken

\* The middleware holds the account of the key, or the key has lost it under way.
RequestsAreOwn ==
  \A p \in Procs : req[p].at = "seen" =>
    \/ req[p].key \in overtaken
    \/ req[p].uid \in DOMAIN users /\ users[req[p].uid].key = req[p].key

RowsAreUnique ==
  /\ \A i, j \in DOMAIN devices : devices[i].device = devices[j].device => i = j
  /\ \A i, j \in DOMAIN contacts :
       contacts[i].owner = contacts[j].owner /\ contacts[i].contact = contacts[j].contact => i = j

RowsInv == RowsAreOwned /\ VisitsAreOwn /\ RequestsAreOwn /\ RowsAreUnique

LEMMA RowsInit == Init => RowsInv
<1> SUFFICES ASSUME Init PROVE RowsInv
  OBVIOUS
<1>1. /\ DOMAIN users = {} /\ DOMAIN devices = {} /\ DOMAIN contacts = {}
      /\ \A p \in Procs : req[p].at = "idle"
  BY NoRows DEF Init, Idle
<1>2. QED
  BY <1>1 DEF RowsInv, RowsAreOwned, VisitsAreOwn, RequestsAreOwn, RowsAreUnique

\* Accounts come, and those there are stay as they are.
LEMMA RowsKept ==
  ASSUME RowsInv, UNCHANGED <<devices, contacts, overtaken>>,
         \A i \in DOMAIN users : i \in DOMAIN users' /\ users'[i] = users[i],
         \A i \in DOMAIN users' \ DOMAIN users : users'[i].seenBy = {},
         req' = req
  PROVE  RowsInv'
<1>1. (RowsAreOwned /\ RowsAreUnique)'
  BY DEF RowsInv, RowsAreOwned, RowsAreUnique
<1>2. VisitsAreOwn'
  BY DEF RowsInv, VisitsAreOwn
<1>3. RequestsAreOwn'
  BY DEF RowsInv, RequestsAreOwn
<1>4. QED
  BY <1>1, <1>2, <1>3 DEF RowsInv

\* A handler that changes devices or contacts, and no account.
LEMMA RowsChanged ==
  ASSUME TypeInd, RowsInv, NEW p \in Procs, Handle(p), UNCHANGED <<users, overtaken>>,
         RowsAreOwned', RowsAreUnique'
  PROVE  RowsInv'
<1>1. \A q \in Procs : req'[q].at = "seen" => req'[q] = req[q]
  BY DEF TypeInd, TypeOK, Handle, Idle
<1>2. VisitsAreOwn' /\ RequestsAreOwn'
  BY <1>1 DEF RowsInv, VisitsAreOwn, RequestsAreOwn
<1>3. QED
  BY <1>2 DEF RowsInv

LEMMA RowsRegistered ==
  ASSUME TypeInd, RowsInv, NEW p \in Procs, NEW uid \in Ids, NEW d \in DeviceKeys,
         RegisterDevice(p, uid, d)
  PROVE  RowsInv'
<1> DEFINE row == [owner |-> uid, device |-> d, of |-> users[uid].key]
           new == InsertRow(devices, row)
<1>1. Handle(p) /\ UNCHANGED <<users, contacts, overtaken>>
  BY DEF RegisterDevice
<1>2. CASE DOMAIN devices' = DOMAIN devices /\ \A i \in DOMAIN devices : devices'[i] = devices[i]
  <2>1. RowsAreOwned' /\ RowsAreUnique'
    BY <1>1, <1>2 DEF RowsInv, RowsAreOwned, RowsAreUnique
  <2>2. QED
    BY <1>1, <2>1, RowsChanged
<1>3. CASE /\ devices' = new /\ uid \in DOMAIN users
           /\ \A i \in DOMAIN devices : devices[i].device # d
  <2>1. /\ DOMAIN new = DOMAIN devices \cup {NextRowid(devices)}
        /\ \A i \in DOMAIN devices : new[i] = devices[i]
        /\ new[NextRowid(devices)] = row
    <3> HIDE DEF row
    <3>1. IsTable(devices)
      BY DEF TypeInd
    <3>2. QED
      BY <3>1, InsertedRow
  <2>3. row.owner = uid /\ row.of = users[uid].key /\ row.device = d
    OBVIOUS
  <2>4. devices' = new
    BY <1>3
  <2> HIDE DEF new, row
  <2>5. RowsAreOwned'
    BY <1>1, <1>3, <2>1, <2>3, <2>4 DEF RowsInv, RowsAreOwned
  <2>6. RowsAreUnique'
    BY <1>1, <1>3, <2>1, <2>3, <2>4 DEF RowsInv, RowsAreUnique
  <2>7. QED
    BY <1>1, <2>5, <2>6, RowsChanged
<1>4. QED
  <2>1. CASE RowsWhere(devices, LAMBDA r : r.device = d) # {}
    BY <2>1, <1>2 DEF RegisterDevice, Upserted
  <2>2. CASE RowsWhere(devices, LAMBDA r : r.device = d) = {}
    <3>1. \A i \in DOMAIN devices : devices[i].device # d
      BY <2>2 DEF RowsWhere
    <3>2. QED
      BY <2>2, <3>1, <1>2, <1>3 DEF RegisterDevice, ForeignKey
  <2>3. QED
    BY <2>1, <2>2

LEMMA RowsAdded ==
  ASSUME TypeInd, RowsInv, NEW p \in Procs, NEW uid \in Ids, NEW k \in ContactKeys,
         AddContact(p, uid, k)
  PROVE  RowsInv'
<1> DEFINE row == [owner |-> uid, contact |-> k, blocked |-> FALSE, of |-> users[uid].key]
           new == InsertRow(contacts, row)
<1>1. Handle(p) /\ UNCHANGED <<users, devices, overtaken>>
  BY DEF AddContact
<1>2. CASE contacts' = contacts
  <2>1. RowsAreOwned' /\ RowsAreUnique'
    BY <1>1, <1>2 DEF RowsInv, RowsAreOwned, RowsAreUnique
  <2>2. QED
    BY <1>1, <2>1, RowsChanged
<1>3. CASE /\ contacts' = new /\ uid \in DOMAIN users
           /\ \A i \in DOMAIN contacts : ~(contacts[i].owner = uid /\ contacts[i].contact = k)
  <2>1. /\ DOMAIN new = DOMAIN contacts \cup {NextRowid(contacts)}
        /\ \A i \in DOMAIN contacts : new[i] = contacts[i]
        /\ new[NextRowid(contacts)] = row
    <3> HIDE DEF row
    <3>1. IsTable(contacts)
      BY DEF TypeInd
    <3>2. QED
      BY <3>1, InsertedRow
  <2>3. row.owner = uid /\ row.of = users[uid].key /\ row.contact = k
    OBVIOUS
  <2>4. contacts' = new
    BY <1>3
  <2> HIDE DEF new, row
  <2>5. RowsAreOwned'
    BY <1>1, <1>3, <2>1, <2>3, <2>4 DEF RowsInv, RowsAreOwned
  <2>6. RowsAreUnique'
    BY <1>1, <1>3, <2>1, <2>3, <2>4 DEF RowsInv, RowsAreUnique
  <2>7. QED
    BY <1>1, <2>5, <2>6, RowsChanged
<1>4. QED
  <2>1. CASE contacts' # contacts
    <3>1. /\ RowsWhere(contacts, LAMBDA r : r.owner = uid /\ r.contact = k) = {}
          /\ uid \in DOMAIN users /\ contacts' = new
      BY <2>1 DEF AddContact, ForeignKey
    <3>2. \A i \in DOMAIN contacts : ~(contacts[i].owner = uid /\ contacts[i].contact = k)
      BY <3>1 DEF RowsWhere
    <3>3. QED
      BY <3>1, <3>2, <1>3
  <2>2. QED
    BY <2>1, <1>2

\* The rows of a deleted account go with it.
LEMMA RowsCascade ==
  ASSUME TypeInd, RowsInv, NEW p \in Procs, NEW id \in DOMAIN users, DeleteUser(p, id)
  PROVE  RowsInv'
<1>1. /\ DOMAIN users' = DOMAIN users \ {id}
      /\ \A i \in DOMAIN users \ {id} : users'[i] = users[i]
  <2>1. users' = DeleteRows(users, {id}) /\ IsTable(users)
    BY DEF DeleteUser, TypeInd
  <2>2. /\ DOMAIN DeleteRows(users, {id}) = DOMAIN users \ {id}
        /\ \A i \in DOMAIN users \ {id} : DeleteRows(users, {id})[i] = users[i]
    BY <2>1, DeletedRows
  <2>3. QED
    BY <2>1, <2>2
<1>2. \A table : IsTable(table) =>
        /\ DOMAIN Cascade(table, id) \subseteq DOMAIN table
        /\ \A i \in DOMAIN Cascade(table, id) : /\ Cascade(table, id)[i] = table[i]
                                                /\ table[i].owner # id
  <2> SUFFICES ASSUME NEW table, IsTable(table)
               PROVE  /\ DOMAIN Cascade(table, id) \subseteq DOMAIN table
                      /\ \A i \in DOMAIN Cascade(table, id) : /\ Cascade(table, id)[i] = table[i]
                                                              /\ table[i].owner # id
    OBVIOUS
  <2> DEFINE gone == RowsWhere(table, LAMBDA r : r.owner = id)
  <2>1. \A i \in DOMAIN table : i \notin gone => table[i].owner # id
    BY DEF RowsWhere
  <2>2. Cascade(table, id) = DeleteRows(table, gone)
    BY DEF Cascade
  <2> HIDE DEF gone
  <2>3. /\ DOMAIN DeleteRows(table, gone) = DOMAIN table \ gone
        /\ \A i \in DOMAIN table \ gone : DeleteRows(table, gone)[i] = table[i]
    BY DeletedRows
  <2>4. QED
    BY <2>1, <2>2, <2>3
<1>3. /\ DOMAIN devices' \subseteq DOMAIN devices
      /\ \A i \in DOMAIN devices' : devices'[i] = devices[i] /\ devices[i].owner # id
  BY <1>2 DEF DeleteUser, TypeInd
<1>4. /\ DOMAIN contacts' \subseteq DOMAIN contacts
      /\ \A i \in DOMAIN contacts' : contacts'[i] = contacts[i] /\ contacts[i].owner # id
  BY <1>2 DEF DeleteUser, TypeInd
<1>5. /\ overtaken \subseteq overtaken'
      /\ \A q \in Procs : req[q].at = "seen" /\ req[q].key = users[id].key => req[q].key \in overtaken'
      /\ \A q \in Procs \ {p} : req'[q] = req[q]
      /\ req'[p].at = "idle"
  BY DEF DeleteUser, Handle, Idle, TypeInd, TypeOK
<1>6. RowsAreOwned'
  BY <1>1, <1>3, <1>4, <1>5 DEF RowsInv, RowsAreOwned
<1>7. RowsAreUnique'
  BY <1>3, <1>4 DEF RowsInv, RowsAreUnique
<1>8. VisitsAreOwn'
  BY <1>1, <1>5 DEF RowsInv, VisitsAreOwn
<1>9. RequestsAreOwn'
  BY <1>1, <1>5 DEF RowsInv, RequestsAreOwn, Idle
<1>10. QED
  BY <1>6, <1>7, <1>8, <1>9 DEF RowsInv

LEMMA RowsNext == TypeInd /\ KeysInv /\ RowsInv /\ [Next]_vars => RowsInv'
<1> SUFFICES ASSUME TypeInd, KeysInv, RowsInv, [Next]_vars PROVE RowsInv'
  OBVIOUS
<1>1. ASSUME NEW p \in Procs, TouchLastSeen(p) PROVE RowsInv'
  <2>1. req[p].at = "seen" /\ UNCHANGED <<devices, contacts, overtaken>>
    BY <1>1 DEF TouchLastSeen
  <2>2. \A q \in Procs : req'[q].at = "seen" => req'[q] = req[q]
    BY <1>1 DEF TouchLastSeen, TypeInd, TypeOK
  <2>3. /\ DOMAIN users' = DOMAIN users
        /\ \A i \in DOMAIN users : users'[i].key = users[i].key
    BY <1>1 DEF TouchLastSeen, TypeInd, TypeOK, User
  <2>4. \A i \in DOMAIN users : \A k \in users'[i].seenBy :
           k \in users[i].seenBy \/ (i = req[p].uid /\ k = req[p].key)
    <3>1. CASE req[p].uid \in DOMAIN users
      <4>1. users' = [users EXCEPT ![req[p].uid].seenBy = @ \cup {req[p].key}]
        BY <1>1, <3>1 DEF TouchLastSeen
      <4>2. users[req[p].uid] \in User
        BY <3>1 DEF TypeInd, TypeOK
      <4>3. users'[req[p].uid].seenBy = users[req[p].uid].seenBy \cup {req[p].key}
        BY <3>1, <4>1, <4>2 DEF User
      <4>4. \A i \in DOMAIN users : i # req[p].uid => users'[i] = users[i]
        BY <4>1
      <4>5. QED
        BY <2>1, <4>3, <4>4
    <3>2. CASE req[p].uid \notin DOMAIN users
      BY <1>1, <3>2 DEF TouchLastSeen
    <3>3. QED
      BY <3>1, <3>2
  <2>5. RowsAreOwned' /\ RowsAreUnique'
    BY <2>1, <2>3 DEF RowsInv, RowsAreOwned, RowsAreUnique
  <2>6. VisitsAreOwn'
    BY <2>1, <2>3, <2>4 DEF RowsInv, VisitsAreOwn, RequestsAreOwn
  <2>7. RequestsAreOwn'
    BY <2>1, <2>2, <2>3 DEF RowsInv, RequestsAreOwn
  <2>8. QED
    BY <2>5, <2>6, <2>7 DEF RowsInv
<1>2. ASSUME NEW p \in Procs, NEW k \in Keys, Authenticate(p, k) PROVE RowsInv'
  <2>1. PICK uid \in AccountsOf(k) : req' = [req EXCEPT ![p] = [at |-> "seen", key |-> k, uid |-> uid]]
    BY <1>2 DEF Authenticate
  <2>2. UNCHANGED <<users, devices, contacts, overtaken>> /\ req \in [Procs -> Request]
    BY <1>2 DEF Authenticate, TypeInd, TypeOK
  <2>3. uid \in DOMAIN users /\ users[uid].key = k
    BY DEF AccountsOf
  <2>4. RequestsAreOwn'
    BY <2>1, <2>2, <2>3 DEF RowsInv, RequestsAreOwn
  <2>5. (RowsAreOwned /\ VisitsAreOwn /\ RowsAreUnique)'
    BY <2>2 DEF RowsInv, RowsAreOwned, VisitsAreOwn, RowsAreUnique
  <2>6. QED
    BY <2>4, <2>5 DEF RowsInv
<1>3. ASSUME NEW p \in Procs, NEW i \in DOMAIN devices, DeleteDevice(p, i) PROVE RowsInv'
  <2>1. Handle(p) /\ UNCHANGED <<users, contacts, overtaken>>
    BY <1>3 DEF DeleteDevice
  <2>2. DOMAIN devices' \subseteq DOMAIN devices /\ \A j \in DOMAIN devices' : devices'[j] = devices[j]
    <3>1. devices' = DeleteRows(devices, {i}) /\ IsTable(devices)
      BY <1>3 DEF DeleteDevice, TypeInd
    <3>2. /\ DOMAIN DeleteRows(devices, {i}) = DOMAIN devices \ {i}
          /\ \A j \in DOMAIN devices \ {i} : DeleteRows(devices, {i})[j] = devices[j]
      BY <3>1, DeletedRows
    <3>3. QED
      BY <3>1, <3>2
  <2>3. RowsAreOwned' /\ RowsAreUnique'
    BY <2>1, <2>2 DEF RowsInv, RowsAreOwned, RowsAreUnique
  <2>4. QED
    BY <2>1, <2>3, RowsChanged
<1>4. ASSUME NEW p \in Procs, NEW i \in DOMAIN contacts, DeleteContact(p, i) PROVE RowsInv'
  <2>1. Handle(p) /\ UNCHANGED <<users, devices, overtaken>>
    BY <1>4 DEF DeleteContact
  <2>2. DOMAIN contacts' \subseteq DOMAIN contacts /\ \A j \in DOMAIN contacts' : contacts'[j] = contacts[j]
    <3>1. contacts' = DeleteRows(contacts, {i}) /\ IsTable(contacts)
      BY <1>4 DEF DeleteContact, TypeInd
    <3>2. /\ DOMAIN DeleteRows(contacts, {i}) = DOMAIN contacts \ {i}
          /\ \A j \in DOMAIN contacts \ {i} : DeleteRows(contacts, {i})[j] = contacts[j]
      BY <3>1, DeletedRows
    <3>3. QED
      BY <3>1, <3>2
  <2>3. RowsAreOwned' /\ RowsAreUnique'
    BY <2>1, <2>2 DEF RowsInv, RowsAreOwned, RowsAreUnique
  <2>4. QED
    BY <2>1, <2>3, RowsChanged
<1>5. ASSUME NEW p \in Procs, NEW i \in DOMAIN contacts, NEW b \in BOOLEAN, BlockContact(p, i, b)
      PROVE  RowsInv'
  <2>1. Handle(p) /\ UNCHANGED <<users, devices, overtaken>>
    BY <1>5 DEF BlockContact
  <2>2. /\ DOMAIN contacts' = DOMAIN contacts
        /\ \A j \in DOMAIN contacts : /\ contacts'[j].of = contacts[j].of
                                      /\ contacts'[j].owner = contacts[j].owner
                                      /\ contacts'[j].contact = contacts[j].contact
    BY <1>5 DEF BlockContact, TypeInd, TypeOK, Contact
  <2>3. RowsAreOwned' /\ RowsAreUnique'
    BY <2>1, <2>2 DEF RowsInv, RowsAreOwned, RowsAreUnique
  <2>4. QED
    BY <2>1, <2>3, RowsChanged
<1>6. ASSUME NEW p \in Procs, UpdateUser(p) \/ ReadOnly(p) PROVE RowsInv'
  <2>1. Handle(p) /\ UNCHANGED <<users, devices, contacts, overtaken>>
    BY <1>6 DEF UpdateUser, ReadOnly
  <2>2. RowsAreOwned' /\ RowsAreUnique'
    BY <2>1 DEF RowsInv, RowsAreOwned, RowsAreUnique
  <2>3. QED
    BY <2>1, <2>2, RowsChanged
<1>7. ASSUME NEW c \in Commands, CreateUser(c) PROVE RowsInv'
  <2>1. UNCHANGED <<devices, contacts, req, overtaken>>
    BY <1>7 DEF CreateUser
  <2>2. /\ DOMAIN users' = DOMAIN users \cup {AnsweredId}
        /\ AnsweredId \notin DOMAIN users
        /\ \A i \in DOMAIN users : users'[i] = users[i]
        /\ users'[AnsweredId] = [key |-> cmd[c].key, seenBy |-> {}]
    BY <1>7, NewAccount
  <2>3. \A i \in DOMAIN users' \ DOMAIN users : users'[i].seenBy = {}
    BY <2>2
  <2>4. \A i \in DOMAIN users : i \in DOMAIN users' /\ users'[i] = users[i]
    BY <2>2
  <2>5. QED
    BY <2>1, <2>3, <2>4, RowsKept
<1>8. CASE UNCHANGED <<users, devices, contacts, req, overtaken>>
  BY <1>8, RowsKept
<1>9. ASSUME NEW p \in Procs, Serve(p) PROVE RowsInv'
  BY <1>9, <1>1, <1>2, <1>3, <1>4, <1>5, <1>6, RowsRegistered, RowsAdded, RowsCascade DEF Serve
<1>10. ASSUME NEW c \in Commands, Register(c) PROVE RowsInv'
  BY <1>10, <1>7, <1>8 DEF Register, Generate, SaveProfile, GiveUp
<1>11. ASSUME NEW n \in Names, RemoveProfile(n) PROVE RowsInv'
  BY <1>11, <1>8 DEF RemoveProfile
<1>12. QED
  BY <1>8, <1>9, <1>10, <1>11 DEF Next, vars

LEMMA InvHolds == Spec => [](TypeInd /\ KeysInv /\ RowsInv)
BY TypeInit, TypeNext, KeysInit, KeysNext, RowsInit, RowsNext, PTL DEF Spec

\* The tables have their types, keep their foreign keys, and hold no two accounts
\* of a key, no two rows of a device and no contact of an account twice.
THEOREM TypeCorrect == Spec => []TypeInv
<1>1. TypeInd /\ KeysInv /\ RowsInv => TypeInv
  <2> SUFFICES ASSUME TypeInd, KeysInv, RowsInv PROVE TypeInv
    OBVIOUS
  <2>1. /\ \A i \in DOMAIN devices : devices[i].owner \in DOMAIN users
        /\ \A i \in DOMAIN contacts : contacts[i].owner \in DOMAIN users
    BY DEF RowsInv, RowsAreOwned
  <2>2. Unique(users, LAMBDA a, b : a.key = b.key)
    BY DEF KeysInv, KeysAreNamed, Unique
  <2>3. /\ Unique(devices, LAMBDA a, b : a.device = b.device)
        /\ Unique(contacts, LAMBDA a, b : a.owner = b.owner /\ a.contact = b.contact)
    BY DEF RowsInv, RowsAreUnique, Unique
  <2>4. QED
    BY <2>1, <2>2, <2>3 DEF TypeInd, TypeInv
<1>2. QED
  BY <1>1, InvHolds, PTL

\* Devices and contacts are of the account they were made for, and last_seen is
\* written under the account's own key, but for requests whose account was deleted
\* while the middleware had it.
THEOREM RowsStayWithTheirAccount == Spec => []RowsAreOfTheirAccount
<1>1. RowsInv => RowsAreOfTheirAccount
  BY DEF RowsInv, RowsAreOwned, VisitsAreOwn, RowsAreOfTheirAccount
<1>2. QED
  BY <1>1, InvHolds, PTL

===============================================================================
