-------------------------------- MODULE Accounts --------------------------------
(***************************************************************************)
(* Accounts with their devices and contacts: the handlers of               *)
(* internal/api/api.go behind the middleware of internal/api/auth.go, and  *)
(* the `register` command of cmd/comms-cli, which makes a key, an account  *)
(* for it and a profile that remembers both.                               *)
(*                                                                         *)
(* A request is authenticated by one statement, which finds the account of *)
(* its key, writes last_seen in a second one and does its own work in a    *)
(* third; accounts are created and deleted in between and the ids of       *)
(* deleted ones are given out again.  Whose account a request works on is  *)
(* up to the client: the id is in the path or the body and the handlers do *)
(* not compare it with the key (the tests use one client for all users).   *)
(* Commands may be killed at any point and may not get their answer.       *)
(***************************************************************************)
EXTENDS Naturals, FiniteSets, Tables, Functions

CONSTANTS Keys,       \* key pairs that `register` generates, each at most once
          DeviceKeys, \* device_key of a registered device
          ContactKeys,\* contact_key of a contact
          Names,      \* profile names
          Commands,   \* runs of `register`
          Procs,      \* API requests at the same time
          Ids,        \* ids that clients put into paths and bodies
          MaxRowid,   \* bound: the largest id of a device or a contact
          None        \* no profile

ASSUME NoneIsNoProfile == None \notin [key : Keys, id : Nat]
ASSUME IdsAreNotZero   == Ids \subseteq Nat \ {0}    \* user_id 0 is a 400

VARIABLES
  users,     \* the users table
  devices,   \* the devices table
  contacts,  \* the contacts table
  profile,   \* the profile saved under each name, or None
  used,      \* keys generated so far
  cmd,       \* where each run of `register` is
  req,       \* where each request is
  overtaken  \* history: keys whose account was deleted while the middleware had it

vars == <<users, devices, contacts, profile, used, cmd, req, overtaken>>

\* History: of is the key of the account a row was inserted for, seenBy are the
\* keys whose requests wrote last_seen.
User    == [key : Keys, seenBy : SUBSET Keys]
Device  == [owner : Nat, device : DeviceKeys, of : Keys]
Contact == [owner : Nat, contact : ContactKeys, blocked : BOOLEAN, of : Keys]

Idle    == [at |-> "idle"]
Command == [at : {"idle"}] \cup [at : {"post"}, name : Names, key : Keys]
             \cup [at : {"save"}, name : Names, key : Keys, id : Nat]
Request == [at : {"idle", "handle"}] \cup [at : {"seen"}, key : Keys, uid : Nat]

TypeOK == /\ \A id \in DOMAIN users : id \in Nat /\ users[id] \in User
          /\ \A id \in DOMAIN devices : id \in Nat /\ devices[id] \in Device
          /\ \A id \in DOMAIN contacts : id \in Nat /\ contacts[id] \in Contact
          /\ profile \in [Names -> [key : Keys, id : Nat] \cup {None}]
          /\ used \subseteq Keys
          /\ cmd \in [Commands -> Command]
          /\ req \in [Procs -> Request]
          /\ overtaken \subseteq Keys

Init == /\ users = EmptyTable
        /\ devices = EmptyTable
        /\ contacts = EmptyTable
        /\ profile = [n \in Names |-> None]
        /\ used = {}
        /\ cmd = [c \in Commands |-> Idle]
        /\ req = [p \in Procs |-> Idle]
        /\ overtaken = {}

\* SELECT id FROM users WHERE public_key = k: one id at most (public_key is UNIQUE).
AccountsOf(k) == {id \in DOMAIN users : users[id].key = k}

(***************************************************************************)
(* The register command.                                                   *)
(***************************************************************************)

\* It refuses to overwrite a profile, then generates a key.
Generate(c, n, k) ==
  /\ cmd[c] = Idle
  /\ profile[n] = None
  /\ k \notin used
  /\ used' = used \cup {k}
  /\ cmd' = [cmd EXCEPT ![c] = [at |-> "post", name |-> n, key |-> k]]
  /\ UNCHANGED <<users, devices, contacts, profile, req, overtaken>>

\* Mutant: answer the number of accounts instead of the id of the new row.
CountedId == Cardinality(DOMAIN users) + 1

\* LastInsertId: the driver hands it out together with the result of the INSERT.
AnsweredId == NextRowid(users)

\* POST /api/v1/users.  The command sees the answer, or not.
CreateUser(c) ==
  /\ cmd[c].at = "post"
  /\ users' = InsertRow(users, [key |-> cmd[c].key, seenBy |-> {}])
  /\ cmd' \in {[cmd EXCEPT ![c] = Idle],
               [cmd EXCEPT ![c] = [at |-> "save", name |-> cmd[c].name,
                                   key |-> cmd[c].key, id |-> AnsweredId]]}
  /\ UNCHANGED <<devices, contacts, profile, used, req, overtaken>>

\* SaveProfile.
SaveProfile(c) ==
  /\ cmd[c].at = "save"
  /\ profile' = [profile EXCEPT ![cmd[c].name] = [key |-> cmd[c].key, id |-> cmd[c].id]]
  /\ cmd' = [cmd EXCEPT ![c] = Idle]
  /\ UNCHANGED <<users, devices, contacts, used, req, overtaken>>

\* The command fails or is killed.
GiveUp(c) == /\ cmd[c] # Idle
             /\ cmd' = [cmd EXCEPT ![c] = Idle]
             /\ UNCHANGED <<users, devices, contacts, profile, used, req, overtaken>>

\* The user deletes the profile's directory, as the command says, to register again.
RemoveProfile(n) == /\ profile[n] # None
                    /\ profile' = [profile EXCEPT ![n] = None]
                    /\ UNCHANGED <<users, devices, contacts, used, cmd, req, overtaken>>

(***************************************************************************)
(* authMiddleware.                                                         *)
(***************************************************************************)

\* Find the account of the key (401 if there is none), check the signature.
Authenticate(p, k) ==
  /\ req[p] = Idle
  /\ \E uid \in AccountsOf(k) : req' = [req EXCEPT ![p] = [at |-> "seen", key |-> k, uid |-> uid]]
  /\ UNCHANGED <<users, devices, contacts, profile, used, cmd, overtaken>>

\* UPDATE users SET last_seen WHERE id = userID.  Nothing of the account is passed
\* on to the handler.
TouchLastSeen(p) ==
  /\ req[p].at = "seen"
  /\ users' = IF req[p].uid \in DOMAIN users
              THEN [users EXCEPT ![req[p].uid].seenBy = @ \cup {req[p].key}]
              ELSE users
  /\ req' = [req EXCEPT ![p] = [at |-> "handle"]]
  /\ UNCHANGED <<devices, contacts, profile, used, cmd, overtaken>>

(***************************************************************************)
(* The handlers: one statement each, then the answer.                      *)
(***************************************************************************)
Handle(p) == /\ req[p].at = "handle"
             /\ req' = [req EXCEPT ![p] = Idle]

\* user_id REFERENCES users(id).
ForeignKey(id) == id \in DOMAIN users

\* Mutant: the last account to register a device gets it.
TakeOver(row, id) == IF id \in DOMAIN users THEN [row EXCEPT !.owner = id] ELSE row

\* ON CONFLICT(device_key) DO UPDATE: name, push token and last_seen change, the
\* owner does not, and the foreign key is not looked at.
Upserted(row, id) == row

\* handleRegisterDevice, for the account the client names.
RegisterDevice(p, uid, d) ==
  LET same == RowsWhere(devices, LAMBDA row : row.device = d)
  IN  /\ Handle(p)
      /\ NextRowid(devices) <= MaxRowid
      /\ devices' = IF same # {}
                    THEN [id \in DOMAIN devices |->
                            IF id \in same THEN Upserted(devices[id], uid) ELSE devices[id]]
                    ELSE IF ForeignKey(uid)
                    THEN InsertRow(devices, [owner |-> uid, device |-> d, of |-> users[uid].key])
                    ELSE devices
      /\ UNCHANGED <<users, contacts, profile, used, cmd, overtaken>>

\* handleAddContact: 409 if the account has the contact already (UNIQUE).
AddContact(p, uid, k) ==
  LET same == RowsWhere(contacts, LAMBDA row : row.owner = uid /\ row.contact = k)
  IN  /\ Handle(p)
      /\ NextRowid(contacts) <= MaxRowid
      /\ contacts' = IF same = {} /\ ForeignKey(uid)
                     THEN InsertRow(contacts, [owner |-> uid, contact |-> k,
                                               blocked |-> FALSE, of |-> users[uid].key])
                     ELSE contacts
      /\ UNCHANGED <<users, devices, profile, used, cmd, overtaken>>

\* handleDeleteDevice, handleDeleteContact, handleBlockContact: by the row's id.
DeleteDevice(p, id) == /\ Handle(p)
                       /\ devices' = DeleteRows(devices, {id})
                       /\ UNCHANGED <<users, contacts, profile, used, cmd, overtaken>>

DeleteContact(p, id) == /\ Handle(p)
                        /\ contacts' = DeleteRows(contacts, {id})
                        /\ UNCHANGED <<users, devices, profile, used, cmd, overtaken>>

BlockContact(p, id, blocked) ==
  /\ Handle(p)
  /\ id \in DOMAIN contacts
  /\ contacts' = [contacts EXCEPT ![id].blocked = blocked]
  /\ UNCHANGED <<users, devices, profile, used, cmd, overtaken>>

\* handleUpdateUser changes the display name and the status only.  They decide
\* nothing, a suspended account is served like any other, and are left out.
UpdateUser(p) == Handle(p) /\ UNCHANGED <<users, devices, contacts, profile, used, cmd, overtaken>>

\* Mutant: an account's rows stay when it is deleted.
NoCascade(table, id) == table

\* ON DELETE CASCADE.
Cascade(table, id) == DeleteRows(table, RowsWhere(table, LAMBDA row : row.owner = id))

\* handleDeleteUser.
DeleteUser(p, id) ==
  /\ Handle(p)
  /\ id \in DOMAIN users
  /\ users' = DeleteRows(users, {id})
  /\ devices' = Cascade(devices, id)
  /\ contacts' = Cascade(contacts, id)
  /\ overtaken' = overtaken \cup
       {k \in {users[id].key} : \E q \in Procs : req[q].at = "seen" /\ req[q].key = k}
  /\ UNCHANGED <<profile, used, cmd>>

\* A request that reads, is refused or names a row that is not there.
ReadOnly(p) == Handle(p) /\ UNCHANGED <<users, devices, contacts, profile, used, cmd, overtaken>>

(***************************************************************************)
(* The specification.                                                      *)
(***************************************************************************)
Register(c) == \/ \E n \in Names, k \in Keys : Generate(c, n, k)
               \/ CreateUser(c) \/ SaveProfile(c) \/ GiveUp(c)

Serve(p) == \/ \E k \in Keys : Authenticate(p, k)
            \/ TouchLastSeen(p)
            \/ \E uid \in Ids, d \in DeviceKeys : RegisterDevice(p, uid, d)
            \/ \E uid \in Ids, k \in ContactKeys : AddContact(p, uid, k)
            \/ \E id \in DOMAIN devices : DeleteDevice(p, id)
            \/ \E id \in DOMAIN contacts : DeleteContact(p, id)
            \/ \E id \in DOMAIN contacts, blocked \in BOOLEAN : BlockContact(p, id, blocked)
            \/ UpdateUser(p)
            \/ \E id \in DOMAIN users : DeleteUser(p, id)
            \/ ReadOnly(p)

Next == \/ \E c \in Commands : Register(c)
        \/ \E n \in Names : RemoveProfile(n)
        \/ \E p \in Procs : Serve(p)

Spec == Init /\ [][Next]_vars

(***************************************************************************)
(* Properties.                                                             *)
(***************************************************************************)
Unique(table, Same(_, _)) ==
  \A i, j \in DOMAIN table : Same(table[i], table[j]) => i = j

TypeInv == /\ TypeOK
           /\ \A id \in DOMAIN devices : devices[id].owner \in DOMAIN users
           /\ \A id \in DOMAIN contacts : contacts[id].owner \in DOMAIN users
           /\ Unique(users, LAMBDA a, b : a.key = b.key)
           /\ Unique(devices, LAMBDA a, b : a.device = b.device)
           /\ Unique(contacts, LAMBDA a, b : a.owner = b.owner /\ a.contact = b.contact)

\* A profile keeps the id of the account that has its key, for as long as that
\* account is there, however many runs of `register` create accounts at the same
\* time, lose their answers or are killed (commands.go:77-104, api.go:237).
ProfileNamesItsAccount ==
  \A n \in Names : profile[n] # None => AccountsOf(profile[n].key) \subseteq {profile[n].id}

\* Devices and contacts are of the account they were made for, whoever made them:
\* when its id goes to another account none of them is left, and registering a
\* device again, whatever account the request names, moves it nowhere.  last_seen
\* is written by requests under the account's own key only, except by one whose
\* account was deleted after the middleware had found it, which may touch the
\* account that has the id now (api.go:332, 562; auth.go:95, 122; db.go:84-86).
RowsAreOfTheirAccount ==
  LET Of(row) == row.owner \in DOMAIN users /\ users[row.owner].key = row.of
  IN  /\ \A id \in DOMAIN devices : Of(devices[id])
      /\ \A id \in DOMAIN contacts : Of(contacts[id])
      /\ \A id \in DOMAIN users : users[id].seenBy \subseteq {users[id].key} \cup overtaken

===============================================================================
