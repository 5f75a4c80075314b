------------------------------- MODULE Presence -------------------------------
(***************************************************************************)
(* What the signaling server promises about who is reachable, with nothing *)
(* about sockets, contexts or handlers: every public key names at most one *)
(* session, a session logs in at most once, a login takes the key over,    *)
(* and the end of a session touches no registration but its own.           *)
(*                                                                         *)
(* The end of a session may leave its own entry behind: handleWS returns   *)
(* that way when the auth_ok write fails (signaling.go:245-248).           *)
(***************************************************************************)
CONSTANTS Keys,      \* the public keys users connect under
          Sessions,  \* the WebSocket sessions there can ever be
          None       \* no session

VARIABLES online,    \* the session each key is registered to, or None
          opened,    \* sessions that have logged in
          ended      \* sessions that are over

vars == <<online, opened, ended>>

TypeOK == /\ online \in [Keys -> Sessions \cup {None}]
          /\ opened \subseteq Sessions
          /\ ended \subseteq opened

Init == /\ online = [k \in Keys |-> None]
        /\ opened = {}
        /\ ended = {}

\* Session s takes key k over, whoever held it.
Login(k, s) == /\ s \notin opened
               /\ online' = [online EXCEPT ![k] = s]
               /\ opened' = opened \cup {s}
               /\ UNCHANGED ended

Without(s) == [k \in Keys |-> IF online[k] = s THEN None ELSE online[k]]

\* Session s ends: its entry goes, or lapses without being removed.
End(s) == /\ s \in opened \ ended
          /\ ended' = ended \cup {s}
          /\ \/ online' = Without(s)
             \/ UNCHANGED online
          /\ UNCHANGED opened

\* The server stops: every registration is dropped at once.
Shutdown == /\ online' = [k \in Keys |-> None]
            /\ UNCHANGED <<opened, ended>>

Next == \/ \E k \in Keys, s \in Sessions : Login(k, s)
        \/ \E s \in Sessions : End(s)
        \/ Shutdown

Spec == Init /\ [][Next]_vars

===============================================================================
