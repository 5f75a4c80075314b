----------------------------- MODULE MCCallRouting -----------------------------
(* Callers, rules and requests for TLC. *)
EXTENDS CallRouting

Caller(contact, blocked, time) ==
  [is_contact |-> contact, is_blocked |-> blocked, time_of_day |-> time,
   day_of_week |-> "Monday", has_phone |-> FALSE]

\* A contact, a stranger, and a blocked contact.
SomeCallers == {Caller(TRUE, FALSE, "night"), Caller(FALSE, FALSE, "night"),
                Caller(TRUE, TRUE, "night")}

Rule(priority, conditions, action) ==
  [priority |-> priority, conditions |-> conditions, action |-> action]

SomeRules == {Rule(1, [caller_group |-> "family", has_phone |-> IllTyped], "forward"),
              Rule(2, [time_of_day |-> "night", is_contact |-> FALSE], "reject"),
              Rule(2, Malformed, "ai_screen")}

SomeChanges == {[action |-> "voicemail", enabled |-> FALSE],
                [priority |-> 1, conditions |-> Malformed, action |-> "bogus",
                 enabled |-> TRUE]}

===============================================================================
