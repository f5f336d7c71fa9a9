---------------------------- MODULE MCPushDelivery ----------------------------
(* PushDelivery on small instances.                                         *)
EXTENDS PushDelivery, TLC

CONSTANTS u1, u2, d1, chat, offer

\* A chat message for one of the two employees, a new lead for both.
ForWhom == (chat :> {u1}) @@ (offer :> {u1, u2})

================================================================================
