------------------------------- MODULE Escrow -------------------------------
(***************************************************************************)
(* What the broker promises about the credits of a call.  A message is     *)
(* backed by a reserve.  A reserve is cancelled, or turned into the charge *)
(* of one handler of the message, once each time it is opened; a handler   *)
(* is charged at most once and within the reserve, and what is paid out    *)
(* for it comes out of its charge.                                         *)
(***************************************************************************)
EXTENDS Credits

CONSTANTS Handlers, Messages, MessageOf, HoldAmount

VARIABLES reserve,   \* credits reserved for each message that has a reserve
          charged,   \* credits taken from the caller for each handler
          paid       \* credits passed on to the recipients for each handler

vars == <<reserve, charged, paid>>

Init ==
    /\ reserve = NoCredits
    /\ charged = [h \in Handlers |-> 0]
    /\ paid = [h \in Handlers |-> 0]

Open(h) ==
    /\ MessageOf[h] \notin DOMAIN reserve
    /\ reserve' = With(reserve, MessageOf[h], HoldAmount[h])
    /\ UNCHANGED <<charged, paid>>

Cancel(m) ==
    /\ m \in DOMAIN reserve
    /\ reserve' = Without(reserve, m)
    /\ UNCHANGED <<charged, paid>>

Charge(h) ==
    LET m == MessageOf[h] IN
    /\ m \in DOMAIN reserve
    /\ charged[h] = 0
    /\ \E price \in 0..reserve[m] : charged' = [charged EXCEPT ![h] = price]
    /\ reserve' = Without(reserve, m)
    /\ UNCHANGED paid

Pay(h) ==
    /\ \E total \in paid[h] + 1..charged[h] : paid' = [paid EXCEPT ![h] = total]
    /\ UNCHANGED <<reserve, charged>>

Next ==
    \/ \E m \in Messages : Cancel(m)
    \/ \E h \in Handlers : Open(h) \/ Charge(h) \/ Pay(h)

Spec == Init /\ [][Next]_vars
=============================================================================
