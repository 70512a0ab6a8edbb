---------------------------- MODULE MCOperations ----------------------------
(***************************************************************************)
(* The instance TLC checks: two connections over four events, two          *)
(* campaigns under auto-pause, the five shipped automations, two browsers. *)
(***************************************************************************)
EXTENDS Operations

CONSTANTS c1, c2

MCProduced == {StoredEvent("mine", c1, "call.started"), StoredEvent("other", c2, "call.started")}

\* The call is at half past six: a slot in the past, a free one, and one after hours.
MCPolicy == [from |-> 8, to |-> 20, days |-> 1, length |-> 30]

\* An empty calendar, and one whose evening and next morning are taken.
MCBusyTimes == {{}, {<<1150, 1170>>, <<1920, 3000>>}}

Hours(from, to, attempts, calls) ==
    [from |-> from, to |-> to, attempts |-> attempts, calls |-> calls]
MCLocked == Hours(8, 20, 2, 1)

\* Wider than the locked hours, at their edges, and outside.
MCEnvelopes == {MCLocked, Hours(0, 24, 3, 1), Hours(19, 23, 2, 2), Hours(20, 22, 1, 2), Hours(7, 9, 3, 2)}
=============================================================================
