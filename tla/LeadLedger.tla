----------------------------- MODULE LeadLedger -----------------------------
(***************************************************************************)
(* What the orchestrator promises the people on its lists, whatever its    *)
(* loops, tables and timers do: an attempt at a person begins only when    *)
(* the last one has ended, a person has at most one call at a time and     *)
(* only within an attempt, every attempt ends with one outcome, a person   *)
(* who is settled is left alone, and a campaign is closed only when all    *)
(* its people are settled.                                                 *)
(*                                                                         *)
(* A call may be cut off without an outcome; the attempt then stays open,  *)
(* and the same attempt is called again.  The promise holds until it is    *)
(* forfeited.                                                              *)
(***************************************************************************)
EXTENDS Integers

CONSTANTS People, Lists, ListOf, Answers, MaxTries

VARIABLES
    stage,      \* where a person is: "waiting", "attempted" or "settled"
    tries,      \* attempts begun
    answer,     \* how the last attempt ended
    onPhone,    \* the people on a call
    closed,     \* the campaigns that were completed
    trusted     \* the promise still holds

ledgerVars == <<stage, tries, answer, onPhone, closed, trusted>>

LedgerInit ==
    /\ stage = [p \in People |-> "waiting"]
    /\ tries = [p \in People |-> 0]
    /\ answer = [p \in People |-> "none"]
    /\ onPhone = {} /\ closed = {} /\ trusted = TRUE

\* An attempt begins with its call.
Attempt(p) ==
    /\ stage[p] = "waiting" /\ p \notin onPhone
    /\ tries[p] < MaxTries \/ tries[p] = 0
    /\ stage' = [stage EXCEPT ![p] = "attempted"]
    /\ tries' = [tries EXCEPT ![p] = @ + 1]
    /\ onPhone' = onPhone \cup {p}
    /\ UNCHANGED <<answer, closed>>

\* People whose call was cut off are called again, within the same attempt.
CallAgain(some) ==
    /\ \A p \in some : stage[p] = "attempted" /\ p \notin onPhone
    /\ onPhone' = onPhone \cup some
    /\ UNCHANGED <<stage, tries, answer, closed>>

\* A call ends: its attempt has an outcome, and the person waits or is settled.
HangUp(p, a) ==
    /\ stage[p] = "attempted" /\ p \in onPhone
    /\ onPhone' = onPhone \ {p}
    /\ answer' = [answer EXCEPT ![p] = a]
    /\ \/ stage' = [stage EXCEPT ![p] = "settled"]
       \/ /\ a \in {"no_answer", "voicemail", "failed"} /\ tries[p] < MaxTries
          /\ stage' = [stage EXCEPT ![p] = "waiting"]
    /\ UNCHANGED <<tries, closed>>

CutOff(some) ==
    /\ some \subseteq onPhone
    /\ onPhone' = onPhone \ some
    /\ UNCHANGED <<stage, tries, answer, closed>>

Close(c) ==
    /\ \A p \in People : ListOf[p] = c => stage[p] = "settled" /\ p \notin onPhone
    /\ closed' = closed \cup {c}
    /\ UNCHANGED <<stage, tries, answer, onPhone>>

Promised ==
    \/ \E p \in People : Attempt(p) \/ \E a \in Answers : HangUp(p, a)
    \/ \E some \in SUBSET People : CallAgain(some) \/ CutOff(some)
    \/ \E c \in Lists : Close(c)

LedgerNext == ~trusted' \/ (trusted /\ trusted' /\ Promised)

LedgerSpec == LedgerInit /\ [][LedgerNext]_ledgerVars
=============================================================================
