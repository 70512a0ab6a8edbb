----------------------------- MODULE Moderator ------------------------------
(***************************************************************************)
(* The net around what a live agent says (backend/live_agent/moderation)   *)
(* and the screening it goes through (backend/security).  The transport    *)
(* re-sends the whole utterance with every delta; the moderator screens    *)
(* the whole of it, but not at every delta: only when it has grown enough  *)
(* or enough time has passed.  A block holds for the rest of the turn, and *)
(* a text that does not extend the last one starts a new turn.             *)
(*                                                                         *)
(* A text is a sequence of words.  A harmful phrase is two words: a        *)
(* promise and, soon after it, a discount; neither is harmful alone.       *)
(***************************************************************************)
EXTENDS Integers, SequencesExt

CONSTANTS
    MaxGap,             \* the words that fit in the 30 characters a phrase may span
    MinNew,             \* min_new_chars, in words
    MinInterval,        \* min_interval_s
    MaxWords, MaxNow    \* bounds

ASSUME ModeratorAssumption ==
    /\ MaxGap \in Nat /\ MinNew \in Nat \ {0} /\ MinInterval \in Nat \ {0}
    /\ MaxWords \in Nat \ {0, 1} /\ MaxNow \in Nat

VARIABLES
    moderator,  \* _last_text, _last_screened_len, _last_check_time, _last_verdict
    now,        \* the monotonic clock
    heard       \* history: when the last delta of the turn came

moderationVars == <<moderator, now, heard>>

\* A word of a phrase, another one, and one with a character outside [\w\s,'-].
Words == {"promise", "discount", "fine", "stop"}

Unchecked == -1
Forgotten == [text |-> <<>>, screened |-> 0, at |-> Unchecked, verdict |-> "allow"]

ModerationInit == moderator = Forgotten /\ now = 0 /\ heard = 0

Later == now < MaxNow /\ now' = now + 1 /\ UNCHANGED <<moderator, heard>>

(***************************************************************************)
(* The screening pipeline: our own detector first, then the screener.      *)
(***************************************************************************)
\* detect_guardrail_domain: the phrase, with little and no full stop between its words.
TouchesGuardrail(text) ==
    \E i, j \in DOMAIN text :
        /\ text[i] = "promise" /\ text[j] = "discount" /\ j - i - 1 \in 0 .. MaxGap
        /\ \A k \in DOMAIN text : i < k /\ k < j => text[k] # "stop"

\* What Model Armor reports: nothing, something odd, a high finding of a category
\* that blocks; a timeout, an error or an unreadable answer is "unavailable".
ScreenResults == {"clean", "odd", "danger", "unavailable"}

Decide(text, result) ==
    IF TouchesGuardrail(text) \/ result = "danger" THEN "block"
    ELSE IF result = "clean" THEN "allow" ELSE "flag"

\* A screener that raises is one that is unavailable.
Screened(text) == {Decide(text, result) : result \in ScreenResults}

(***************************************************************************)
(* DebouncedStreamModerator.check                                          *)
(***************************************************************************)
MutantRemembered(text) == moderator

Remembered(text) ==
    IF IsPrefix(moderator.text, text) THEN moderator ELSE Forgotten

Due(memory, text) ==
    /\ text # <<>>
    /\ \/ Len(text) - memory.screened >= MinNew
       \/ memory.at = Unchecked
       \/ now - memory.at >= MinInterval

\* The session awaits the verdict before it takes the next delta.
Check(text) ==
    LET memory == Remembered(text) IN
    /\ \/ /\ memory.verdict = "block" \/ ~Due(memory, text)
          /\ moderator' = [memory EXCEPT !.text = text]
       \/ /\ memory.verdict # "block" /\ Due(memory, text)
          /\ \E verdict \in Screened(text) :
                moderator' = [text |-> text, screened |-> Len(text), at |-> now,
                              verdict |-> verdict]
    /\ heard' = now /\ UNCHANGED now

\* The next delta of the turn, or the first one of another turn.
Delta(word) ==
    /\ Len(moderator.text) < MaxWords
    /\ Check(Append(moderator.text, word))

NewTurn(words) == Check(words)

ModerationNext ==
    \/ Later
    \/ \E word \in Words : Delta(word) \/ NewTurn(<<word>>)
    \/ NewTurn(<<"promise", "discount">>)

ModerationSpec == ModerationInit /\ [][ModerationNext]_moderationVars

(***************************************************************************)
(* Properties.                                                             *)
(***************************************************************************)
ModerationTypeOK ==
    /\ moderator.screened \in 0 .. MaxWords /\ moderator.at \in Unchecked .. now /\ heard \in 0 .. now
    /\ moderator.verdict \in {"allow", "flag", "block"}

\* Harmful speech is cut off: a harmful phrase goes on only while every screening has
\* been of a harmless beginning of it (the first words of a turn are always screened),
\* the words since are fewer than the debounce, and the last of them came sooner than
\* the interval: however the turn was broken into deltas, whatever turn came before it
\* and even when the screener is down.  That much does get past: moderation.py:28-29
\* says a short utterance cannot slip through for being under the growth threshold,
\* and this is so of its first delta only.  A phrase completed by the last delta of a
\* short, quick turn is never screened, whichever the words that complete it.
HarmIsCut ==
    TouchesGuardrail(moderator.text) /\ moderator.verdict # "block" =>
        /\ moderator.screened \in 1 .. Len(moderator.text) - 1
        /\ ~TouchesGuardrail(SubSeq(moderator.text, 1, moderator.screened))
        /\ Len(moderator.text) - moderator.screened < MinNew
        /\ heard - moderator.at < MinInterval
=============================================================================
