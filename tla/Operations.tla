----------------------------- MODULE Operations -----------------------------
(***************************************************************************)
(* What runs around a campaign: its clock, the event backbone and the      *)
(* dashboard that follows it, auto-pause and the automations that consume  *)
(* it, the text engine that feeds it, the browser preview, the moderator   *)
(* and sign-in.                                                            *)
(*                                                                         *)
(* The dashboard composes with the event log.  The other parts meet it     *)
(* only at their edge: what they consume is taken from every sequence of   *)
(* events, so that each is followed by itself, and a behaviour is one of   *)
(* the part chosen at the start.                                           *)
(***************************************************************************)
EXTENDS Dashboard, CallEngine, AutoPause, Workflows, Preview, Moderator, Login, CampaignClock

CONSTANT Parts      \* those that are followed

VARIABLE part

operationsVars == <<part, dashVars, engineVars, apVars, wfVars, previewVars, moderationVars, loginVars, clockVars>>

Init ==
    /\ part \in Parts
    /\ DashInit /\ EngineInit /\ ApInit /\ WfInit /\ PreviewInit /\ ModerationInit /\ LoginInit /\ CcInit
    \* What a part starts from does not matter where it is not followed.
    /\ part # "engine" => tcall.kind = "scripted" /\ tcall.sink = "keeping"
    /\ part # "clock" => /\ ticks = CHOOSE t \in Starts : TRUE
                        /\ hours = Clamped(Locked)

Follows(name) == part = name /\ UNCHANGED part

Next ==
    \/ /\ Follows("feed") /\ FeedNext
       /\ UNCHANGED <<state, dash, engineVars, apVars, wfVars, previewVars, moderationVars, loginVars, clockVars>>
    \/ /\ Follows("dashboard") /\ DashNext
       /\ UNCHANGED <<engineVars, apVars, wfVars, previewVars, moderationVars, loginVars, clockVars>>
    \/ /\ Follows("engine") /\ EngineNext
       /\ UNCHANGED <<dashVars, apVars, wfVars, previewVars, moderationVars, loginVars, clockVars>>
    \/ /\ Follows("autopause") /\ ApNext
       /\ UNCHANGED <<dashVars, engineVars, wfVars, previewVars, moderationVars, loginVars, clockVars>>
    \/ /\ Follows("workflows") /\ WfNext
       /\ UNCHANGED <<dashVars, engineVars, apVars, previewVars, moderationVars, loginVars, clockVars>>
    \/ /\ Follows("preview") /\ PreviewNext
       /\ UNCHANGED <<dashVars, engineVars, apVars, wfVars, moderationVars, loginVars, clockVars>>
    \/ /\ Follows("moderation") /\ ModerationNext
       /\ UNCHANGED <<dashVars, engineVars, apVars, wfVars, previewVars, loginVars, clockVars>>
    \/ /\ Follows("login") /\ LoginNext
       /\ UNCHANGED <<dashVars, engineVars, apVars, wfVars, previewVars, moderationVars, clockVars>>
    \/ /\ Follows("clock") /\ CcNext
       /\ UNCHANGED <<dashVars, engineVars, apVars, wfVars, previewVars, moderationVars, loginVars>>

Spec == Init /\ [][Next]_operationsVars

OperationsTypeOK ==
    /\ part \in Parts
    /\ FeedTypeOK /\ DashTypeOK /\ EngineTypeOK /\ ApTypeOK /\ WfTypeOK
    /\ PreviewTypeOK /\ ModerationTypeOK /\ LoginTypeOK /\ CcTypeOK
=============================================================================
