------------------------------ MODULE MCStudio ------------------------------
(***************************************************************************)
(* One agent with a required prose field, a required list, the switch that *)
(* cascades, the calendar it switches on and a locked field; the edits are *)
(* those that the gate treats differently.                                 *)
(***************************************************************************)
EXTENDS Studio

Opening == <<"conversation", "opening">>
Criteria == <<"conversation", "criteria">>
Booking == <<"conversation", "closing", "book_meeting">>
CalendarOn == <<"automation", "calendar", "enabled">>
EmailOn == <<"automation", "email", "enabled">>
DncRule == <<"guardrails", "respect_do_not_call">>

MCCallers == {"builder", "panel", "client", "sync"}
MCLeaves == {Opening, Criteria, Booking, CalendarOn, EmailOn, DncRule}
MCRequired == {Opening, Criteria}
MCLocked == {DncRule}
MCProse == {Opening}
MCAtoms == {"good", "harm", "on", "mistyped"}
MCDefaults == [l \in MCLeaves |-> IF l = DncRule THEN {"on"} ELSE {}]

Tool(tool, path, value) == [tool |-> tool, path |-> path, value |-> value]
MCToolCalls ==
    { Tool("set", Opening, {"good"}), Tool("set", Opening, {"harm"}),
      Tool("add", Criteria, {"good"}), Tool("set", Booking, {"on"}),
      Tool("unknown", Opening, {}), Tool("malformed", Opening, {}) }
MCPanelPatches == {<<Opening, {}>>, <<<<"guardrails">>, {}>>}
MCApiPatches == {<<Criteria, {"good"}>>, <<<<"conversation">>, {"mistyped"}>>}
MCPaths == MCLeaves \cup {<<"guardrails">>, <<"conversation">>, <<"nowhere">>}
MCSegments == UNION {Range(p) : p \in MCPaths} \cup {"meta"}
MCCasts == {{"builder", "panel"}, {"builder", "client"}, {"panel", "client"}, {"sync"}}
MCProviders == <<"google_calendar", "gmail">>
FlowSymmetry == Permutations(Workers) \cup Permutations(Flows)
MCSeeded == <<"gmail">>
MCUnlocks == [p \in Range(MCProviders) |->
                IF p = "gmail" THEN <<EmailOn>> ELSE <<CalendarOn>>]
=============================================================================
