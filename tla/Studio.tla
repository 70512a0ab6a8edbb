------------------------------- MODULE Studio -------------------------------
(***************************************************************************)
(* The studio as a whole: the builder, the panel, a client of the API and  *)
(* the capability sync of the connections, all editing one agent through   *)
(* the configuration gate.                                                 *)
(***************************************************************************)
EXTENDS Builder, Connections

CONSTANT Casts      \* bound: the callers that act in one behaviour

VARIABLE cast       \* those that act in this one

vars == <<studioVars, linkVars, cast>>

Init == StudioInit /\ LinksInit /\ cast \in Casts

Next ==
    /\ \/ ServiceNext /\ UNCHANGED linkVars
       \/ TheBuilder \in cast /\ BuilderNext /\ UNCHANGED linkVars
       \/ ThePanel \in cast /\ PanelNext /\ UNCHANGED linkVars
       \/ TheClient \in cast /\ ClientNext /\ UNCHANGED linkVars
       \/ TheSync \in cast /\ LinksNext /\ UNCHANGED <<builderVars, panel>>
    /\ UNCHANGED cast

Spec == Init /\ [][Next]_vars

StudioTypeOK == GateTypeOK /\ BuilderTypeOK /\ LinksTypeOK
=============================================================================
