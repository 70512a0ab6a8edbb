----------------------------- MODULE ConfigGate -----------------------------
(***************************************************************************)
(* The configuration gate (backend/config_gate): the one door through      *)
(* which an agent's configuration changes.  The builder, the manual editor *)
(* and the capability sync all call AgentService.apply_patch: it reads the *)
(* latest snapshot, checks the patch against it, and appends the WHOLE     *)
(* patched snapshot as the next version.  The routes run in a pool of      *)
(* threads and the builder on the event loop, so the calls of different    *)
(* callers interleave between the read and the save; the save itself is    *)
(* one transaction.                                                        *)
(*                                                                         *)
(* A configuration is a function from the leaves of the schema to sets of  *)
(* atoms: the empty set is a field that is not filled, a list holds its    *)
(* items, a switch that is on holds one atom.  A path is the sequence of   *)
(* its segments.  One agent of one owner: a request of somebody else finds *)
(* nothing and changes nothing.                                            *)
(***************************************************************************)
EXTENDS Integers, FiniteSets, SequencesExt

CONSTANTS
    Callers,        \* who may have a call of the service in progress
    Segments,       \* the names that paths are made of
    Leaves,         \* the paths of the fields
    Required,       \* those a deployable agent has filled
    LockedPaths,    \* the policy paths the platform locks
    ProsePaths,     \* the policy paths that are screened
    Paths,          \* the paths that a patch may name
    Atoms,          \* what a field may hold
    BadType,        \* an atom that no field accepts
    Harmful,        \* an atom that the screening blocks
    Defaults,       \* the configuration of a new agent
    MaxVersions     \* bound of the history

Meta == <<"meta", "status">>
NoVersion == 0

ASSUME GateAssumption ==
    /\ IsFiniteSet(Callers)
    /\ Leaves \cup LockedPaths \cup Paths \subseteq Seq(Segments)
    /\ "meta" \in Segments
    /\ Meta \notin Leaves
    /\ Defaults \in [Leaves -> SUBSET Atoms]
    /\ MaxVersions \in Nat \ {0}

VARIABLES
    versions,   \* the append-only history; the version number is the index
    calls       \* the call each caller has in progress, or its last result

gateVars == <<versions, calls>>

(***************************************************************************)
(* Paths and policy.                                                       *)
(***************************************************************************)
MutantCovers(p, q) == IsPrefix(p, q)

\* Equal, or one nests the other.
Covers(p, q) == IsPrefix(p, q) \/ IsPrefix(q, p)

IsLocked(path) ==
    \/ Covers(<<"meta">>, path)
    \/ \E p \in LockedPaths : Covers(p, path)

IsProse(path) == \E p \in ProsePaths : Covers(p, path)

Under(path) == {l \in Leaves : IsPrefix(path, l)}

\* A path resolves when it names a field or a branch of the schema.
Resolves(path) == path # <<>> /\ (Under(path) # {} \/ Covers(path, Meta))

\* The snapshot with the value at the path; a branch is replaced as a whole.
Patched(cfg, path, value) ==
    [l \in Leaves |-> IF l \in Under(path) THEN value ELSE cfg[l]]

StatusOf(cfg) == IF \A l \in Required : cfg[l] # {} THEN "ready" ELSE "draft"

(***************************************************************************)
(* ConfigGate.check_and_apply, in the order of the code: the schema first, *)
(* then the lock, then the screening.                                      *)
(***************************************************************************)
GateVerdict(path, value) ==
    CASE ~Resolves(path) \/ BadType \in value     -> "validation"
      [] IsLocked(path)                           -> "locked_path"
      [] IsProse(path) /\ Harmful \in value       -> "screening_blocked"
      [] OTHER                                    -> "accepted"

(***************************************************************************)
(* The repository: a version is a snapshot with the status stored in it.   *)
(***************************************************************************)
Snapshot(cfg) == [cfg |-> cfg, status |-> StatusOf(cfg)]
Latest == Len(versions)
Current == versions[Latest].cfg

Append1(cfg) == versions' = Append(versions, Snapshot(cfg))

Idle == [pc |-> "idle", path |-> <<>>, value |-> {}, expected |-> NoVersion,
         base |-> NoVersion, result |-> "none"]

Busy == {c \in Callers : calls[c].pc # "idle"}

\* Room for the versions that the calls in progress may still append.
Room == Latest + Cardinality(Busy) < MaxVersions

GateInit ==
    /\ versions = <<Snapshot(Defaults)>>
    /\ calls = [c \in Callers |-> Idle]

\* A caller enters apply_patch; a request without a version overwrites.
GateCall(c, path, value, expected) ==
    /\ calls[c].pc = "idle" /\ Room
    /\ calls' = [calls EXCEPT ![c] =
           [pc |-> "read", path |-> path, value |-> value, expected |-> expected,
            base |-> NoVersion, result |-> "none"]]
    /\ UNCHANGED versions

\* apply_patch reads the latest snapshot and checks the patch against it.
GateRead(c) ==
    /\ calls[c].pc = "read"
    /\ LET verdict == GateVerdict(calls[c].path, calls[c].value) IN
       calls' = [calls EXCEPT ![c] =
           IF verdict = "accepted"
           THEN [@ EXCEPT !.pc = "save", !.base = Latest]
           ELSE [@ EXCEPT !.pc = "idle", !.result = verdict]]
    /\ UNCHANGED versions

MutantConflicts(c) == calls[c].expected # NoVersion /\ calls[c].expected # calls[c].base

\* The repository refuses a save made for another version than the latest.
Conflicts(c) == calls[c].expected # NoVersion /\ calls[c].expected # Latest

\* repo.save: compare and append in one transaction.
GateSave(c) ==
    /\ calls[c].pc = "save"
    /\ IF Conflicts(c)
       THEN /\ calls' = [calls EXCEPT ![c].pc = "idle", ![c].result = "conflict"]
            /\ UNCHANGED versions
       ELSE /\ Append1(Patched(versions[calls[c].base].cfg, calls[c].path, calls[c].value))
            /\ calls' = [calls EXCEPT ![c].pc = "idle", ![c].result = "accepted",
                                      ![c].base = Latest + 1]

\* The storage raises ("database is locked", a lost connection): no version.
GateSaveFails(c) ==
    /\ calls[c].pc = "save"
    /\ calls' = [calls EXCEPT ![c].pc = "idle", ![c].result = "error"]
    /\ UNCHANGED versions

\* revert: an old snapshot is read, judged again and appended as a new version.
GateRevert(c, n) ==
    /\ calls[c].pc = "idle" /\ Room /\ n \in 1 .. Latest
    /\ calls' = [calls EXCEPT ![c] = [Idle EXCEPT !.pc = "revert", !.base = n]]
    /\ UNCHANGED versions

GateRevertSave(c) ==
    /\ calls[c].pc = "revert"
    /\ Append1(versions[calls[c].base].cfg)
    /\ calls' = [calls EXCEPT ![c].pc = "idle", ![c].result = "accepted",
                              ![c].base = Latest + 1]

\* The caller takes the result of its call.
Returned(c) == calls[c].pc = "idle" /\ calls[c].result # "none"
Take(c) == calls' = [calls EXCEPT ![c] = Idle] /\ UNCHANGED versions

GateStep(c) ==
    GateRead(c) \/ GateSave(c) \/ GateSaveFails(c) \/ GateRevertSave(c)

(***************************************************************************)
(* What the gate promises whoever calls it: any caller may patch any path, *)
(* naming no version or one that exists, and revert to any version.        *)
(***************************************************************************)
GateNext == \E c \in Callers :
    \/ \E path \in Paths, value \in SUBSET Atoms, expected \in 0 .. Latest :
          GateCall(c, path, value, expected)
    \/ \E n \in 1 .. Latest : GateRevert(c, n)
    \/ GateStep(c) \/ Take(c)

GateSpec == GateInit /\ [][GateNext]_gateVars

(***************************************************************************)
(* Properties.                                                             *)
(***************************************************************************)
CallPhases == {"idle", "read", "save", "revert"}
CallResults == {"none", "accepted", "validation", "locked_path",
                "screening_blocked", "conflict", "error"}

GateTypeOK ==
    /\ versions \in Seq([cfg : [Leaves -> SUBSET Atoms], status : {"draft", "ready"}])
    /\ Latest \in 1 .. MaxVersions
    /\ \A c \in Callers :
        /\ calls[c].pc \in CallPhases /\ calls[c].result \in CallResults
        /\ calls[c].base \in 0 .. Latest
        /\ calls[c].pc \in {"save", "revert"} => calls[c].base # NoVersion

\* Whatever path a patch names (a locked field, what is below it, a branch
\* above it), and whatever version is restored, no version of the history
\* changes a field the platform locks, and each one carries the status that
\* its own content deserves.
EveryVersionPassedTheGate ==
    \A i \in 1 .. Latest :
        /\ \A l \in Leaves : IsLocked(l) => versions[i].cfg[l] = Defaults[l]
        /\ versions[i].status = StatusOf(versions[i].cfg)

\* An edit that names the version it was made for loses no other edit,
\* whatever was saved between its read and its save: the version it appends
\* differs from the one before it only under its own path.
CheckedEditLosesNothing ==
    [][ \A c \in Callers :
          (calls[c].pc = "save" /\ calls[c].expected # NoVersion /\ versions' # versions
             /\ calls'[c].pc = "idle")
          => \A l \in Leaves \ Under(calls[c].path) :
                versions'[Latest'].cfg[l] = versions[Latest].cfg[l]
      ]_gateVars
=============================================================================
