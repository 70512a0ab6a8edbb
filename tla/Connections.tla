---------------------------- MODULE Connections ----------------------------
(***************************************************************************)
(* The tool connections of the tenants (backend/tool_registry: the OAuth   *)
(* flow, the connection store, the encrypted credentials) and the          *)
(* capability sync (backend/integration/capability_sync.py), which         *)
(* switches on in the agent's configuration what a new connection unlocks. *)
(* The callback of a flow comes from a browser: it may be repeated, come   *)
(* from a browser of somebody else, or come after the connection is gone.  *)
(* The sync is one more caller of the configuration gate.                  *)
(*                                                                         *)
(* A callback and a login run on the event loop, which is at one of them   *)
(* at a time (sync says at which write); a disconnect runs on a thread of  *)
(* its own, and the stores have no lock: each write of either is a step.   *)
(***************************************************************************)
EXTENDS ConfigGate

CONSTANTS
    Tenants, Owner,     \* the tenants; the one whose agent is modelled
    Providers,          \* KNOWN_PROVIDERS, in order
    Unlocks,            \* the fields the connection of a provider fills
    Seeded,             \* those that a login seeds with a placeholder, in order
    Workers,            \* the threads that serve a disconnect
    Flows,              \* the states that secrets.token_urlsafe may draw
    MaxLogins           \* bound

TheSync == "sync"

ASSUME ConnectionsAssumption ==
    /\ Owner \in Tenants /\ TheSync \in Callers /\ MaxLogins \in Nat
    /\ IsInjective(Providers) /\ Providers = [i \in 1 .. Len(Providers) |-> Providers[i]]
    /\ Len(Providers) \in Nat \ {0} /\ Seeded \in Seq(Range(Providers))
    /\ Unlocks \in [Range(Providers) -> Seq(Leaves \cap Paths)]
    /\ "on" \in Atoms

VARIABLES
    flows,      \* the OAuth flows: their state pins a tenant and a provider
    links,      \* ConnectionStore, in the order of insertion
    creds,      \* EncryptedCredentialStore: the references that have a token
    sync,       \* what the event loop is at: a seeding, a flow, a reconciliation
    workers,    \* the disconnects in progress
    logins      \* count for the bound

linkVars == <<flows, links, creds, sync, workers, logins>>

NoFlow == [pc |-> "none", tenant |-> Owner, provider |-> Providers[1]]
NoSync == [pc |-> "idle", todo |-> <<>>, patches |-> <<>>]
Link(tenant, provider, ref) == [tenant |-> tenant, provider |-> provider, ref |-> ref]
FlowRef(s) == [kind |-> "flow", of |-> s]
Placeholder(provider) == [kind |-> "dev", of |-> provider]
NoWork == [pc |-> "free", ref |-> Placeholder(Providers[1])]

LinksInit ==
    /\ flows = [s \in Flows |-> NoFlow]
    /\ links = <<>> /\ creds = {} /\ sync = NoSync /\ logins = 0
    /\ workers = [w \in Workers |-> NoWork]

(***************************************************************************)
(* The stores.                                                             *)
(***************************************************************************)
PlacesOf(tenant, provider) ==
    {i \in DOMAIN links : links[i].tenant = tenant /\ links[i].provider = provider}

Connected(tenant, provider) == PlacesOf(tenant, provider) # {}

\* The part of a list at some of its places, in the order of the list.
Sublists(list, places) ==
    {[k \in 1 .. Cardinality(places) |-> list[order[k]]] :
        order \in {o \in [1 .. Cardinality(places) -> places] :
                      \A j, k \in 1 .. Cardinality(places) : j < k => o[j] < o[k]}}

(***************************************************************************)
(* The flow.                                                               *)
(***************************************************************************)
BeginConnect(s, tenant, provider) ==
    /\ flows[s].pc = "none"
    /\ flows' = [flows EXCEPT ![s] = [pc |-> "pending", tenant |-> tenant,
                                      provider |-> provider]]
    /\ UNCHANGED <<links, creds, sync, workers, logins, gateVars>>

\* The callback takes the state out before it asks the provider for the token:
\* a state that is not pending is an error page.
Callback(s) ==
    /\ flows[s].pc = "pending" /\ sync.pc = "idle"
    /\ flows' = [flows EXCEPT ![s].pc = "exchange"]
    /\ UNCHANGED <<links, creds, sync, workers, logins, gateVars>>

ExchangeFails(s) ==
    /\ flows[s].pc = "exchange" /\ sync.pc = "idle"
    /\ flows' = [flows EXCEPT ![s].pc = "used"]
    /\ UNCHANGED <<links, creds, sync, workers, logins, gateVars>>

\* The agents of a tenant who has none have nothing to switch on.
SyncFor(tenant, providers) ==
    IF tenant = Owner THEN [NoSync EXCEPT !.pc = "provider", !.todo = providers] ELSE NoSync

\* The token first, then the connection that refers to it.
ExchangeDone(s) ==
    /\ flows[s].pc = "exchange" /\ sync.pc = "idle"
    /\ flows' = [flows EXCEPT ![s].pc = "store"]
    /\ creds' = creds \cup {FlowRef(s)}
    /\ sync' = [NoSync EXCEPT !.pc = "link"]
    /\ UNCHANGED <<links, workers, logins, gateVars>>

MutantLinkAdded(s, browser) ==
    /\ flows[s].pc = "store" /\ sync.pc = "link"
    /\ flows' = [flows EXCEPT ![s].pc = "used"]
    /\ links' = Append(links, Link(browser, flows[s].provider, FlowRef(s)))
    /\ sync' = SyncFor(browser, <<flows[s].provider>>)
    /\ UNCHANGED <<creds, workers, logins, gateVars>>

\* The tenant is the one the state was drawn for, whoever sent the callback.
LinkAdded(s, browser) ==
    /\ flows[s].pc = "store" /\ sync.pc = "link"
    /\ flows' = [flows EXCEPT ![s].pc = "used"]
    /\ links' = Append(links, Link(flows[s].tenant, flows[s].provider, FlowRef(s)))
    /\ sync' = SyncFor(flows[s].tenant, <<flows[s].provider>>)
    /\ UNCHANGED <<creds, workers, logins, gateVars>>

(***************************************************************************)
(* A disconnect: the first connection of the provider; its token, then it. *)
(***************************************************************************)
DisconnectFinds(w, tenant, provider) ==
    /\ workers[w].pc = "free"
    /\ \E first \in PlacesOf(tenant, provider) :
         /\ \A i \in PlacesOf(tenant, provider) : first <= i
         /\ workers' = [workers EXCEPT ![w] = [pc |-> "revoke", ref |-> links[first].ref]]
    /\ UNCHANGED <<flows, links, creds, sync, logins, gateVars>>

Revokes(w) ==
    /\ workers[w].pc = "revoke"
    /\ workers' = [workers EXCEPT ![w].pc = "remove"]
    /\ creds' = creds \ {workers[w].ref}
    /\ UNCHANGED <<flows, links, sync, logins, gateVars>>

\* The loop looks up a connection: its iteration raises when the store shrinks
\* under it, and the login or the hook of the callback that it serves is over.
LookingUp == sync.pc \in {"seed", "provider"} /\ sync.todo # <<>>

Removes(w) ==
    /\ workers[w].pc = "remove"
    /\ workers' = [workers EXCEPT ![w] = NoWork]
    /\ \/ \E i \in DOMAIN links :
             /\ links[i].ref = workers[w].ref /\ links' = RemoveAt(links, i)
             /\ sync' \in IF LookingUp THEN {sync, NoSync} ELSE {sync}
       \/ /\ \A i \in DOMAIN links : links[i].ref # workers[w].ref
          /\ UNCHANGED <<links, sync>>
    /\ UNCHANGED <<flows, creds, logins, gateVars>>

(***************************************************************************)
(* A login: the placeholders that are missing, each connection before its  *)
(* token, then the reconciliation of everything.                           *)
(***************************************************************************)
Seeding(providers) ==
    IF providers = <<>> THEN SyncFor(Owner, Providers)
    ELSE [NoSync EXCEPT !.pc = "seed", !.todo = providers]

Login ==
    /\ sync.pc = "idle" /\ logins < MaxLogins
    /\ logins' = logins + 1
    /\ sync' = Seeding(Seeded)
    /\ UNCHANGED <<flows, links, creds, workers, gateVars>>

SeedsConnection ==
    /\ sync.pc = "seed"
    /\ LET p == Head(sync.todo) IN
       IF Connected(Owner, p)
       THEN sync' = Seeding(Tail(sync.todo)) /\ UNCHANGED links
       ELSE /\ links' = Append(links, Link(Owner, p, Placeholder(p)))
            /\ sync' = [sync EXCEPT !.pc = "token"]
    /\ UNCHANGED <<flows, creds, workers, logins, gateVars>>

SeedsToken ==
    /\ sync.pc = "token"
    /\ creds' = creds \cup {Placeholder(Head(sync.todo))}
    /\ sync' = Seeding(Tail(sync.todo))
    /\ UNCHANGED <<flows, links, workers, logins, gateVars>>

(***************************************************************************)
(* enable_connected_capabilities: for each provider that is connected, the *)
(* configuration is read, and the fields that are not filled are patched.  *)
(* A patch that is refused ends the reconciliation of the agent, silently. *)
(***************************************************************************)
SyncReads ==
    /\ sync.pc = "provider" /\ sync.todo # <<>>
    /\ LET p == Head(sync.todo)
           unfilled == {i \in DOMAIN Unlocks[p] : Current[Unlocks[p][i]] = {}} IN
       IF Connected(Owner, p)
       THEN \E needed \in Sublists(Unlocks[p], unfilled) :
              sync' = [pc |-> "patch", todo |-> Tail(sync.todo), patches |-> needed]
       ELSE sync' = [sync EXCEPT !.todo = Tail(@)]
    /\ UNCHANGED <<flows, links, creds, workers, logins, gateVars>>

SyncPatches ==
    /\ sync.pc = "patch" /\ sync.patches # <<>>
    /\ GateCall(TheSync, Head(sync.patches), {"on"}, NoVersion)
    /\ sync' = [sync EXCEPT !.pc = "gate", !.patches = Tail(@)]
    /\ UNCHANGED <<flows, links, creds, workers, logins>>

SyncReturns ==
    /\ sync.pc = "gate" /\ Returned(TheSync)
    /\ sync' = [sync EXCEPT !.pc = "patch",
                            !.patches = IF calls[TheSync].result = "accepted" THEN @ ELSE <<>>]
    /\ Take(TheSync) /\ UNCHANGED <<flows, links, creds, workers, logins>>

SyncMovesOn ==
    /\ \/ sync.pc = "patch" /\ sync.patches = <<>>
       \/ sync.pc = "provider" /\ sync.todo = <<>>
    /\ sync' = IF sync.todo = <<>> THEN NoSync ELSE [sync EXCEPT !.pc = "provider"]
    /\ UNCHANGED <<flows, links, creds, workers, logins, gateVars>>

LinksNext ==
    \/ \E s \in Flows, t \in Tenants, p \in Range(Providers) : BeginConnect(s, t, p)
    \/ \E s \in Flows : Callback(s) \/ ExchangeFails(s) \/ ExchangeDone(s)
    \/ \E s \in Flows, browser \in Tenants : LinkAdded(s, browser)
    \/ \E w \in Workers, t \in Tenants, p \in Range(Providers) : DisconnectFinds(w, t, p)
    \/ \E w \in Workers : Revokes(w) \/ Removes(w)
    \/ Login \/ SeedsConnection \/ SeedsToken
    \/ SyncReads \/ SyncPatches \/ SyncReturns \/ SyncMovesOn

(***************************************************************************)
(* Properties.                                                             *)
(***************************************************************************)
LinksTypeOK ==
    /\ \A s \in Flows : flows[s].pc \in {"none", "pending", "exchange", "store", "used"}
    /\ sync.pc \in {"idle", "seed", "token", "link", "provider", "patch", "gate"}
    /\ \A w \in Workers : workers[w].pc \in {"free", "revoke", "remove"}
    /\ logins \in 0 .. MaxLogins

\* However often a callback is repeated, from whatever browser, and however flows,
\* logins and disconnects overlap write by write: each connection belongs to the
\* tenant and the provider its flow was started for, and no flow made two; a
\* connection is without its token only while the login is just seeding it or a
\* disconnect that has revoked it is about to remove it, so none is left dead; and
\* the token of a flow is without its connection only until the callback adds it, so
\* none outlives the disconnect of its tenant.  A placeholder's token can: a
\* disconnect that comes between the two writes of the seeding leaves it behind.
ConnectionsMatchTokens ==
    /\ \A i, j \in DOMAIN links : links[i].ref = links[j].ref => i = j
    /\ \A l \in Range(links) :
          /\ \/ l.tenant = Owner /\ l.ref = Placeholder(l.provider)
             \/ \E s \in Flows : l = Link(flows[s].tenant, flows[s].provider, FlowRef(s))
          /\ \/ l.ref \in creds
             \/ sync.pc = "token" /\ l.ref = Placeholder(Head(sync.todo))
             \/ \E w \in Workers : workers[w].pc = "remove" /\ workers[w].ref = l.ref
    /\ \A s \in Flows : FlowRef(s) \in creds =>
          flows[s].pc = "store" \/ \E l \in Range(links) : l.ref = FlowRef(s)
=============================================================================
