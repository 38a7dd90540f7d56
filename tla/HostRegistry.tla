---------------------------- MODULE HostRegistry ----------------------------
(***************************************************************************)
(* The hosts a hub knows (hosts/registry.rs), the task that serves each    *)
(* agent connection (hosts/listener.rs) and the host list of a merged view *)
(* (api/merged.rs).                                                        *)
(*                                                                         *)
(* A link is named by its connection: the link numbers of the code come    *)
(* from one counter and are as unique.  Every step between two points      *)
(* where the registry's mutex is released is one action.  A change of the  *)
(* map is announced after the mutex is released: "owed" counts the         *)
(* announcements still to be made.                                         *)
(***************************************************************************)
EXTENDS Naturals, FiniteSets

CONSTANTS
  Names,      \* host names agents announce
  LocalName,  \* the hub's own name
  Machines,   \* machine ids
  Conns,      \* TCP connections accepted in one behaviour
  NoConn,     \* no link
  HostLimit   \* HOST_LIMIT, 64 in the code

ASSUME RegistryAssumption ==
  /\ LocalName \in Names
  /\ NoConn \notin Conns
  /\ HostLimit \in Nat

VARIABLES
  listed,    \* names in HostRegistry.hosts
  machine,   \* machine id of a listed host
  link,      \* its current link, or NoConn when it is offline
  old,       \* listed hosts offline for longer than the retention time
  unseen,    \* HostRegistry.changes has a value the merged view has not seen
  owed,      \* map changes whose send_modify is still to come
  stage,     \* the task serving each connection
  name, mach, \* what its hello announced
  up,        \* the agent still holds its end of the connection
  openLinks, \* links whose pending table is still there
  viewer, forwarded, shown  \* one merged view: its step, the link it forwards
             \* per host, the host list it has sent

registryVars == <<listed, machine, link, old>>
connVars == <<stage, name, mach, up, openLinks>>
viewVars == <<viewer, forwarded, shown>>
vars == <<registryVars, unseen, owed, connVars, viewVars>>

Stages == {"new", "hello", "pruned", "admitted", "relay", "leaving", "ended"}
Links  == Conns \cup {NoConn}

\* The shape of the state: only a listed host that is offline is due for removal.
TypeOK ==
  /\ listed \subseteq Names
  /\ machine \in [Names -> Machines]
  /\ link \in [Names -> Links]
  /\ old \subseteq {n \in listed : link[n] = NoConn}
  /\ unseen \in BOOLEAN /\ owed \in Nat
  /\ stage \in [Conns -> Stages]
  /\ name \in [Conns -> Names]
  /\ mach \in [Conns -> Machines]
  /\ up \in [Conns -> BOOLEAN]
  /\ openLinks \subseteq Conns
  /\ viewer \in {"waiting", "online", "summaries"}
  /\ forwarded \in [Names -> Links]
  /\ shown \subseteq Names \X BOOLEAN

Init ==
  /\ listed = {} /\ old = {}
  /\ machine \in {[n \in Names |-> m] : m \in Machines}
  /\ link = [n \in Names |-> NoConn]
  /\ unseen = FALSE /\ owed = 0
  /\ stage = [c \in Conns |-> "new"]
  /\ name = [c \in Conns |-> LocalName]
  /\ mach \in {[c \in Conns |-> m] : m \in Machines}
  /\ up = [c \in Conns |-> TRUE]
  /\ openLinks = {}
  /\ viewer = "online"
  /\ forwarded = [n \in Names |-> NoConn]
  /\ shown = {}

-----------------------------------------------------------------------------
(* HostRegistry                                                            *)

\* prune: forget hosts offline for too long, and owe an announcement if any.
Prune ==
  /\ listed' = listed \ old
  /\ old' = {}
  /\ owed' = IF old # {} THEN owed + 1 ELSE owed
  /\ UNCHANGED <<machine, link>>

MutantRefusedLimit(c) ==
  \/ /\ name[c] \in listed /\ link[name[c]] # NoConn
     /\ machine[name[c]] # mach[c]
  \/ /\ name[c] \notin listed /\ Cardinality(listed) > HostLimit

\* admit: the name is taken by another machine, or the hub is full.
Refused(c) ==
  \/ /\ name[c] \in listed /\ link[name[c]] # NoConn
     /\ machine[name[c]] # mach[c]
  \/ /\ name[c] \notin listed /\ Cardinality(listed) >= HostLimit

\* The host list of the API: every listed host and whether it is online.
Summary == {<<n, link[n] # NoConn>> : n \in listed}

-----------------------------------------------------------------------------
(* serve_agent, one task per connection                                    *)

SetStage(c, s) == stage' = [stage EXCEPT ![c] = s]

\* An agent connects and says hello.
Connect(c, n, m) ==
  /\ stage[c] = "new"
  /\ SetStage(c, "hello")
  /\ name' = [name EXCEPT ![c] = n]
  /\ mach' = [mach EXCEPT ![c] = m]
  /\ openLinks' = openLinks \cup {c}
  /\ UNCHANGED <<registryVars, unseen, owed, up, viewVars>>

\* The agent's end goes away: process killed, network lost, link given up.
PeerDrops(c) ==
  /\ stage[c] \in Stages \ {"new", "ended"} /\ up[c]
  /\ up' = [up EXCEPT ![c] = FALSE]
  /\ UNCHANGED <<registryVars, unseen, owed, stage, name, mach, openLinks, viewVars>>

\* No hello in time, wrong protocol or token, invalid name, the hub's name.
Reject(c) ==
  /\ stage[c] = "hello"
  /\ SetStage(c, "ended")
  /\ UNCHANGED <<registryVars, unseen, owed, name, mach, up, openLinks, viewVars>>

\* admit, up to its first release of the mutex.
AdmitPrune(c) ==
  /\ stage[c] = "hello" /\ name[c] # LocalName
  /\ Prune
  /\ SetStage(c, "pruned")
  /\ UNCHANGED <<unseen, name, mach, up, openLinks, viewVars>>

\* admit: insert the host and close the link it replaces, or refuse.
Admit(c) ==
  /\ stage[c] = "pruned"
  /\ IF Refused(c)
       THEN /\ SetStage(c, "ended")
            /\ UNCHANGED <<registryVars, owed, openLinks>>
       ELSE /\ SetStage(c, "admitted")
            /\ listed' = listed \cup {name[c]}
            /\ machine' = [machine EXCEPT ![name[c]] = mach[c]]
            /\ link' = [link EXCEPT ![name[c]] = c]
            /\ old' = old \ {name[c]}
            /\ openLinks' = openLinks \ {link[name[c]]}
            /\ owed' = owed + 1
  /\ UNCHANGED <<unseen, name, mach, up, viewVars>>

\* The welcome is written; the relay loop starts.
Welcome(c) ==
  /\ stage[c] = "admitted"
  /\ SetStage(c, "relay")
  /\ UNCHANGED <<registryVars, unseen, owed, name, mach, up, openLinks, viewVars>>

\* The welcome cannot be written: "?" leaves serve_agent at once.
WelcomeFails(c) ==
  /\ stage[c] = "admitted" /\ ~up[c]
  /\ SetStage(c, "ended")
  /\ UNCHANGED <<registryVars, unseen, owed, name, mach, up, openLinks, viewVars>>

MutantRelayEnds(c) ==
  /\ stage[c] = "relay"
  /\ link[name[c]] # c
  /\ SetStage(c, "leaving")
  /\ UNCHANGED <<registryVars, unseen, owed, name, mach, up, openLinks, viewVars>>

\* relay_agent_messages returns: the link failed or was idle for too long, or
\* a ping tick finds that another link has replaced it.
RelayEnds(c) ==
  /\ stage[c] = "relay"
  /\ ~up[c] \/ link[name[c]] # c
  /\ SetStage(c, "leaving")
  /\ UNCHANGED <<registryVars, unseen, owed, name, mach, up, openLinks, viewVars>>

MutantDisconnected(c) ==
  /\ stage[c] = "leaving"
  /\ SetStage(c, "ended")
  /\ openLinks' = openLinks \ {c}
  /\ link' = [link EXCEPT ![name[c]] = NoConn]
  /\ owed' = owed + 1
  /\ UNCHANGED <<listed, machine, old, unseen, name, mach, up, viewVars>>

MutantDisconnectedSilent(c) ==
  /\ stage[c] = "leaving"
  /\ SetStage(c, "ended")
  /\ openLinks' = openLinks \ {c}
  /\ UNCHANGED <<registryVars, unseen, owed, name, mach, up, viewVars>>

\* disconnected: mark the host offline unless a newer link serves it.
Disconnected(c) ==
  /\ stage[c] = "leaving"
  /\ SetStage(c, "ended")
  /\ openLinks' = openLinks \ {c}
  /\ IF name[c] \in listed /\ link[name[c]] = c
       THEN link' = [link EXCEPT ![name[c]] = NoConn] /\ owed' = owed + 1
       ELSE UNCHANGED <<link, owed>>
  /\ UNCHANGED <<listed, machine, old, unseen, name, mach, up, viewVars>>

\* Ten minutes pass since a host went offline.
RetentionElapses(n) ==
  /\ n \in listed \ old /\ link[n] = NoConn
  /\ old' = old \cup {n}
  /\ UNCHANGED <<listed, machine, link, unseen, owed, connVars, viewVars>>

\* changes.send_modify
Notify ==
  /\ owed > 0
  /\ owed' = owed - 1
  /\ unseen' = TRUE
  /\ UNCHANGED <<registryVars, connVars, viewVars>>

-----------------------------------------------------------------------------
(* The Hosts step of build_merged_event_response                           *)

\* changes.changed() and mark_unchanged
Wake ==
  /\ viewer = "waiting" /\ unseen
  /\ unseen' = FALSE
  /\ viewer' = "online"
  /\ UNCHANGED <<registryVars, owed, connVars, forwarded, shown>>

\* online(): a forwarder for every link that has none yet.
ForwardOnline ==
  /\ viewer = "online"
  /\ viewer' = "summaries"
  /\ forwarded' = [n \in Names |-> IF link[n] # NoConn THEN link[n] ELSE forwarded[n]]
  /\ UNCHANGED <<registryVars, unseen, owed, connVars, shown>>

MutantSendHosts ==
  /\ viewer = "summaries"
  /\ viewer' = "waiting"
  /\ Prune
  /\ unseen' = FALSE
  /\ shown' = Summary'
  /\ UNCHANGED <<connVars, forwarded>>

\* summaries(), which prunes, and the "hosts" event.
SendHosts ==
  /\ viewer = "summaries"
  /\ viewer' = "waiting"
  /\ Prune
  /\ shown' = Summary'
  /\ UNCHANGED <<unseen, connVars, forwarded>>

-----------------------------------------------------------------------------
Serve(c) == AdmitPrune(c) \/ Admit(c) \/ Welcome(c) \/ RelayEnds(c) \/ Disconnected(c)

Next ==
  \/ \E c \in Conns :
       \/ \E n \in Names, m \in Machines : Connect(c, n, m)
       \/ PeerDrops(c) \/ Reject(c) \/ WelcomeFails(c)
       \/ Serve(c)
  \/ \E n \in Names : RetentionElapses(n)
  \/ Notify \/ Wake \/ ForwardOnline \/ SendHosts

Spec == Init /\ [][Next]_vars

\* The runtime polls every task that can go on; a lost connection is noticed
\* by a read error or after IDLE_TIMEOUT, a replaced link at the next ping.
Fairness ==
  /\ \A c \in Conns : WF_vars(Serve(c) \/ WelcomeFails(c))
  /\ WF_vars(Notify)
  /\ WF_vars(Wake \/ ForwardOnline \/ SendHosts)

FairSpec == Spec /\ Fairness

-----------------------------------------------------------------------------
(* Properties                                                              *)

\* "More than 64 hosts are rejected", counting offline hosts still listed,
\* although admit releases the mutex between pruning and inserting.
LimitKept == Cardinality(listed) <= HostLimit

\* A host listed online routes requests to a link announced under that very
\* name by that machine, whose pending table is open, and never to the hub's
\* own name.
OnlineTakesRequests ==
  \A n \in Names : link[n] # NoConn =>
    /\ n \in listed /\ n # LocalName
    /\ name[link[n]] = n /\ mach[link[n]] = machine[n]
    /\ link[n] \in openLinks

\* The link a host is listed with, together with the stages of its task: the
\* inductive strengthening of OnlineTakesRequests.
LinksSound ==
  /\ \A n \in Names : link[n] # NoConn =>
       /\ n \in listed /\ n # LocalName
       /\ name[link[n]] = n /\ mach[link[n]] = machine[n]
       /\ link[n] \in openLinks
       /\ stage[link[n]] \notin {"new", "hello", "pruned"}
  /\ \A c \in Conns :
       /\ stage[c] \in {"hello", "pruned"} => c \in openLinks
       /\ stage[c] = "pruned" => name[c] # LocalName

\* What a merged view knows, at each of its steps: the inductive
\* strengthening of NoMissedChange.
ViewSound ==
  ~unseen /\ owed = 0 =>
    /\ viewer # "online" =>
         \A n \in Names : link[n] # NoConn => forwarded[n] = link[n]
    /\ viewer = "waiting" => shown = Summary

\* No change of the hosts is lost on a merged view: once it waits and every
\* announcement has been made and seen, its last host list is the current one
\* and it forwards the current link of every online host.
NoMissedChange ==
  viewer = "waiting" /\ ~unseen /\ owed = 0 =>
    /\ shown = Summary
    /\ \A n \in Names : link[n] # NoConn => forwarded[n] = link[n]

\* "A replaced link must not mark the host offline": a host goes offline only
\* through the task of its current link.
ReplacedLinkHarmless ==
  [][\A n \in Names : link[n] # NoConn /\ link'[n] = NoConn
        => stage[link[n]] = "leaving"]_vars

\* "An online host of another machine keeps its name": a link is replaced
\* only by a link of the same machine.
NameKept ==
  [][\A n \in Names : link[n] # NoConn /\ link'[n] # NoConn
        => mach[link[n]] = mach[link'[n]]]_vars

\* Once a link relays messages, losing the agent takes the host offline or
\* leaves it to a newer link.
LostRelayGoesOffline ==
  \A c \in Conns : (stage[c] = "relay" /\ ~up[c]) ~> (link[name[c]] # c)

\* "A disconnected host stays listed as offline" (DEVELOPMENT.md): whenever
\* the agent behind the current link is gone, the host ceases to be online
\* with that link.
DisconnectedGoesOffline ==
  \A c \in Conns :
    (stage[c] # "new" /\ link[name[c]] = c /\ ~up[c]) ~> (link[name[c]] # c)

=============================================================================
