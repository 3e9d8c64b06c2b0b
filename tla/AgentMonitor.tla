---------------------------- MODULE AgentMonitor ----------------------------
(***************************************************************************)
(* The live machine panel: one of the monitored agents is picked           *)
(* (MachineViewMount.tsx), and a panel keyed by its name polls the agent's *)
(* state, follows its event stream (useAgentMonitor.ts) and reads its      *)
(* declared machines (useDeclared.ts) through the monitor proxy.           *)
(*                                                                         *)
(* Picking another agent unmounts the panel and mounts a new one; what was *)
(* asked for the old one is still answered.  A mount is numbered, and an   *)
(* answer or a frame carries the number of the mount that waits for it:    *)
(* the closure whose "active" flag the code checks.                        *)
(***************************************************************************)
EXTENDS Naturals, Sequences, FiniteSets

CONSTANTS
    Agents,      \* the agents ui.yaml names
    First,       \* the one listed first
    None,
    MaxKept,     \* MAX_MONITOR_EVENTS
    MaxMounts,   \* bound: panels mounted in a behaviour
    MaxChanges,  \* bound: changes of the deployment
    MaxFrames    \* bound: run events streamed in a behaviour

ASSUME AgentsAssumption ==
    First \in Agents /\ None \notin Agents /\ "reading" \notin Agents
ASSUME NumbersAssumption ==
    /\ MaxKept \in Nat \ {0} /\ MaxMounts \in Nat
    /\ MaxChanges \in Nat /\ MaxFrames \in Nat

VARIABLES
    world,     \* what the proxy finds of each agent: up, down or not deployed
    changes,   \* bounds the changes of the world
    emitted,   \* run events streamed so far
    agent,     \* the agent picked
    mount,     \* the number of the mounted panel
    status,    \* its status
    run,       \* the agent its run snapshot is of, or None
    events,    \* its run events [agent, number], newest first
    declared,  \* its declared machines: the agent they are of, None or "reading"
    streams,   \* the open event streams [mount, agent]
    timers,    \* the mounts whose next poll is scheduled
    requests,  \* reads in flight [mount, agent, read, reply]
    frames,    \* stream frames not yet handled [mount, agent, number]
    received   \* history: run events handled since the mount, oldest first

panelVars == <<status, run, events, declared, received>>
envVars   == <<world, changes, emitted>>
vars == <<envVars, agent, mount, panelVars, streams, timers, requests, frames>>

Worlds   == {"up", "down", "absent"}
Statuses == {"connecting", "connected", "error", "absent"}

Unanswered == "none"

Request(m, a, read) == [mount |-> m, agent |-> a, read |-> read, reply |-> Unanswered]

\* Mounting a panel polls the state and reads the machines and the words.
MountRequests(m, a) == {Request(m, a, "state"), Request(m, a, "declared")}

Init ==
    /\ world \in [Agents -> Worlds]
    /\ changes = 0
    /\ emitted = 0
    /\ agent = First
    /\ mount = 1
    /\ status = "connecting" /\ run = None /\ events = <<>> /\ declared = "reading"
    /\ streams = {} /\ timers = {} /\ frames = <<>>
    /\ requests = MountRequests(1, First)
    /\ received = <<>>

-----------------------------------------------------------------------------
\* The deployment and the agents' runs.

Redeploy(a, w) ==
    /\ changes < MaxChanges
    /\ world[a] # w
    /\ world' = [world EXCEPT ![a] = w]
    /\ changes' = changes + 1
    /\ UNCHANGED <<emitted, agent, mount, panelVars, streams, timers, requests, frames>>

\* A transition of an agent's run reaches an open stream.  One that falls
\* between two connections of the stream is lost: it is no step.
RunStep(s) ==
    /\ world[s.agent] = "up"
    /\ emitted < MaxFrames
    /\ emitted' = emitted + 1
    /\ frames' = Append(frames, [mount |-> s.mount, agent |-> s.agent, number |-> emitted + 1])
    /\ UNCHANGED <<world, changes, agent, mount, panelVars, streams, timers, requests>>

\* The proxy's 404 says that the agent is not deployed; a refusal, a lost
\* connection or a body that is no JSON fails the read.
Reply(q) ==
    CASE world[q.agent] = "absent" -> "notDeployed"
      [] world[q.agent] = "up"     -> "ok"
      [] OTHER                     -> "failed"

Answer(q) ==
    /\ q.reply = Unanswered
    /\ requests' = (requests \ {q}) \cup {[q EXCEPT !.reply = Reply(q)]}
    /\ UNCHANGED <<envVars, agent, mount, panelVars, streams, timers, frames>>

-----------------------------------------------------------------------------
\* The panel.

\* Mutant: the cleanup of the old panel forgets its timer.
PickKeepsTimer(a) ==
    /\ a # agent
    /\ mount < MaxMounts
    /\ agent' = a
    /\ mount' = mount + 1
    /\ status' = "connecting" /\ run' = None /\ events' = <<>> /\ declared' = "reading"
    /\ received' = <<>>
    /\ streams' = {s \in streams : s.mount # mount}
    /\ requests' = requests \cup MountRequests(mount + 1, a)
    /\ UNCHANGED <<envVars, timers, frames>>

\* The agent picker; the old panel's cleanup clears its timer and closes its
\* stream, and the new panel starts from nothing.
Pick(a) ==
    /\ a # agent
    /\ mount < MaxMounts
    /\ agent' = a
    /\ mount' = mount + 1
    /\ status' = "connecting" /\ run' = None /\ events' = <<>> /\ declared' = "reading"
    /\ received' = <<>>
    /\ timers' = timers \ {mount}
    /\ streams' = {s \in streams : s.mount # mount}
    /\ requests' = requests \cup MountRequests(mount + 1, a)
    /\ UNCHANGED <<envVars, frames>>

\* Mutant: no closure checks that its panel is still there.
IsMounted(q) == q.mount <= mount

\* A panel that is gone takes no answer.
IsActive(q) == q.mount = mount

\* Mutant: every state but the first survives a failure.
StatusKeptOnFailure(prev) == IF prev = "connecting" THEN "error" ELSE prev

StatusAfterStateFailure(prev) == IF prev = "connected" THEN "connected" ELSE "error"

PollNotDeployed(q) ==
    /\ q.reply = "notDeployed"
    /\ status' = "absent"
    /\ streams' = {s \in streams : s.mount # mount}
    /\ run' = run

PollConnected(q) ==
    /\ q.reply = "ok"
    /\ status' = "connected"
    /\ run' = q.agent
    /\ streams' = IF \E s \in streams : s.mount = mount THEN streams
                  ELSE streams \cup {[mount |-> mount, agent |-> q.agent]}

PollFailed(q) ==
    /\ q.reply = "failed"
    /\ status' = StatusAfterStateFailure(status)
    /\ UNCHANGED <<run, streams>>

\* A poll's answer, and the timer of the next one.
Polled(q) ==
    /\ IsActive(q)
    /\ q.read = "state" /\ q.reply # Unanswered
    /\ PollNotDeployed(q) \/ PollConnected(q) \/ PollFailed(q)
    /\ timers' = timers \cup {mount}
    /\ requests' = requests \ {q}
    /\ UNCHANGED <<envVars, agent, mount, events, declared, frames, received>>

\* The machines and the words; a read that fails yields none.
ReadDeclared(q) ==
    /\ IsActive(q)
    /\ q.read = "declared" /\ q.reply # Unanswered
    /\ declared' = IF q.reply = "ok" THEN q.agent ELSE None
    /\ requests' = requests \ {q}
    /\ UNCHANGED <<envVars, agent, mount, status, run, events, streams, timers, frames, received>>

\* An answer for a panel that is gone.
Ignored(q) ==
    /\ ~IsActive(q) /\ q.reply # Unanswered
    /\ requests' = requests \ {q}
    /\ UNCHANGED <<envVars, agent, mount, panelVars, streams, timers, frames>>

Poll ==
    /\ mount \in timers
    /\ timers' = timers \ {mount}
    /\ requests' = requests \cup {Request(mount, agent, "state")}
    /\ UNCHANGED <<envVars, agent, mount, panelVars, streams, frames>>

Newest(seq) == SubSeq(seq, 1, IF Len(seq) < MaxKept THEN Len(seq) ELSE MaxKept)

\* A run event of the stream; one that a gone panel's stream brought is
\* dropped.
Frame ==
    /\ frames # <<>>
    /\ frames' = Tail(frames)
    /\ LET event == [agent |-> Head(frames).agent, number |-> Head(frames).number]
       IN  IF IsActive(Head(frames))
           THEN /\ events' = Newest(<<event>> \o events)
                /\ received' = Append(received, event)
           ELSE UNCHANGED <<events, received>>
    /\ UNCHANGED <<envVars, agent, mount, status, run, declared, streams, timers, requests>>

\* What LiveMachines draws.
View ==
    CASE status = "absent" -> "notDeployed"
      [] status # "absent" /\ (declared = "reading" \/ (declared = None /\ status = "connecting"))
            -> "reading"
      [] status # "absent" /\ declared = None /\ status # "connecting" -> "unavailable"
      [] OTHER -> "figure"

Next ==
    \/ \E a \in Agents, w \in Worlds : Redeploy(a, w)
    \/ \E s \in streams : RunStep(s)
    \/ \E a \in Agents : Pick(a)
    \/ \E q \in requests : Answer(q) \/ Polled(q) \/ ReadDeclared(q) \/ Ignored(q)
    \/ Poll
    \/ Frame

\* A read is answered in the end, an answer is handled and a timer fires: the
\* promise settles and the browser's event loop runs.
Fairness ==
    /\ \A m \in 1..MaxMounts, a \in Agents, r \in {"state", "declared"} :
        /\ WF_vars(\E q \in requests : q.mount = m /\ q.agent = a /\ q.read = r /\ Answer(q))
        /\ WF_vars(\E q \in requests : q.mount = m /\ q.read = r
                                       /\ (Polled(q) \/ ReadDeclared(q) \/ Ignored(q)))
    /\ WF_vars(Poll)
    /\ WF_vars(Frame)

Spec == Init /\ [][Next]_vars

FairSpec == Spec /\ Fairness

-----------------------------------------------------------------------------
(***************************************************************************)
(* Properties.                                                             *)
(***************************************************************************)
Replies == {Unanswered, "notDeployed", "failed", "ok"}

\* Every variable in its type.
TypeOK ==
    /\ world \in [Agents -> Worlds] /\ changes \in Nat /\ emitted \in Nat
    /\ agent \in Agents /\ mount \in Nat \ {0}
    /\ status \in Statuses
    /\ run \in {None} \cup Agents
    /\ events \in Seq([agent : Agents, number : Nat])
    /\ declared \in {None, "reading"} \cup Agents
    /\ streams \subseteq [mount : Nat, agent : Agents]
    /\ timers \subseteq Nat
    /\ requests \subseteq [mount : Nat, agent : Agents, read : {"state", "declared"},
                           reply : Replies]
    /\ frames \in Seq([mount : Nat, agent : Agents, number : Nat])
    /\ received \in Seq([agent : Agents, number : Nat])

\* What the panel shows is the picked agent's, however late the answers to an
\* earlier pick come in: its run, its run events and its declared machines.
ShownIsPicked ==
    /\ run # None => run = agent
    /\ \A i \in DOMAIN events : events[i].agent = agent
    /\ declared \in Agents => declared = agent

\* No stream outlives its panel or is opened twice (each holds one of the few
\* connections a browser has to the origin), and an agent that is not deployed
\* or was not reached yet is not streamed from.
OneStream ==
    /\ \A s, t \in streams : s = t
    /\ \A s \in streams : s.mount = mount /\ s.agent = agent
    /\ status \in {"connecting", "absent"} => streams = {}

\* One poll loop per panel: the next poll is either scheduled or in flight,
\* never both and never lost, so a slow agent is not asked again meanwhile.
OnePollLoop ==
    LET polls == {q \in requests : q.read = "state" /\ q.mount = mount}
    IN  /\ timers \subseteq {mount}
        /\ Cardinality(polls) = IF mount \in timers THEN 0 ELSE 1

\* However often the agent is picked anew, one reader asks and listens.
OneReader == OneStream /\ OnePollLoop

\* The event list is the newest of the run events received, newest first: no
\* event is dropped while there is room.
EventsAreNewest ==
    /\ Len(events) = IF Len(received) < MaxKept THEN Len(received) ELSE MaxKept
    /\ \A i \in DOMAIN events : events[i] = received[Len(received) + 1 - i]

\* Once a panel's agent stays as it is, the panel settles on it: absent when it
\* is not deployed, connected when it is up -- an agent added at run time is
\* found without a reload -- and never absent or waiting when it refuses.
StatusSettles ==
    \A a \in Agents :
        /\ <>[](agent = a /\ world[a] = "absent") => <>[](View = "notDeployed")
        /\ <>[](agent = a /\ world[a] = "up") =>
              <>[](status = "connected" /\ View # "reading")
        /\ <>[](agent = a /\ world[a] = "down") =>
              <>[](status \in {"connected", "error"} /\ View # "reading")

=============================================================================
