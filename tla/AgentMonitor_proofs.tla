------------------------ MODULE AgentMonitor_proofs ------------------------
(***************************************************************************)
(* What the live machine panel keeps for every set of agents and every     *)
(* number of mounts, deployment changes and run events: what it shows is   *)
(* the picked agent's, one stream, one poll loop and the newest events.    *)
(***************************************************************************)
EXTENDS AgentMonitor, FiniteSetTheorems, TLAPS

Reads == {"state", "declared"}
Asked == [mount : Nat, agent : Agents, read : Reads, reply : Replies]
Event == [agent : Agents, number : Nat]

\* The polls in flight of the mounted panel.
PollsOf(rs, m) == {q \in rs : q.read = "state" /\ q.mount = m}

\* What is in flight for the mounted panel was asked of the agent picked;
\* nothing in flight is of a panel to come.
InFlight ==
    /\ \A q \in requests : q.mount <= mount /\ (q.mount = mount => q.agent = agent)
    /\ \A i \in DOMAIN frames :
        frames[i].mount <= mount /\ (frames[i].mount = mount => frames[i].agent = agent)

\* OnePollLoop without the cardinality.
PollOnce ==
    /\ timers \subseteq {mount}
    /\ mount \in timers => PollsOf(requests, mount) = {}
    /\ mount \notin timers => \E q \in requests : PollsOf(requests, mount) = {q}

IInv == TypeOK /\ InFlight /\ ShownIsPicked /\ OneStream /\ PollOnce

-----------------------------------------------------------------------------
LEMMA TypeInit == Init => TypeOK
BY AgentsAssumption
   DEF Init, TypeOK, Statuses, MountRequests, Request, Unanswered, Replies

\* The members of a sequence and of its tail.
LEMMA TailDomain ==
    ASSUME NEW S, NEW s \in Seq(S), s # <<>>
    PROVE  /\ Head(s) = s[1] /\ 1 \in DOMAIN s
           /\ Tail(s) \in Seq(S)
           /\ \A i \in DOMAIN Tail(s) : i + 1 \in DOMAIN s /\ Tail(s)[i] = s[i + 1]
OBVIOUS

LEMMA MemberOf ==
    ASSUME NEW S, NEW s \in Seq(S), NEW i \in DOMAIN s
    PROVE  s[i] \in S
OBVIOUS

LEMMA AppendDomain ==
    ASSUME NEW S, NEW s \in Seq(S), NEW e \in S
    PROVE  /\ Append(s, e) \in Seq(S)
           /\ \A i \in DOMAIN Append(s, e) :
                (i \in DOMAIN s /\ Append(s, e)[i] = s[i]) \/ Append(s, e)[i] = e
OBVIOUS

\* A new event goes to the front and, past the capacity, the last one goes.
LEMMA NewestOf ==
    ASSUME NEW S, NEW s \in Seq(S), NEW e \in S
    PROVE  /\ Newest(<<e>> \o s) \in Seq(S)
           /\ Len(Newest(<<e>> \o s)) = IF Len(s) < MaxKept THEN Len(s) + 1 ELSE MaxKept
           /\ Newest(<<e>> \o s)[1] = e
           /\ \A i \in DOMAIN Newest(<<e>> \o s) : i # 1 => i - 1 \in DOMAIN s
                                                /\ Newest(<<e>> \o s)[i] = s[i - 1]
<1> DEFINE t == <<e>> \o s
           n == IF Len(t) < MaxKept THEN Len(t) ELSE MaxKept
<1>1. /\ t \in Seq(S) /\ Len(t) = Len(s) + 1 /\ t[1] = e
      /\ \A i \in 2..Len(t) : i - 1 \in DOMAIN s /\ t[i] = s[i - 1]
  OBVIOUS
<1>2. n \in Nat /\ n <= Len(t) /\ n >= 1
  BY <1>1, NumbersAssumption
<1>3. n = IF Len(s) < MaxKept THEN Len(s) + 1 ELSE MaxKept
  BY <1>1, NumbersAssumption
<1>4. /\ SubSeq(t, 1, n) \in Seq(S) /\ Len(SubSeq(t, 1, n)) = n
      /\ \A i \in 1..n : SubSeq(t, 1, n)[i] = t[i]
  <2> HIDE DEF t, n
  <2> QED BY <1>1, <1>2
<1>5. Newest(t) = SubSeq(t, 1, n)
  BY DEF Newest
<1> HIDE DEF t, n
<1>6. /\ Newest(t) \in Seq(S)
      /\ Len(Newest(t)) = IF Len(s) < MaxKept THEN Len(s) + 1 ELSE MaxKept
      /\ Newest(t)[1] = e
      /\ \A i \in DOMAIN Newest(t) : i # 1 => i - 1 \in DOMAIN s /\ Newest(t)[i] = s[i - 1]
  BY <1>1, <1>2, <1>3, <1>4, <1>5
<1> QED BY <1>6 DEF t

LEMMA TypeNext == TypeOK /\ [Next]_vars => TypeOK'
<1> SUFFICES ASSUME TypeOK, [Next]_vars PROVE TypeOK'
  OBVIOUS
<1> USE AgentsAssumption, NumbersAssumption
<1>1. ASSUME NEW a \in Agents, NEW w \in Worlds, Redeploy(a, w) PROVE TypeOK'
  BY <1>1 DEF TypeOK, Redeploy, panelVars
<1>2. ASSUME NEW s \in streams, RunStep(s) PROVE TypeOK'
  <2>1. [mount |-> s.mount, agent |-> s.agent, number |-> emitted + 1]
            \in [mount : Nat, agent : Agents, number : Nat]
    BY DEF TypeOK
  <2>2. frames' \in Seq([mount : Nat, agent : Agents, number : Nat])
    BY <1>2, <2>1, AppendDomain DEF TypeOK, RunStep
  <2> QED BY <1>2, <2>2 DEF TypeOK, RunStep, panelVars
<1>3. ASSUME NEW a \in Agents, Pick(a) PROVE TypeOK'
  <2>1. MountRequests(mount + 1, a) \subseteq Asked
    BY DEF TypeOK, MountRequests, Request, Unanswered, Asked, Reads, Replies
  <2>2. requests' \subseteq Asked
    BY <1>3, <2>1 DEF TypeOK, Pick, Asked, Reads
  <2> QED BY <1>3, <2>2 DEF TypeOK, Pick, Statuses, envVars, Asked, Reads
<1>4. ASSUME NEW q \in requests, Answer(q) PROVE TypeOK'
  <2>1. Reply(q) \in Replies
    BY DEF Reply, Replies
  <2>2. [q EXCEPT !.reply = Reply(q)] \in Asked
    BY <2>1 DEF TypeOK, Asked, Reads
  <2> QED BY <1>4, <2>2 DEF TypeOK, Answer, Asked, Reads, envVars, panelVars
<1>5. ASSUME NEW q \in requests, Polled(q) PROVE TypeOK'
  <2>1. q.agent \in Agents
    BY DEF TypeOK
  <2>2. status' \in Statuses /\ run' \in {None} \cup Agents
        /\ streams' \subseteq [mount : Nat, agent : Agents]
    <3>1. CASE PollNotDeployed(q)
      BY <3>1 DEF TypeOK, PollNotDeployed, Statuses
    <3>2. CASE PollConnected(q)
      BY <3>2, <2>1 DEF TypeOK, PollConnected, Statuses
    <3>3. CASE PollFailed(q)
      BY <3>3 DEF TypeOK, PollFailed, StatusAfterStateFailure, Statuses
    <3> QED BY <1>5, <3>1, <3>2, <3>3 DEF Polled
  <2> QED BY <1>5, <2>2 DEF TypeOK, Polled, envVars
<1>6. ASSUME NEW q \in requests, ReadDeclared(q) PROVE TypeOK'
  BY <1>6 DEF TypeOK, ReadDeclared, envVars
<1>7. ASSUME NEW q \in requests, Ignored(q) PROVE TypeOK'
  BY <1>7 DEF TypeOK, Ignored, envVars, panelVars
<1>8. CASE Poll
  <2>1. Request(mount, agent, "state") \in Asked
    BY DEF TypeOK, Request, Unanswered, Asked, Reads, Replies
  <2> QED BY <1>8, <2>1 DEF TypeOK, Poll, Asked, Reads, envVars, panelVars
<1>9. CASE Frame
  <2> DEFINE f == Head(frames)
             event == [agent |-> f.agent, number |-> f.number]
  <2>1. f \in [mount : Nat, agent : Agents, number : Nat]
        /\ frames' \in Seq([mount : Nat, agent : Agents, number : Nat])
    <3>1. frames \in Seq([mount : Nat, agent : Agents, number : Nat]) /\ frames # <<>>
          /\ frames' = Tail(frames)
      BY <1>9 DEF TypeOK, Frame
    <3>2. Head(frames) = frames[1] /\ 1 \in DOMAIN frames
          /\ Tail(frames) \in Seq([mount : Nat, agent : Agents, number : Nat])
      BY <3>1, TailDomain
    <3>3. frames[1] \in [mount : Nat, agent : Agents, number : Nat]
      BY <3>1, <3>2, MemberOf
    <3> QED BY <3>1, <3>2, <3>3
  <2>2. event \in Event
    BY <2>1 DEF Event
  <2>3. Newest(<<event>> \o events) \in Seq(Event)
    <3> HIDE DEF event
    <3> QED BY <2>2, NewestOf DEF TypeOK, Event
  <2>4. Append(received, event) \in Seq(Event)
    <3> HIDE DEF event
    <3> QED BY <2>2, AppendDomain DEF TypeOK, Event
  <2>5. events' \in Seq(Event) /\ received' \in Seq(Event)
    BY <1>9, <2>3, <2>4 DEF TypeOK, Frame, Event
  <2> QED BY <1>9, <2>1, <2>5 DEF TypeOK, Frame, envVars, Event
<1>10. CASE UNCHANGED vars
  BY <1>10 DEF TypeOK, vars, envVars, panelVars
<1> QED BY <1>1, <1>2, <1>3, <1>4, <1>5, <1>6, <1>7, <1>8, <1>9, <1>10 DEF Next

\* Every variable keeps its type, for any agents and any bounds.
THEOREM TypeCorrect == Spec => []TypeOK
<1>1. Init => TypeOK
  BY TypeInit
<1>2. TypeOK /\ [Next]_vars => TypeOK'
  BY TypeNext
<1> QED BY <1>1, <1>2, PTL DEF Spec

-----------------------------------------------------------------------------
LEMMA InvInit == Init => IInv
<1> SUFFICES ASSUME Init PROVE IInv
  OBVIOUS
<1>1. TypeOK
  BY TypeInit
<1>2. InFlight /\ ShownIsPicked /\ OneStream
  <2>1. \A q \in MountRequests(1, First) : q.mount = 1 /\ q.agent = First
    BY DEF MountRequests, Request
  <2>2. \A i \in DOMAIN <<>> : FALSE
    OBVIOUS
  <2>3. InFlight
    BY <2>1, <2>2 DEF Init, InFlight
  <2>4. ShownIsPicked
    BY <2>2, AgentsAssumption DEF Init, ShownIsPicked
  <2> QED BY <2>3, <2>4 DEF Init, OneStream
<1>3. PollsOf(requests, mount) = {Request(1, First, "state")}
      /\ Request(1, First, "state") \in requests
  BY DEF Init, PollsOf, MountRequests, Request
<1>4. PollOnce
  BY <1>3 DEF Init, PollOnce
<1> QED BY <1>1, <1>2, <1>4 DEF IInv

\* What is in flight stays a past or the present panel's.
LEMMA InFlightNext == IInv /\ [Next]_vars => InFlight'
<1> SUFFICES ASSUME IInv, [Next]_vars PROVE InFlight'
  OBVIOUS
<1> USE DEF IInv
<1>1. ASSUME NEW a \in Agents, NEW w \in Worlds, Redeploy(a, w) PROVE InFlight'
  BY <1>1 DEF InFlight, Redeploy
<1>2. ASSUME NEW s \in streams, RunStep(s) PROVE InFlight'
  <2> DEFINE f == [mount |-> s.mount, agent |-> s.agent, number |-> emitted + 1]
  <2>1. f \in [mount : Nat, agent : Agents, number : Nat]
        /\ f.mount = mount /\ f.agent = agent
    BY DEF TypeOK, OneStream
  <2>2. frames' = Append(frames, f)
        /\ UNCHANGED <<mount, agent, requests>> 
    BY <1>2 DEF RunStep
  <2>3. frames \in Seq([mount : Nat, agent : Agents, number : Nat]) /\ mount \in Nat
    BY DEF TypeOK
  <2> HIDE DEF f
  <2>4. \A i \in DOMAIN frames' :
            (i \in DOMAIN frames /\ frames'[i] = frames[i]) \/ frames'[i] = f
    BY <2>1, <2>2, <2>3, AppendDomain
  <2> QED BY <2>1, <2>2, <2>3, <2>4 DEF InFlight
<1>3. ASSUME NEW a \in Agents, Pick(a) PROVE InFlight'
  <2>1. mount \in Nat /\ mount' = mount + 1 /\ agent' = a
        /\ requests' = requests \cup MountRequests(mount + 1, a) /\ frames' = frames
    BY <1>3 DEF Pick, TypeOK
  <2>2. \A q \in MountRequests(mount + 1, a) : q.mount = mount + 1 /\ q.agent = a
    BY DEF MountRequests, Request
  <2>3. \A q \in requests : q.mount \in Nat /\ q.mount <= mount
    BY DEF InFlight, TypeOK
  <2>4. \A i \in DOMAIN frames : frames[i].mount \in Nat /\ frames[i].mount <= mount
    <3>1. \A i \in DOMAIN frames : frames[i] \in [mount : Nat, agent : Agents, number : Nat]
      BY MemberOf DEF TypeOK
    <3> QED BY <3>1 DEF InFlight
  <2> QED BY <2>1, <2>2, <2>3, <2>4 DEF InFlight
<1>4. ASSUME NEW q \in requests, Answer(q) PROVE InFlight'
  <2>1. q \in Asked
    BY DEF TypeOK, Asked, Reads
  <2>2. [q EXCEPT !.reply = Reply(q)].mount = q.mount /\ [q EXCEPT !.reply = Reply(q)].agent = q.agent
    BY <2>1 DEF Asked
  <2> QED BY <1>4, <2>2 DEF InFlight, Answer
<1>5. ASSUME NEW q \in requests, Polled(q) \/ ReadDeclared(q) \/ Ignored(q) PROVE InFlight'
  BY <1>5 DEF InFlight, Polled, ReadDeclared, Ignored
<1>6. CASE Poll
  BY <1>6 DEF InFlight, Poll, Request, TypeOK
<1>7. CASE Frame
  <2>1. frames \in Seq([mount : Nat, agent : Agents, number : Nat]) /\ frames # <<>>
        /\ frames' = Tail(frames) /\ UNCHANGED <<mount, agent, requests>>
    BY <1>7 DEF TypeOK, Frame
  <2>2. \A i \in DOMAIN frames' : i + 1 \in DOMAIN frames /\ frames'[i] = frames[i + 1]
    BY <2>1, TailDomain
  <2> QED BY <2>1, <2>2 DEF InFlight
<1>8. CASE UNCHANGED vars
  BY <1>8 DEF InFlight, vars, envVars, panelVars
<1> QED BY <1>1, <1>2, <1>3, <1>4, <1>5, <1>6, <1>7, <1>8 DEF Next

LEMMA ShownNext == IInv /\ [Next]_vars => ShownIsPicked'
<1> SUFFICES ASSUME IInv, [Next]_vars PROVE ShownIsPicked'
  OBVIOUS
<1> USE DEF IInv
<1>0. \A q \in requests : q.mount = mount => q.agent = agent
  BY DEF InFlight
<1>1. ASSUME NEW a \in Agents, NEW w \in Worlds, Redeploy(a, w) PROVE ShownIsPicked'
  BY <1>1 DEF ShownIsPicked, Redeploy, panelVars
<1>2. ASSUME NEW s \in streams, RunStep(s) PROVE ShownIsPicked'
  BY <1>2 DEF ShownIsPicked, RunStep, panelVars
<1>3. ASSUME NEW a \in Agents, Pick(a) PROVE ShownIsPicked'
  <2>1. run' = None /\ events' = <<>> /\ declared' = "reading"
    BY <1>3 DEF Pick
  <2>2. "reading" \notin Agents
    BY AgentsAssumption
  <2>3. \A i \in DOMAIN events' : FALSE
    BY <2>1
  <2> QED BY <2>1, <2>2, <2>3 DEF ShownIsPicked
<1>4. ASSUME NEW q \in requests, Answer(q) \/ Ignored(q) PROVE ShownIsPicked'
  BY <1>4 DEF ShownIsPicked, Answer, Ignored, panelVars
<1>5. ASSUME NEW q \in requests, Polled(q) PROVE ShownIsPicked'
  <2>1. q.agent = agent /\ UNCHANGED <<agent, events, declared>>
    BY <1>5, <1>0 DEF Polled, IsActive
  <2>2. run' = run \/ run' = q.agent
    BY <1>5 DEF Polled, PollNotDeployed, PollConnected, PollFailed
  <2> QED BY <2>1, <2>2 DEF ShownIsPicked
<1>6. ASSUME NEW q \in requests, ReadDeclared(q) PROVE ShownIsPicked'
  BY <1>6, <1>0, AgentsAssumption DEF ReadDeclared, IsActive, ShownIsPicked
<1>7. CASE Poll
  BY <1>7 DEF ShownIsPicked, Poll, panelVars
<1>8. CASE Frame
  <2> DEFINE f == Head(frames)
             event == [agent |-> f.agent, number |-> f.number]
  <2>1. UNCHANGED <<agent, run, declared>>
    BY <1>8 DEF Frame
  <2>2. CASE IsActive(f)
    <3>1. f = frames[1] /\ 1 \in DOMAIN frames
      BY <1>8, TailDomain DEF TypeOK, Frame
    <3>2. f \in [mount : Nat, agent : Agents, number : Nat] /\ f.agent = agent
      <4>1. frames[1] \in [mount : Nat, agent : Agents, number : Nat]
        BY <3>1, MemberOf DEF TypeOK
      <4> QED BY <4>1, <2>2, <3>1 DEF IsActive, InFlight
    <3>3. event \in Event /\ event.agent = agent
      BY <3>2 DEF Event
    <3>4. events' = Newest(<<event>> \o events) /\ events \in Seq(Event)
      BY <1>8, <2>2 DEF Frame, TypeOK, Event
    <3> HIDE DEF event
    <3>5. \A i \in DOMAIN events' : events'[i] = event \/ (i - 1 \in DOMAIN events
                                                         /\ events'[i] = events[i - 1])
      BY <3>3, <3>4, NewestOf
    <3> QED BY <2>1, <3>3, <3>5 DEF ShownIsPicked
  <2>3. CASE ~IsActive(f)
    BY <1>8, <2>1, <2>3 DEF Frame, ShownIsPicked
  <2> QED BY <2>2, <2>3
<1>9. CASE UNCHANGED vars
  BY <1>9 DEF ShownIsPicked, vars, panelVars
<1> QED BY <1>1, <1>2, <1>3, <1>4, <1>5, <1>6, <1>7, <1>8, <1>9 DEF Next

\* One stream, of the mounted panel, and none before the first contact.
LEMMA OneStreamNext == IInv /\ [Next]_vars => OneStream'
<1> SUFFICES ASSUME IInv, [Next]_vars PROVE OneStream'
  OBVIOUS
<1> USE DEF IInv
<1>1. ASSUME NEW a \in Agents, NEW w \in Worlds, Redeploy(a, w) PROVE OneStream'
  BY <1>1 DEF OneStream, Redeploy, panelVars
<1>2. ASSUME NEW s \in streams, RunStep(s) PROVE OneStream'
  BY <1>2 DEF OneStream, RunStep, panelVars
<1>3. ASSUME NEW a \in Agents, Pick(a) PROVE OneStream'
  <2>1. streams' = {}
    BY <1>3 DEF OneStream, Pick
  <2> QED BY <2>1 DEF OneStream
<1>4. ASSUME NEW q \in requests, Answer(q) \/ Ignored(q) PROVE OneStream'
  BY <1>4 DEF OneStream, Answer, Ignored, panelVars
<1>5. ASSUME NEW q \in requests, Polled(q) PROVE OneStream'
  <2>1. q.agent = agent /\ UNCHANGED <<agent, mount>>
    BY <1>5 DEF Polled, IsActive, InFlight
  <2>2. CASE PollNotDeployed(q)
    <3>1. streams' = {}
      BY <2>2 DEF OneStream, PollNotDeployed
    <3> QED BY <3>1 DEF OneStream
  <2>3. CASE PollConnected(q)
    <3>1. streams' = streams \/ (streams = {} /\ streams' = {[mount |-> mount, agent |-> agent]})
      BY <2>1, <2>3 DEF OneStream, PollConnected
    <3>2. status' = "connected"
      BY <2>3 DEF PollConnected
    <3> QED BY <2>1, <3>1, <3>2 DEF OneStream
  <2>4. CASE PollFailed(q)
    BY <2>1, <2>4 DEF OneStream, PollFailed, StatusAfterStateFailure
  <2> QED BY <1>5, <2>2, <2>3, <2>4 DEF Polled
<1>6. ASSUME NEW q \in requests, ReadDeclared(q) PROVE OneStream'
  BY <1>6 DEF OneStream, ReadDeclared
<1>7. CASE Poll
  BY <1>7 DEF OneStream, Poll, panelVars
<1>8. CASE Frame
  BY <1>8 DEF OneStream, Frame
<1>9. CASE UNCHANGED vars
  BY <1>9 DEF OneStream, vars, panelVars
<1> QED BY <1>1, <1>2, <1>3, <1>4, <1>5, <1>6, <1>7, <1>8, <1>9 DEF Next

\* One poll of the mounted panel, scheduled or in flight.
LEMMA PollOnceNext == IInv /\ [Next]_vars => PollOnce'
<1> SUFFICES ASSUME IInv, [Next]_vars PROVE PollOnce'
  OBVIOUS
<1> USE DEF IInv
<1>1. ASSUME UNCHANGED <<timers, requests, mount>> PROVE PollOnce'
  BY <1>1 DEF PollOnce, PollsOf
<1>2. ASSUME NEW a \in Agents, Pick(a) PROVE PollOnce'
  <2> DEFINE r == Request(mount + 1, a, "state")
  <2>1. mount \in Nat /\ mount' = mount + 1 /\ timers' = {}
        /\ requests' = requests \cup MountRequests(mount + 1, a)
    BY <1>2 DEF TypeOK, Pick, PollOnce
  <2>2. \A q \in requests : q.mount # mount + 1
    <3>1. \A q \in requests : q.mount \in Nat /\ q.mount <= mount
      BY DEF InFlight, TypeOK
    <3> QED BY <2>1, <3>1
  <2>3. PollsOf(requests', mount + 1) = {r} /\ r \in requests'
    BY <2>1, <2>2 DEF PollsOf, MountRequests, Request
  <2> QED BY <2>1, <2>3 DEF PollOnce
<1>3. ASSUME NEW q \in requests, Answer(q) PROVE PollOnce'
  <2> DEFINE r == [q EXCEPT !.reply = Reply(q)]
  <2>1. r.mount = q.mount /\ r.read = q.read
    BY DEF TypeOK
  <2>2. requests' = (requests \ {q}) \cup {r} /\ UNCHANGED <<timers, mount>>
    BY <1>3 DEF Answer, panelVars
  <2> HIDE DEF r
  <2>3. CASE q \in PollsOf(requests, mount)
    <3>1. mount \notin timers /\ PollsOf(requests, mount) = {q}
      BY <2>3 DEF PollOnce
    <3>2. PollsOf(requests', mount) = {r}
      BY <2>1, <2>2, <2>3, <3>1 DEF PollsOf
    <3> QED BY <2>2, <3>1, <3>2 DEF PollOnce
  <2>4. CASE q \notin PollsOf(requests, mount)
    <3>1. PollsOf(requests', mount) = PollsOf(requests, mount)
      BY <2>1, <2>2, <2>4 DEF PollsOf
    <3> QED BY <2>2, <2>4, <3>1 DEF PollOnce, PollsOf
  <2> QED BY <2>3, <2>4
<1>4. ASSUME NEW q \in requests, Polled(q) PROVE PollOnce'
  <2>1. q \in PollsOf(requests, mount) /\ requests' = requests \ {q}
        /\ timers' = timers \cup {mount} /\ mount' = mount
    BY <1>4 DEF Polled, IsActive, PollsOf
  <2>2. PollsOf(requests, mount) = {q}
    BY <2>1 DEF PollOnce
  <2>3. PollsOf(requests', mount) = {}
    BY <2>1, <2>2 DEF PollsOf
  <2> QED BY <2>1, <2>3 DEF PollOnce
<1>5. ASSUME NEW q \in requests, ReadDeclared(q) \/ Ignored(q) PROVE PollOnce'
  <2>1. requests' = requests \ {q} /\ UNCHANGED <<timers, mount>>
        /\ q \notin PollsOf(requests, mount)
    BY <1>5 DEF ReadDeclared, Ignored, IsActive, PollsOf, panelVars
  <2>2. PollsOf(requests', mount) = PollsOf(requests, mount)
    BY <2>1 DEF PollsOf
  <2> QED BY <2>1, <2>2 DEF PollOnce, PollsOf
<1>6. CASE Poll
  <2> DEFINE r == Request(mount, agent, "state")
  <2>1. timers' = {} /\ mount' = mount /\ requests' = requests \cup {r}
        /\ PollsOf(requests, mount) = {}
    BY <1>6 DEF Poll, PollOnce, panelVars
  <2>2. PollsOf(requests', mount) = {r} /\ r \in requests'
    BY <2>1 DEF PollsOf, Request
  <2> QED BY <2>1, <2>2 DEF PollOnce
<1>7. ASSUME NEW a \in Agents, NEW w \in Worlds, Redeploy(a, w) PROVE PollOnce'
  BY <1>1, <1>7 DEF Redeploy
<1>8. ASSUME NEW s \in streams, RunStep(s) PROVE PollOnce'
  BY <1>1, <1>8 DEF RunStep
<1>9. CASE Frame
  BY <1>1, <1>9 DEF Frame
<1>10. CASE UNCHANGED vars
  BY <1>1, <1>10 DEF vars
<1> QED BY <1>2, <1>3, <1>4, <1>5, <1>6, <1>7, <1>8, <1>9, <1>10 DEF Next

\* The invariant holds throughout.
LEMMA Invariance == Spec => []IInv
<1>1. Init => IInv
  BY InvInit
<1>2. IInv /\ [Next]_vars => IInv'
  BY TypeNext, InFlightNext, ShownNext, OneStreamNext, PollOnceNext DEF IInv
<1> QED BY <1>1, <1>2, PTL DEF Spec

\* However late an answer comes, the panel shows the picked agent's.
THEOREM PickedIsShown == Spec => []ShownIsPicked
<1>1. IInv => ShownIsPicked
  BY DEF IInv
<1> QED BY <1>1, Invariance, PTL

\* At most one open stream, of the mounted panel.
THEOREM StreamIsOne == Spec => []OneStream
<1>1. IInv => OneStream
  BY DEF IInv
<1> QED BY <1>1, Invariance, PTL

\* The next poll is scheduled or in flight, never both, never lost.
THEOREM PollLoopIsOne == Spec => []OnePollLoop
<1>1. IInv => OnePollLoop
  <2> SUFFICES ASSUME IInv PROVE OnePollLoop
    OBVIOUS
  <2>1. Cardinality({}) = 0
    BY FS_EmptySet
  <2>2. \A q \in requests : Cardinality({q}) = 1
    BY FS_Singleton
  <2> QED BY <2>1, <2>2 DEF IInv, PollOnce, PollsOf, OnePollLoop
<1> QED BY <1>1, Invariance, PTL

\* One reader per panel: at most one stream, and one poll loop.
THEOREM ReaderIsOne == Spec => []OneReader
<1> QED BY StreamIsOne, PollLoopIsOne, PTL DEF OneReader

\* EventsAreNewest, of any two lists.
KeptNewest(es, rs) ==
    /\ Len(es) = IF Len(rs) < MaxKept THEN Len(rs) ELSE MaxKept
    /\ \A i \in DOMAIN es : es[i] = rs[Len(rs) + 1 - i]

LEMMA NewestKept ==
    ASSUME NEW S, NEW es \in Seq(S), NEW rs \in Seq(S), NEW e \in S, KeptNewest(es, rs)
    PROVE  KeptNewest(Newest(<<e>> \o es), Append(rs, e))
<1> DEFINE es2 == Newest(<<e>> \o es)
           rs2 == Append(rs, e)
<1>1. /\ es2 \in Seq(S)
      /\ Len(es2) = IF Len(es) < MaxKept THEN Len(es) + 1 ELSE MaxKept
      /\ es2[1] = e
      /\ \A i \in DOMAIN es2 : i # 1 => i - 1 \in DOMAIN es /\ es2[i] = es[i - 1]
  <2>1. es \in Seq(S) /\ e \in S
    OBVIOUS
  <2>2. es2 \in Seq(S) /\ es2[1] = e
    BY ONLY <2>1, NewestOf
  <2>3. Len(es2) = IF Len(es) < MaxKept THEN Len(es) + 1 ELSE MaxKept
    BY ONLY <2>1, NewestOf
  <2>4. \A i \in DOMAIN es2 : i # 1 => i - 1 \in DOMAIN es /\ es2[i] = es[i - 1]
    BY ONLY <2>1, NewestOf
  <2> QED BY <2>2, <2>3, <2>4
<1>2. /\ Len(rs2) = Len(rs) + 1
      /\ rs2[Len(rs) + 1] = e
      /\ \A j \in 1..Len(rs) : rs2[j] = rs[j]
  OBVIOUS
<1>3. /\ Len(es) \in Nat /\ DOMAIN es = 1..Len(es) /\ Len(rs) \in Nat
      /\ DOMAIN es2 = 1..Len(es2) /\ Len(es2) \in Nat
  BY <1>1
<1> HIDE DEF es2, rs2
<1>4. /\ Len(es) = IF Len(rs) < MaxKept THEN Len(rs) ELSE MaxKept
      /\ \A i \in DOMAIN es : es[i] = rs[Len(rs) + 1 - i]
  BY DEF KeptNewest
<1>5. Len(es2) = IF Len(rs2) < MaxKept THEN Len(rs2) ELSE MaxKept
  BY <1>1, <1>2, <1>3, <1>4, NumbersAssumption
<1>6. ASSUME NEW i \in DOMAIN es2 PROVE es2[i] = rs2[Len(rs2) + 1 - i]
  <2>1. CASE i = 1
    BY <2>1, <1>1, <1>2, <1>3
  <2>2. CASE i # 1
    <3>1. i \in Nat /\ i - 1 \in DOMAIN es /\ es2[i] = es[i - 1]
      BY <2>2, <1>1, <1>3
    <3>2. i - 1 >= 1 /\ i - 1 <= Len(es) /\ Len(es) <= Len(rs)
      BY <3>1, <1>3, <1>4, NumbersAssumption
    <3>3. es[i - 1] = rs[Len(rs) + 1 - (i - 1)]
      BY <3>1, <1>4
    <3>4. Len(rs) + 1 - (i - 1) = Len(rs2) + 1 - i
      BY <3>1, <1>2, <1>3
    <3>5. Len(rs) + 1 - (i - 1) \in 1..Len(rs)
      BY <3>1, <3>2, <1>3
    <3>6. rs2[Len(rs) + 1 - (i - 1)] = rs[Len(rs) + 1 - (i - 1)]
      BY <3>5, <1>2
    <3> QED BY <3>1, <3>3, <3>4, <3>6
  <2> QED BY <2>1, <2>2
<1>7. KeptNewest(es2, rs2)
  BY <1>5, <1>6 DEF KeptNewest
<1> QED BY <1>7 DEF es2, rs2

\* The list stays the newest of the events received as one more comes in.
LEMMA NewestNext == TypeOK /\ EventsAreNewest /\ [Next]_vars => EventsAreNewest'
<1> SUFFICES ASSUME TypeOK, EventsAreNewest, [Next]_vars PROVE EventsAreNewest'
  OBVIOUS
<1>1. ASSUME UNCHANGED <<events, received>> PROVE EventsAreNewest'
  BY <1>1 DEF EventsAreNewest
<1>2. ASSUME NEW a \in Agents, Pick(a) PROVE EventsAreNewest'
  <2>1. events' = <<>> /\ received' = <<>>
    BY <1>2 DEF Pick
  <2>2. Len(<<>>) = 0 /\ \A i \in DOMAIN <<>> : FALSE
    OBVIOUS
  <2> QED BY <2>1, <2>2, NumbersAssumption DEF EventsAreNewest
<1>3. CASE Frame
  <2> DEFINE f == Head(frames)
             event == [agent |-> f.agent, number |-> f.number]
  <2>1. CASE IsActive(f)
    <3>1. f \in [mount : Nat, agent : Agents, number : Nat]
      <4>1. frames \in Seq([mount : Nat, agent : Agents, number : Nat]) /\ frames # <<>>
        BY <1>3 DEF TypeOK, Frame
      <4>2. f = frames[1] /\ 1 \in DOMAIN frames
        BY <4>1, TailDomain
      <4>3. frames[1] \in [mount : Nat, agent : Agents, number : Nat]
        BY <4>1, <4>2, MemberOf
      <4> QED BY <4>2, <4>3
    <3>2. event \in Event
      BY <3>1 DEF Event
    <3>3. events' = Newest(<<event>> \o events) /\ received' = Append(received, event)
      BY <1>3, <2>1 DEF Frame
    <3>4. events \in Seq(Event) /\ received \in Seq(Event)
      BY DEF TypeOK, Event
    <3> HIDE DEF event
    <3>5. KeptNewest(events, received)
      BY DEF EventsAreNewest, KeptNewest
    <3>6. KeptNewest(events', received')
      BY <3>2, <3>3, <3>4, <3>5, NewestKept
    <3> QED BY <3>6 DEF EventsAreNewest, KeptNewest
  <2>2. CASE ~IsActive(f)
    BY <1>1, <1>3, <2>2 DEF Frame
  <2> QED BY <2>1, <2>2
<1>4. ASSUME NEW a \in Agents, NEW w \in Worlds, Redeploy(a, w) PROVE EventsAreNewest'
  BY <1>1, <1>4 DEF Redeploy, panelVars
<1>5. ASSUME NEW s \in streams, RunStep(s) PROVE EventsAreNewest'
  BY <1>1, <1>5 DEF RunStep, panelVars
<1>6. ASSUME NEW q \in requests, Answer(q) \/ Polled(q) \/ ReadDeclared(q) \/ Ignored(q)
      PROVE EventsAreNewest'
  BY <1>1, <1>6 DEF Answer, Polled, ReadDeclared, Ignored, panelVars
<1>7. CASE Poll
  BY <1>1, <1>7 DEF Poll, panelVars
<1>8. CASE UNCHANGED vars
  BY <1>1, <1>8 DEF vars, panelVars
<1> QED BY <1>2, <1>3, <1>4, <1>5, <1>6, <1>7, <1>8 DEF Next

\* The events shown are the newest received, newest first, none skipped.
THEOREM NewestAreShown == Spec => []EventsAreNewest
<1>1. Init => EventsAreNewest
  <2>1. Len(<<>>) = 0 /\ \A i \in DOMAIN <<>> : FALSE
    OBVIOUS
  <2> QED BY <2>1, NumbersAssumption DEF Init, EventsAreNewest
<1>2. TypeOK /\ EventsAreNewest /\ [Next]_vars => EventsAreNewest'
  BY NewestNext
<1>3. Spec => []TypeOK
  BY TypeCorrect
<1> QED BY <1>1, <1>2, <1>3, PTL DEF Spec

=============================================================================
