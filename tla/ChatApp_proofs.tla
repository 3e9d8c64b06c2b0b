--------------------------- MODULE ChatApp_proofs ---------------------------
(***************************************************************************)
(* What the chatbot's application keeps for every ui.yaml, any number of   *)
(* questions, answers and edits, and however the user moves between the    *)
(* panels while they are out.                                              *)
(***************************************************************************)
EXTENDS ChatApp, SequenceTheorems, FunctionTheorems, FiniteSetTheorems, WellFoundedInduction,
        TLAPS

Turn == [id : Int, open : BOOLEAN, trace : Int \cup {None}]
Said == [role : {"user", "assistant"}, turn : Int, error : BOOLEAN,
         attribution : {None} \cup {deriveAttribution(r) : r \in Responses}]
Request == [turn : Int, history : {historyFor(ms) : ms \in Seq(Said)}, mine : BOOLEAN]

ChatTypes ==
    /\ turns \in Seq(Turn) /\ nextId \in Nat
    /\ messages \in Seq(Said) /\ busy \in BOOLEAN
    /\ requests \subseteq Request

\* The store is the newest turns in order, and each request is of a turn of its own.
Store ==
    /\ \A k \in DOMAIN turns :
          /\ turns[k].id = nextId - k
          /\ turns[k].open <=> \E q \in requests : q.turn = turns[k].id
          /\ turns[k].trace \in {None, turns[k].id}
    /\ \A q \in requests : q.turn < nextId
    /\ \A q, r \in requests : q.turn = r.turn => q = r

\* A chat that is busy ends in the question of the one request of its own, one
\* that is free in an answer.
Talk ==
    /\ \A i \in DOMAIN messages :
          IF messages[i].role = "assistant"
          THEN i > 1 /\ messages[i - 1].role = "user" /\ messages[i - 1].turn = messages[i].turn
          ELSE i < Len(messages) => messages[i + 1].role = "assistant"
    /\ busy <=> \E q \in requests : q.mine
    /\ \A q \in requests : q.mine =>
          /\ messages # <<>>
          /\ messages[Len(messages)] = Message("user", q.turn, FALSE, None)
          /\ q.history = historyFor(Front(messages))
    /\ \A q, r \in requests : q.mine /\ r.mine => q = r
    /\ ~busy /\ messages # <<>> => messages[Len(messages)].role = "assistant"

ChatInv == ChatTypes /\ Store /\ Talk

-----------------------------------------------------------------------------
(* The operators of the store and of the chat.                             *)

LEMMA Started ==
    ASSUME NEW id \in Int, turns \in Seq(Turn)
    PROVE  /\ startTurn(id) \in Seq(Turn)
           /\ \A k \in DOMAIN startTurn(id) :
                 IF k = 1 THEN startTurn(id)[k] = [id |-> id, open |-> TRUE, trace |-> None]
                 ELSE k - 1 \in DOMAIN turns /\ startTurn(id)[k] = turns[k - 1]
<1> DEFINE new == [id |-> id, open |-> TRUE, trace |-> None]
           all == <<new>> \o turns
           n   == IF Len(all) < MaxTurns THEN Len(all) ELSE MaxTurns
<1>1. new \in Turn
  BY DEF Turn
<1> HIDE DEF new
<1>2. all \in Seq(Turn) /\ Len(all) = Len(turns) + 1 /\ Len(turns) \in Nat
  BY <1>1
<1>3. \A k \in 1 .. Len(all) : all[k] = IF k = 1 THEN new ELSE turns[k - 1]
  BY <1>1
<1> HIDE DEF all
<1>4. n \in 0 .. Len(all)
  BY <1>2, TurnsAssumption
<1>5. startTurn(id) = SubSeq(all, 1, n)
  BY DEF startTurn, new, all
<1> HIDE DEF n
<1>6. /\ SubSeq(all, 1, n) \in Seq(Turn) /\ Len(SubSeq(all, 1, n)) = n
      /\ \A k \in 1 .. n : SubSeq(all, 1, n)[k] = all[k]
  BY <1>2, <1>4
<1>7. DOMAIN SubSeq(all, 1, n) = 1 .. n
  BY <1>6
<1>8. ASSUME NEW k \in 1 .. n
      PROVE  IF k = 1 THEN SubSeq(all, 1, n)[k] = new
             ELSE k - 1 \in DOMAIN turns /\ SubSeq(all, 1, n)[k] = turns[k - 1]
  BY <1>2, <1>3, <1>4, <1>6
<1>9. QED
  BY <1>5, <1>6, <1>7, <1>8 DEF new

LEMMA Ended ==
    ASSUME NEW id \in Int, NEW trace \in Int \cup {None}, turns \in Seq(Turn)
    PROVE  /\ endTurn(id, trace) \in Seq(Turn)
           /\ DOMAIN endTurn(id, trace) = DOMAIN turns
           /\ \A k \in DOMAIN turns :
                 /\ turns[k].id = id => /\ endTurn(id, trace)[k].id = id
                                        /\ ~endTurn(id, trace)[k].open
                                        /\ endTurn(id, trace)[k].trace = trace
                 /\ turns[k].id # id => endTurn(id, trace)[k] = turns[k]
<1>1. \A k \in DOMAIN turns : turns[k] \in Turn
  OBVIOUS
<1>2. ASSUME NEW t \in Turn
      PROVE  LET e == [t EXCEPT !.open = FALSE, !.trace = trace]
             IN e \in Turn /\ e.id = t.id /\ ~e.open /\ e.trace = trace
  BY DEF Turn
<1>3. \A k \in DOMAIN turns : endTurn(id, trace)[k] \in Turn
  BY <1>1, <1>2 DEF endTurn
<1>4. DOMAIN endTurn(id, trace) = 1 .. Len(turns) /\ Len(turns) \in Nat
  BY DEF endTurn
<1>5. endTurn(id, trace) \in [1 .. Len(turns) -> Turn]
  BY <1>3, <1>4 DEF endTurn
<1>6. endTurn(id, trace) \in Seq(Turn)
  BY <1>4, <1>5, SeqDef
<1>7. ASSUME NEW k \in DOMAIN turns
      PROVE  /\ turns[k].id = id => /\ endTurn(id, trace)[k].id = id
                                    /\ ~endTurn(id, trace)[k].open
                                    /\ endTurn(id, trace)[k].trace = trace
             /\ turns[k].id # id => endTurn(id, trace)[k] = turns[k]
  BY <1>1, <1>2 DEF endTurn
<1>8. DOMAIN endTurn(id, trace) = DOMAIN turns
  BY DEF endTurn
<1>9. QED
  BY <1>6, <1>7, <1>8, Zenon

LEMMA SaidMessages ==
    ASSUME NEW turn \in Int, NEW error \in BOOLEAN
    PROVE  /\ Message("user", turn, error, None) \in Said
           /\ Message("assistant", turn, error, None) \in Said
           /\ \A r \in Responses :
                 Message("assistant", turn, error, deriveAttribution(r)) \in Said
<1> DEFINE As == {deriveAttribution(r) : r \in Responses}
<1>1. Said = [role : {"user", "assistant"}, turn : Int, error : BOOLEAN, attribution : {None} \cup As]
  BY DEF Said
<1>2. \A r \in Responses : deriveAttribution(r) \in As
  OBVIOUS
<1> HIDE DEF As
<1>3. QED
  BY <1>1, <1>2 DEF Message

\* What is appended comes last, and before it is what was there.
LEMMA Spoken ==
    ASSUME NEW m \in Said, messages \in Seq(Said)
    PROVE  /\ Append(messages, m) \in Seq(Said)
           /\ Len(Append(messages, m)) = Len(messages) + 1
           /\ DOMAIN Append(messages, m) = 1 .. Len(messages) + 1
           /\ \A i \in 1 .. Len(messages) : Append(messages, m)[i] = messages[i]
           /\ Append(messages, m)[Len(messages) + 1] = m
           /\ Front(Append(messages, m)) = messages
<1>1. /\ Append(messages, m) \in Seq(Said) /\ Len(messages) \in Nat
      /\ Len(Append(messages, m)) = Len(messages) + 1
      /\ \A i \in 1 .. Len(messages) : Append(messages, m)[i] = messages[i]
      /\ Append(messages, m)[Len(messages) + 1] = m
  OBVIOUS
<1>2. DOMAIN Append(messages, m) = 1 .. Len(messages) + 1
  BY <1>1
<1> DEFINE s == Append(messages, m)
           f == SubSeq(s, 1, Len(s) - 1)
<1>3. Front(s) = f
  BY DEF Front
<1>4. s \in Seq(Said) /\ Len(s) - 1 = Len(messages) /\ Len(messages) \in Nat
  BY <1>1
<1> HIDE DEF s
<1>5. f \in Seq(Said) /\ Len(f) = Len(messages) /\ \A i \in 1 .. Len(messages) : f[i] = s[i]
  BY <1>4
<1> HIDE DEF f
<1>6. \A i \in 1 .. Len(messages) : f[i] = messages[i]
  BY <1>1, <1>5 DEF s
<1>7. f = messages
  BY <1>5, <1>6, SeqEqual
<1>8. QED
  BY <1>1, <1>2, <1>3, <1>7 DEF s

-----------------------------------------------------------------------------
(* The steps.                                                              *)

LEMMA ChatInit == Init => ChatInv
<1> SUFFICES ASSUME Init PROVE ChatInv
  OBVIOUS
<1>1. turns = <<>> /\ nextId = 0 /\ messages = <<>> /\ busy = FALSE /\ requests = {}
  BY DEF Init
<1>2. ChatTypes
  BY <1>1, EmptySeq DEF ChatTypes
<1>3. Store
  BY <1>1 DEF Store
<1>4. Talk
  BY <1>1 DEF Talk
<1>5. QED
  BY <1>2, <1>3, <1>4 DEF ChatInv

\* A question is a turn of its own, the newest, and the chat's only request.
LEMMA SubmitKeeps ==
    ASSUME ChatInv, submit
    PROVE  ChatInv'
<1> DEFINE id  == nextId
           q0  == [turn |-> id, history |-> historyFor(messages), mine |-> TRUE]
           ask == Message("user", id, FALSE, None)
<1>1. /\ ~busy /\ nextId' = nextId + 1 /\ turns' = startTurn(id)
      /\ messages' = Append(messages, ask) /\ busy' = TRUE /\ requests' = requests \cup {q0}
  BY DEF submit, CanSend
<1>2. /\ turns \in Seq(Turn) /\ nextId \in Nat /\ messages \in Seq(Said)
      /\ requests \subseteq Request
  BY DEF ChatInv, ChatTypes
<1>3. ask \in Said /\ ask.role = "user" /\ ask = Message("user", q0.turn, FALSE, None)
  <2>1. id \in Int /\ q0.turn = id
    BY <1>2
  <2>2. ask \in Said
    BY <2>1, SaidMessages, Zenon
  <2>3. ask.role = "user"
    BY DEF Message
  <2>4. QED
    BY <2>1, <2>2, <2>3, Zenon
<1>4. /\ q0 \in Request /\ q0.turn = nextId /\ q0.mine = TRUE
      /\ q0.history = historyFor(messages)
  BY <1>2 DEF Request
<1> HIDE DEF q0, ask
<1>5. ChatTypes'
  <2>1. turns' \in Seq(Turn) /\ nextId' \in Nat
    BY <1>1, <1>2, Started
  <2>2. messages' \in Seq(Said)
    BY <1>1, <1>2, <1>3, Spoken, Zenon
  <2>3. requests' \subseteq Request /\ busy' \in BOOLEAN
    BY <1>1, <1>2, <1>4
  <2>4. QED
    BY <2>1, <2>2, <2>3 DEF ChatTypes
<1>6. Store'
  <2>1. \A q \in requests : q.turn < nextId
    BY DEF ChatInv, Store
  <2>2. \A q \in requests : q.turn \in Int
    BY <1>2 DEF Request
  <2>3. ASSUME NEW k \in DOMAIN turns'
        PROVE  /\ turns'[k].id = nextId' - k
               /\ turns'[k].open <=> \E q \in requests' : q.turn = turns'[k].id
               /\ turns'[k].trace \in {None, turns'[k].id}
    <3>0. k \in Nat \ {0}
      BY <1>1, <1>2, Started
    <3>1. CASE k = 1
      <4>1. turns'[k] = [id |-> nextId, open |-> TRUE, trace |-> None]
        BY <1>1, <1>2, <3>1, Started
      <4>2. turns'[k].id = nextId /\ turns'[k].open = TRUE /\ turns'[k].trace = None
        BY <4>1
      <4>3. QED
        BY <1>1, <1>2, <1>4, <3>1, <4>2
    <3>2. CASE k # 1
      <4>1. k - 1 \in DOMAIN turns /\ turns'[k] = turns[k - 1]
        BY <1>1, <1>2, <3>2, Started
      <4>2. /\ turns[k - 1].id = nextId - (k - 1)
            /\ turns[k - 1].open <=> \E q \in requests : q.turn = turns[k - 1].id
            /\ turns[k - 1].trace \in {None, turns[k - 1].id}
        BY <4>1 DEF ChatInv, Store
      <4>3. turns'[k].id # nextId /\ turns'[k].id = nextId' - k
        BY <1>1, <1>2, <3>0, <3>2, <4>1, <4>2
      <4>4. QED
        BY <1>1, <1>4, <4>1, <4>2, <4>3
    <3>3. QED
      BY <3>1, <3>2
  <2>4. \A q \in requests' : q.turn < nextId'
    BY <1>1, <1>2, <1>4, <2>1, <2>2
  <2>5. \A q, r \in requests' : q.turn = r.turn => q = r
    BY <1>1, <1>2, <1>4, <2>1, <2>2 DEF ChatInv, Store
  <2>6. QED
    BY <2>3, <2>4, <2>5 DEF Store
<1>7. Talk'
  <2>1. \A q \in requests : ~q.mine
    BY <1>1 DEF ChatInv, Talk
  <2>2. /\ Len(messages) \in Nat /\ Len(messages') = Len(messages) + 1
        /\ DOMAIN messages' = 1 .. Len(messages) + 1
        /\ \A i \in 1 .. Len(messages) : messages'[i] = messages[i]
        /\ messages'[Len(messages) + 1] = ask /\ Front(messages') = messages
        /\ DOMAIN messages = 1 .. Len(messages)
    <3>1. Len(messages) \in Nat /\ DOMAIN messages = 1 .. Len(messages)
      BY <1>2
    <3>2. QED
      BY <1>1, <1>2, <1>3, <3>1, Spoken, Zenon
  <2>3. ASSUME NEW i \in DOMAIN messages'
        PROVE  IF messages'[i].role = "assistant"
               THEN i > 1 /\ messages'[i - 1].role = "user" /\ messages'[i - 1].turn = messages'[i].turn
               ELSE i < Len(messages') => messages'[i + 1].role = "assistant"
    <3>1. CASE i = Len(messages) + 1
      <4>1. messages'[i].role = "user"
        BY <1>3, <2>2, <3>1, Zenon
      <4>2. ~(i < Len(messages'))
        BY <2>2, <3>1
      <4>3. QED
        BY <4>1, <4>2
    <3>2. CASE i # Len(messages) + 1
      <4>1. i \in 1 .. Len(messages) /\ messages'[i] = messages[i]
        BY <2>2, <3>2
      <4>2. CASE messages[i].role = "assistant"
        BY <2>2, <4>1, <4>2 DEF ChatInv, Talk
      <4>3. CASE messages[i].role # "assistant"
        <5>1. i # Len(messages)
          BY <1>1, <2>2, <4>1, <4>3, EmptySeq DEF ChatInv, Talk
        <5>2. messages[i + 1].role = "assistant"
          BY <2>2, <4>1, <4>3, <5>1 DEF ChatInv, Talk
        <5>3. QED
          BY <2>2, <4>1, <4>3, <5>1, <5>2
      <4>4. QED
        BY <4>2, <4>3
    <3>3. QED
      BY <3>1, <3>2
  <2>4. /\ messages' # <<>>
        /\ \A q \in requests' : q.mine => q = q0
    <3>1. Len(messages') # 0
      BY <2>2
    <3>2. QED
      BY <1>1, <2>1, <3>1, EmptySeq
  <2>5. \A q \in requests' : q.mine =>
            /\ messages' # <<>>
            /\ messages'[Len(messages')] = Message("user", q.turn, FALSE, None)
            /\ q.history = historyFor(Front(messages'))
    BY <1>3, <1>4, <2>2, <2>4
  <2>6. (busy' <=> \E q \in requests' : q.mine) /\ ~(~busy')
    BY <1>1, <1>4
  <2>7. \A q, r \in requests' : q.mine /\ r.mine => q = r
    BY <2>4
  <2>8. QED
    BY <2>3, <2>5, <2>6, <2>7, Zenon DEF Talk
<1>8. QED
  BY <1>5, <1>6, <1>7 DEF ChatInv

\* The store takes the answer of a request whoever asked it, the chat its own only.
LEMMA FinishedKeeps ==
    ASSUME ChatInv, NEW q \in requests, NEW trace \in {None, q.turn}, NEW answer \in Said,
           answer.role = "assistant", answer.turn = q.turn, Finished(q, trace, answer)
    PROVE  ChatInv'
<1>1. /\ requests' = requests \ {q} /\ turns' = endTurn(q.turn, trace) /\ nextId' = nextId
      /\ IF q.mine THEN messages' = Append(messages, answer) /\ busy' = FALSE
         ELSE messages' = messages /\ busy' = busy
  BY Zenon DEF Finished
<1>2. /\ turns \in Seq(Turn) /\ nextId \in Nat /\ messages \in Seq(Said) /\ busy \in BOOLEAN
      /\ requests \subseteq Request
  BY DEF ChatInv, ChatTypes
<1>3. q.turn \in Int /\ q.mine \in BOOLEAN /\ trace \in Int \cup {None}
  BY <1>2 DEF Request
<1>4. /\ turns' \in Seq(Turn) /\ DOMAIN turns' = DOMAIN turns
      /\ \A k \in DOMAIN turns :
            /\ turns[k].id = q.turn =>
                  turns'[k].id = q.turn /\ ~turns'[k].open /\ turns'[k].trace = trace
            /\ turns[k].id # q.turn => turns'[k] = turns[k]
  <2> DEFINE id == q.turn
             new == endTurn(id, trace)
  <2>1. id \in Int /\ trace \in Int \cup {None} /\ turns \in Seq(Turn)
    BY <1>2, <1>3
  <2> HIDE DEF id
  <2>2. /\ new \in Seq(Turn) /\ DOMAIN new = DOMAIN turns
        /\ \A k \in DOMAIN turns : turns[k].id # id => new[k] = turns[k]
        /\ \A k \in DOMAIN turns : turns[k].id = id => new[k].id = id /\ new[k].trace = trace
        /\ \A k \in DOMAIN turns : turns[k].id = id => ~new[k].open
    <3>1. /\ new \in Seq(Turn) /\ DOMAIN new = DOMAIN turns
          /\ \A k \in DOMAIN turns : turns[k].id # id => new[k] = turns[k]
          /\ \A k \in DOMAIN turns : turns[k].id = id => new[k].id = id /\ new[k].trace = trace
      BY <2>1, Ended
    <3>2. \A k \in DOMAIN turns : turns[k].id = id => ~new[k].open
      BY <2>1, Ended
    <3>3. QED
      BY <3>1, <3>2
  <2>3. turns' = new
    BY <1>1 DEF id
  <2> HIDE DEF new
  <2>4. QED
    BY <2>2, <2>3 DEF id
<1>5. /\ messages' \in Seq(Said)
      /\ busy' \in BOOLEAN
  <2>1. CASE q.mine
    BY <1>1, <1>2, <2>1, Spoken, Zenon
  <2>2. CASE ~q.mine
    BY <1>1, <1>2, <2>2, Zenon
  <2>3. QED
    BY <2>1, <2>2
<1>6. ChatTypes'
  BY <1>1, <1>2, <1>4, <1>5 DEF ChatTypes
<1>7. Store'
  <2>1. ASSUME NEW k \in DOMAIN turns'
        PROVE  /\ turns'[k].id = nextId' - k
               /\ turns'[k].open <=> \E r \in requests' : r.turn = turns'[k].id
               /\ turns'[k].trace \in {None, turns'[k].id}
    <3>1. /\ k \in DOMAIN turns /\ turns[k].id = nextId - k
          /\ turns[k].open <=> \E r \in requests : r.turn = turns[k].id
          /\ turns[k].trace \in {None, turns[k].id}
      BY <1>4, <2>1 DEF ChatInv, Store
    <3>2. CASE turns[k].id = q.turn
      <4>1. turns'[k].id = q.turn /\ ~turns'[k].open /\ turns'[k].trace = trace
        BY <1>4, <3>1, <3>2, Zenon
      <4>2. \A r \in requests' : r.turn # q.turn
        BY <1>1 DEF ChatInv, Store
      <4>3. QED
        BY <1>1, <3>1, <3>2, <4>1, <4>2
    <3>3. CASE turns[k].id # q.turn
      <4>1. turns'[k] = turns[k]
        BY <1>4, <3>1, <3>3, Zenon
      <4>2. QED
        BY <1>1, <3>1, <3>3, <4>1
    <3>4. QED
      BY <3>2, <3>3
  <2>2. /\ \A r \in requests' : r.turn < nextId'
        /\ \A r, t \in requests' : r.turn = t.turn => r = t
    BY <1>1 DEF ChatInv, Store
  <2>3. QED
    BY <2>1, <2>2 DEF Store
<1>8. CASE q.mine
  <2>1. /\ messages # <<>> /\ \A r \in requests' : ~r.mine
        /\ messages[Len(messages)] = Message("user", q.turn, FALSE, None)
    BY <1>1, <1>8 DEF ChatInv, Talk
  <2>2. messages[Len(messages)].role = "user" /\ messages[Len(messages)].turn = q.turn
    BY <2>1 DEF Message
  <2>3. /\ Len(messages) \in Nat \ {0} /\ DOMAIN messages = 1 .. Len(messages)
    BY <1>2, <2>1, EmptySeq
  <2>4. /\ Len(messages') = Len(messages) + 1
        /\ DOMAIN messages' = 1 .. Len(messages) + 1
        /\ \A i \in 1 .. Len(messages) : messages'[i] = messages[i]
        /\ messages'[Len(messages) + 1] = answer
    BY <1>1, <1>2, <1>8, Spoken, Zenon
  <2>5. ASSUME NEW i \in DOMAIN messages'
        PROVE  IF messages'[i].role = "assistant"
               THEN i > 1 /\ messages'[i - 1].role = "user" /\ messages'[i - 1].turn = messages'[i].turn
               ELSE i < Len(messages') => messages'[i + 1].role = "assistant"
    <3>1. CASE i = Len(messages) + 1
      <4>1. messages'[i] = answer /\ messages'[i - 1] = messages[Len(messages)] /\ i > 1
        BY <2>3, <2>4, <3>1
      <4>2. QED
        BY <2>2, <4>1
    <3>2. CASE i # Len(messages) + 1
      <4>1. i \in 1 .. Len(messages) /\ messages'[i] = messages[i]
        BY <2>3, <2>4, <3>2
      <4>2. CASE messages[i].role = "assistant"
        BY <2>3, <2>4, <4>1, <4>2 DEF ChatInv, Talk
      <4>3. CASE messages[i].role # "assistant" /\ i = Len(messages)
        <5>1. messages'[i + 1] = answer
          BY <2>3, <2>4, <4>3
        <5>2. QED
          BY <4>1, <4>3, <5>1
      <4>4. CASE messages[i].role # "assistant" /\ i # Len(messages)
        <5>1. i + 1 \in 1 .. Len(messages) /\ messages[i + 1].role = "assistant"
          BY <2>3, <4>1, <4>4 DEF ChatInv, Talk
        <5>2. messages'[i + 1] = messages[i + 1]
          BY <2>4, <5>1
        <5>3. QED
          BY <4>1, <4>4, <5>1, <5>2
      <4>5. QED
        BY <4>2, <4>3, <4>4
    <3>3. QED
      BY <3>1, <3>2
  <2>6. messages'[Len(messages')].role = "assistant"
    BY <2>4
  <2>7. busy' = FALSE
    BY <1>1, <1>8
  <2>8. Talk'
    BY <2>1, <2>5, <2>6, <2>7, Zenon DEF Talk
  <2>9. QED
    BY <1>6, <1>7, <2>8 DEF ChatInv
<1>9. CASE ~q.mine
  <2>1. messages' = messages /\ busy' = busy /\ \A r \in requests : r.mine => r \in requests'
    BY <1>1, <1>9
  <2>2. requests' \subseteq requests
    BY <1>1
  <2>3. Talk
    BY DEF ChatInv
  <2>4. Talk'
    BY <2>1, <2>2, <2>3, Zenon DEF Talk
  <2>5. QED
    BY <1>6, <1>7, <2>4 DEF ChatInv
<1>10. QED
  BY <1>3, <1>8, <1>9

\* Leaving the chat drops it, and its requests go on without it.
LEMMA LeavingKeeps ==
    ASSUME ChatInv, turns' = turns, nextId' = nextId, messages' = <<>>, busy' = FALSE,
           requests' = {[q EXCEPT !.mine = FALSE] : q \in requests}
    PROVE  ChatInv'
<1>1. /\ turns \in Seq(Turn) /\ nextId \in Nat /\ requests \subseteq Request
  BY DEF ChatInv, ChatTypes
<1>2. ASSUME NEW q \in Request
      PROVE  LET r == [q EXCEPT !.mine = FALSE]
             IN r \in Request /\ r.turn = q.turn /\ r.mine = FALSE
  BY DEF Request
<1>3. /\ \A r \in requests' : r \in Request /\ ~r.mine /\ \E q \in requests : r.turn = q.turn
      /\ \A q \in requests : \E r \in requests' : r.turn = q.turn
  BY <1>1, <1>2
<1>4. \A r, t \in requests' : r.turn = t.turn => r = t
  <2> TAKE r, t \in requests'
  <2> HAVE r.turn = t.turn
  <2>1. PICK q \in requests, p \in requests :
           r = [q EXCEPT !.mine = FALSE] /\ t = [p EXCEPT !.mine = FALSE]
    OBVIOUS
  <2>2. r.turn = q.turn /\ t.turn = p.turn
    BY <1>1, <1>2, <2>1
  <2>3. q = p
    BY <2>2 DEF ChatInv, Store
  <2>4. QED
    BY <2>1, <2>3
<1>5. ChatTypes'
  BY <1>1, <1>3, EmptySeq DEF ChatTypes
<1>6. Store'
  <2>1. Store
    BY DEF ChatInv
  <2>2. \A k \in DOMAIN turns :
            (\E q \in requests : q.turn = turns[k].id) <=> \E q \in requests' : q.turn = turns[k].id
    BY <1>3
  <2>3. \A q \in requests' : q.turn < nextId
    BY <1>3, <2>1 DEF Store
  <2>4. \A k \in DOMAIN turns :
            /\ turns[k].id = nextId - k
            /\ turns[k].open <=> \E q \in requests' : q.turn = turns[k].id
            /\ turns[k].trace \in {None, turns[k].id}
    BY <2>1, <2>2, Zenon DEF Store
  <2>5. QED
    BY <1>4, <2>3, <2>4 DEF Store
<1>7. Talk'
  BY <1>3 DEF Talk
<1>8. QED
  BY <1>5, <1>6, <1>7 DEF ChatInv

LEMMA StayingKeeps ==
    ASSUME ChatInv, UNCHANGED <<turns, nextId, messages, busy, requests>>
    PROVE  ChatInv'
BY DEF ChatInv, ChatTypes, Store, Talk

LEMMA ChatNext == ChatInv /\ [Next]_vars => ChatInv'
<1> SUFFICES ASSUME ChatInv, [Next]_vars PROVE ChatInv'
  OBVIOUS
<1> USE DEF chatVars
<1>1. CASE ClickEntry
  <2>1. PICK panel : Navigate(panel)
    BY <1>1, Zenon DEF ClickEntry
  <2>2. CASE splitPanelPath(path', config) = active
    BY <2>1, <2>2, StayingKeeps, Zenon DEF Navigate
  <2>3. CASE splitPanelPath(path', config) # active
    BY <2>1, <2>3, LeavingKeeps, Zenon DEF Navigate
  <2>4. QED
    BY <2>2, <2>3
<1>2. CASE submit
  BY <1>2, SubmitKeeps
<1>3. CASE select \/ Provision \/ External
  BY <1>3, StayingKeeps, Zenon DEF select, Provision, External, Deploy
<1>4. CASE AnswerChat
  <2>1. PICK q \in requests : Answered(q) \/ Failed(q)
    BY <1>4, Zenon DEF AnswerChat
  <2>2. q.turn \in Int
    BY DEF ChatInv, ChatTypes, Request
  <2>3. CASE Answered(q)
    <3>1. PICK r \in Responses, trace \in {None, q.turn} :
             Finished(q, trace, Message("assistant", q.turn, FALSE, deriveAttribution(r)))
      BY <2>3, Zenon DEF Answered
    <3> DEFINE answer == Message("assistant", q.turn, FALSE, deriveAttribution(r))
    <3>2. answer \in Said
      BY <2>2, SaidMessages
    <3>3. answer.role = "assistant" /\ answer.turn = q.turn
      BY DEF Message
    <3> HIDE DEF answer
    <3>4. Finished(q, trace, answer)
      BY <3>1, Zenon DEF answer
    <3>5. QED
      BY <3>2, <3>3, <3>4, FinishedKeeps, Zenon
  <2>4. CASE Failed(q)
    <3> DEFINE answer == Message("assistant", q.turn, TRUE, None)
    <3>1. answer \in Said
      BY <2>2, SaidMessages
    <3>2. answer.role = "assistant" /\ answer.turn = q.turn
      BY DEF Message
    <3>3. Finished(q, None, answer)
      BY <2>4, Zenon DEF Failed
    <3> HIDE DEF answer
    <3>4. QED
      BY <3>1, <3>2, <3>3, FinishedKeeps, Zenon
  <2>5. QED
    BY <2>1, <2>3, <2>4
<1>5. CASE AnswerRead \/ AnswerApplied \/ AnswerPoll
  BY <1>5, StayingKeeps, Zenon DEF AnswerRead, AnswerApplied, AnswerPoll
<1>6. CASE \E agent \in Watched(config) : (agent \in probes /\ AnswerProbe(agent)) \/ Reprobe(agent)
  BY <1>6, StayingKeeps, Zenon DEF AnswerProbe, Reprobe
<1>7. CASE UNCHANGED vars
  BY <1>7, StayingKeeps, Zenon DEF vars
<1>8. QED
  BY <1>1, <1>2, <1>3, <1>4, <1>5, <1>6, <1>7, Zenon DEF Next

-----------------------------------------------------------------------------
(* The properties.                                                         *)

LEMMA ChatHolds == Spec => []ChatInv
<1>1. QED
  BY ChatInit, ChatNext, PTL DEF Spec

\* An answer is attributed exactly when a document reached it, else it says why not.
LEMMA AttributedTruly ==
    ASSUME NEW r
    PROVE  LET a         == deriveAttribution(r)
               documents == {s \in DOMAIN a.composed : a.composed[s] > 0}
           IN /\ a.attributed <=> documents # {}
              /\ a.attributed <=> a.reasons = {}
BY DEF deriveAttribution

LEMMA StoreFollows == ChatInv => TurnsFollowRequests
<1> SUFFICES ASSUME ChatInv PROVE TurnsFollowRequests
  OBVIOUS
<1>1. TraceAsked \in {None, selected}
  <2>1. CASE \E t \in Items(turns) : t.id = selected
    <3> DEFINE asked == CHOOSE t \in Items(turns) : t.id = selected
    <3>1. asked \in Items(turns) /\ asked.id = selected
      BY <2>1
    <3>2. TraceAsked = asked.trace
      BY <2>1 DEF TraceAsked
    <3> HIDE DEF asked
    <3>3. PICK k \in DOMAIN turns : asked = turns[k]
      BY <3>1 DEF Items
    <3>4. QED
      BY <3>1, <3>2, <3>3 DEF ChatInv, Store
  <2>2. QED
    BY <2>1 DEF TraceAsked
<1>2. QED
  BY <1>1, Zenon DEF TurnsFollowRequests, ChatInv, Store

LEMMA TalkFollows == ChatInv => AnswerFollowsQuestion
<1> SUFFICES ASSUME ChatInv PROVE AnswerFollowsQuestion
  OBVIOUS
<1>1. ASSUME NEW m \in Items(messages), m.attribution # None
      PROVE  LET documents == {s \in DOMAIN m.attribution.composed : m.attribution.composed[s] > 0}
             IN /\ m.attribution.attributed <=> documents # {}
                /\ m.attribution.attributed <=> m.attribution.reasons = {}
  <2>1. m \in Said
    BY DEF ChatInv, ChatTypes, Items
  <2>2. m.attribution \in {deriveAttribution(r) : r \in Responses}
    BY <1>1, <2>1 DEF Said
  <2>3. PICK r \in Responses : m.attribution = deriveAttribution(r)
    BY <2>2, Zenon
  <2>4. QED
    BY <2>3, AttributedTruly, Zenon
<1>2. QED
  BY <1>1, Zenon DEF AnswerFollowsQuestion, ChatInv, Talk, Last

\* Every turn of the store is open exactly while its request is out, whichever panel
\* is on the page when it is answered, and the trace read is the selected turn's own
\* (turns.tsx, ObservabilityPanel.tsx).
THEOREM TurnsAlwaysFollow == Spec => []TurnsFollowRequests
BY ChatHolds, StoreFollows, PTL

\* In the chat every answer stands under its own question, at most one question is
\* out, sent with what was said before it, and a source is named only if a document
\* of it reached the answer (ChatPanel.tsx, api.ts).
THEOREM AnswersAlwaysFollow == Spec => []AnswerFollowsQuestion
BY ChatHolds, TalkFollows, PTL

-----------------------------------------------------------------------------
(* Meshes, their drafts and what differs between two.                      *)

LEMMA Listing ==
    ASSUME NEW f, NEW n \in Nat, DOMAIN f = 1 .. n, f = [i \in 1 .. n |-> f[i]]
    PROVE  f \in Seq(ToSet(f))
<1>1. f \in [1 .. n -> ToSet(f)]
  BY DEF ToSet
<1>2. QED
  BY <1>1, SeqDef

LEMMA SeqIsListing ==
    ASSUME NEW S, NEW f \in Seq(S)
    PROVE  f \in Seq(ToSet(f)) /\ Len(f) \in Nat /\ DOMAIN f = 1 .. Len(f)
<1>1. Len(f) \in Nat /\ DOMAIN f = 1 .. Len(f)
  OBVIOUS
<1>2. f = [i \in 1 .. Len(f) |-> f[i]]
  BY <1>1
<1>3. QED
  BY <1>1, <1>2, Listing, Zenon

LEMMA EditsAreMeshes ==
    ASSUME NEW m, IsMesh(m), NEW d \in DraftsOf(m)
    PROVE  IsMesh(d)
<1>1. /\ {"rags", "llm", "params"} \subseteq DOMAIN m /\ m.rags \in Seq(ToSet(m.rags))
  BY DEF IsMesh
<1>2. ASSUME NEW i \in DOMAIN m.rags, NEW rag, d = withRag(m, i, rag)
      PROVE  IsMesh(d)
  <2>1. d.rags = [m.rags EXCEPT ![i] = rag] /\ DOMAIN d = DOMAIN m
    BY <1>1, <1>2 DEF withRag
  <2>2. m.rags \in [1 .. Len(m.rags) -> ToSet(m.rags)] /\ Len(m.rags) \in Nat
    BY <1>1
  <2>3. d.rags \in [1 .. Len(m.rags) -> ToSet(m.rags) \cup {rag}]
    BY <2>1, <2>2
  <2>4. d.rags \in Seq(ToSet(m.rags) \cup {rag})
    BY <2>2, <2>3, SeqDef
  <2>5. QED
    BY <1>1, <2>1, <2>4, SeqIsListing DEF IsMesh
<1>3. ASSUME NEW i \in DOMAIN m.rags, d = removeRag(m, i)
      PROVE  IsMesh(d)
  <2>1. d.rags = RemoveAt(m.rags, i) /\ DOMAIN d = DOMAIN m
    BY <1>1, <1>3 DEF removeRag
  <2>2. RemoveAt(m.rags, i) \in Seq(ToSet(m.rags))
    BY <1>1 DEF RemoveAt
  <2>3. QED
    BY <1>1, <2>1, <2>2, SeqIsListing DEF IsMesh
<1>4. ASSUME NEW rag, d = [m EXCEPT !.rags = Append(m.rags, rag)]
      PROVE  IsMesh(d)
  <2>1. d.rags = Append(m.rags, rag) /\ DOMAIN d = DOMAIN m
    BY <1>1, <1>4
  <2>2. Append(m.rags, rag) \in Seq(ToSet(m.rags) \cup {rag})
    BY <1>1
  <2>3. QED
    BY <1>1, <2>1, <2>2, SeqIsListing DEF IsMesh
<1>5. ASSUME NEW e, d = withLLM(m, e) \/ d = withParam(m, e)
      PROVE  IsMesh(d)
  <2>1. d.rags = m.rags /\ DOMAIN d = DOMAIN m
    BY <1>1, <1>5 DEF withLLM, withParam
  <2>2. QED
    BY <1>1, <2>1 DEF IsMesh
<1> DEFINE Written  == {withRag(m, i, [m.rags[i] EXCEPT ![e[1]] = e[2]]) : i \in DOMAIN m.rags, e \in RagEdits}
           Removed  == {removeRag(m, i) : i \in DOMAIN m.rags}
           Added    == IF Len(m.rags) < MaxRags THEN {addRag(m)} ELSE {}
           Endpoint == {withLLM(m, e) :
                           e \in {w \in LLMEdits : w[1] \in {"endpoint", "chatModel"} \/ m.llm.inCluster}}
           Param    == {withParam(m, e) : e \in ParamEdits}
<1>6. ASSUME d \in Written PROVE IsMesh(d)
  <2>1. PICK i \in DOMAIN m.rags, e \in RagEdits : d = withRag(m, i, [m.rags[i] EXCEPT ![e[1]] = e[2]])
    BY <1>6
  <2>2. QED
    BY <1>2, <2>1, Zenon
<1>7. ASSUME d \in Removed PROVE IsMesh(d)
  BY <1>3, <1>7, Zenon
<1>8. ASSUME d \in Added PROVE IsMesh(d)
  <2>1. d = addRag(m)
    BY <1>8
  <2>2. QED
    BY <1>4, <2>1, Zenon DEF addRag
<1>9. ASSUME d \in Endpoint \cup Param PROVE IsMesh(d)
  BY <1>5, <1>9, Zenon
<1>10. DraftsOf(m) = Written \cup Removed \cup Added \cup Endpoint \cup Param
  BY DEF DraftsOf
<1> HIDE DEF Written, Removed, Added, Endpoint, Param
<1>11. QED
  BY <1>6, <1>7, <1>8, <1>9, <1>10

LEMMA DistinctNames ==
    ASSUME NEW f, f \in Seq(ToSet(f)), Distinct(f),
           NEW i \in DOMAIN f, NEW j \in DOMAIN f, f[i].name = f[j].name
    PROVE  i = j
<1> DEFINE n     == Len(f)
           names == {f[k].name : k \in DOMAIN f}
           g     == [k \in 1 .. n |-> f[k].name]
<1>1. n \in Nat /\ DOMAIN f = 1 .. n
  OBVIOUS
<1> HIDE DEF n
<1>2. IsFiniteSet(1 .. n) /\ Cardinality(1 .. n) = n
  <2>1. IsFiniteSet(1 .. n) /\ Cardinality(1 .. n) = IF 1 > n THEN 0 ELSE n - 1 + 1
    BY <1>1, FS_Interval
  <2>2. QED
    BY <1>1, <2>1
<1>3. Cardinality(names) = n
  BY DEF Distinct, n
<1>4. g \in Surjection(1 .. n, names)
  BY <1>1 DEF Surjection
<1>5. g \in Injection(1 .. n, names)
  BY <1>2, <1>3, <1>4, FS_SurjSameCardinalityImpliesInj
<1>6. g[i] = g[j]
  BY <1>1
<1>7. QED
  BY <1>1, <1>5, <1>6 DEF Injection, IsInjective

LEMMA Named ==
    ASSUME NEW f, f \in Seq(ToSet(f)), Distinct(f)
    PROVE  /\ DOMAIN ByName(f) = {r.name : r \in Items(f)}
           /\ \A r \in Items(f) : ByName(f)[r.name] = r
<1>1. DOMAIN ByName(f) = {f[i].name : i \in DOMAIN f}
  BY DEF ByName
<1>2. ASSUME NEW i \in DOMAIN f
      PROVE  ByName(f)[f[i].name] = f[i]
  <2> DEFINE n == f[i].name
             last(j) == f[j].name = n /\ \A k \in DOMAIN f : f[k].name = n => k <= j
             c == CHOOSE j \in DOMAIN f : last(j)
  <2>1. \A k \in DOMAIN f : f[k].name = n => k = i
    BY DistinctNames
  <2>2. \A k \in DOMAIN f : f[k].name = n => k <= i
    BY <2>1
  <2>3. last(i)
    BY <2>2
  <2>4. c \in DOMAIN f /\ last(c)
    BY <2>3
  <2>5. c = i
    BY <2>1, <2>4
  <2>6. ByName(f)[n] = f[c]
    BY DEF ByName
  <2>7. QED
    BY <2>5, <2>6
<1>3. QED
  BY <1>1, <1>2 DEF Items

LEMMA DiffIsChanges ==
    ASSUME NEW x, NEW y, IsMesh(x), IsMesh(y), Distinct(x.rags), Distinct(y.rags)
    PROVE  diffMesh(x, y) = Changes(x, y) \ Unlisted
<1> DEFINE cur   == ByName(x.rags)
           next  == ByName(y.rags)
           lines == {<<"rag", n>> : n \in {m \in DOMAIN next : m \notin DOMAIN cur \/ cur[m] # next[m]}}
                       \cup {<<"rag", n>> : n \in DOMAIN cur \ DOMAIN next}
           moved == {<<"rag", r.name>> : r \in (Items(x.rags) \ Items(y.rags))
                                                   \cup (Items(y.rags) \ Items(x.rags))}
           llm(S) == {<<"llm", f>> : f \in {g \in S : x.llm[g] # y.llm[g]}}
           params == {<<"params", f>> : f \in {g \in DOMAIN y.params : x.params[g] # y.params[g]}}
           rest  == llm(Previewed) \cup params
<1>1. /\ DOMAIN cur = {r.name : r \in Items(x.rags)} /\ \A r \in Items(x.rags) : cur[r.name] = r
      /\ DOMAIN next = {r.name : r \in Items(y.rags)} /\ \A r \in Items(y.rags) : next[r.name] = r
  BY Named DEF IsMesh
<1>2. diffMesh(x, y) = lines \cup rest
  BY DEF diffMesh
<1>3. Changes(x, y) \ Unlisted = moved \cup rest
  <2>1. Changes(x, y) = moved \cup llm(LLMFields) \cup params
    BY DEF Changes
  <2>2. moved \cap Unlisted = {} /\ params \cap Unlisted = {}
    BY DEF Unlisted
  <2>3. llm(LLMFields) \ Unlisted = llm(Previewed)
    <3>1. LLMFields = Previewed \cup {"chatModel", "embedModel"}
      BY DEF LLMFields, Previewed
    <3>2. Previewed \cap {"chatModel", "embedModel"} = {}
      BY DEF Previewed
    <3> QED
      BY <3>1, <3>2 DEF Unlisted
  <2> HIDE DEF moved, params, llm
  <2> QED
    BY <2>1, <2>2, <2>3
<1> HIDE DEF cur, next, rest
<1>4. lines \subseteq moved
  <2>1. ASSUME NEW n \in DOMAIN next, n \notin DOMAIN cur \/ cur[n] # next[n]
        PROVE  <<"rag", n>> \in moved
    <3>1. PICK r \in Items(y.rags) : n = r.name /\ next[n] = r
      BY <1>1
    <3>2. r \notin Items(x.rags)
      BY <1>1, <2>1, <3>1
    <3>3. QED
      BY <3>1, <3>2
  <2>2. ASSUME NEW n \in DOMAIN cur \ DOMAIN next
        PROVE  <<"rag", n>> \in moved
    <3>1. PICK r \in Items(x.rags) : n = r.name
      BY <1>1
    <3>2. r \notin Items(y.rags)
      BY <1>1, <2>2, <3>1
    <3>3. QED
      BY <3>1, <3>2
  <2>3. QED
    BY <2>1, <2>2
<1>5. moved \subseteq lines
  <2>1. ASSUME NEW r \in Items(x.rags), r \notin Items(y.rags)
        PROVE  <<"rag", r.name>> \in lines
    <3>1. r.name \in DOMAIN cur /\ cur[r.name] = r
      BY <1>1
    <3>2. CASE r.name \in DOMAIN next
      <4>1. next[r.name] # r
        BY <1>1, <2>1, <3>2
      <4>2. QED
        BY <3>1, <3>2, <4>1
    <3>3. QED
      BY <3>1, <3>2
  <2>2. ASSUME NEW r \in Items(y.rags), r \notin Items(x.rags)
        PROVE  <<"rag", r.name>> \in lines
    <3>1. r.name \in DOMAIN next /\ next[r.name] = r
      BY <1>1
    <3>2. CASE r.name \in DOMAIN cur
      <4>1. cur[r.name] # r
        BY <1>1, <2>2, <3>2
      <4>2. QED
        BY <3>1, <3>2, <4>1
    <3>3. QED
      BY <3>1, <3>2
  <2>3. QED
    BY <2>1, <2>2
<1>6. QED
  BY <1>2, <1>3, <1>4, <1>5

-----------------------------------------------------------------------------
(* The provisioning panel.                                                 *)

\* The meshes the panel holds are meshes, and an apply carries the differences of the
\* two it was asked with.
Asked(a) ==
    /\ {"view", "preview", "of", "mine"} \subseteq DOMAIN a
    /\ IsMesh(a.view) /\ IsMesh(a.of) /\ a.preview = diffMesh(a.of, a.view)

Drafts(p) ==
    /\ {"state", "draft"} \subseteq DOMAIN p
    /\ p.state = Unset \/ IsMesh(p.state)
    /\ p.draft = Unset \/ IsMesh(p.draft)

ProvInv == IsMesh(mesh) /\ Drafts(prov) /\ \A a \in applies : Asked(a)

LEMMA ProvInitially == Init => ProvInv
<1> SUFFICES ASSUME Init PROVE ProvInv
  OBVIOUS
<1>1. mesh = Deployed /\ prov = Blank /\ applies = {}
  BY DEF Init, ProvInit
<1>2. Drafts(Blank)
  BY DEF Drafts, Blank
<1>3. QED
  BY <1>1, <1>2, MeshAssumption DEF ProvInv

\* The panel's other fields say nothing of the meshes.
LEMMA SameDrafts ==
    ASSUME NEW p, NEW q, Drafts(p), DOMAIN q = DOMAIN p, q.state = p.state, q.draft = p.draft
    PROVE  Drafts(q)
BY DEF Drafts

LEMMA MeshRead ==
    ASSUME ProvInv, AnswerMesh
    PROVE  ProvInv'
<1>1. mesh' = mesh /\ applies' = applies
  BY DEF AnswerMesh
<1>2. CASE prov' = [prov EXCEPT !.state = mesh, !.draft = mesh, !.loading = FALSE]
  <2>1. DOMAIN prov' = DOMAIN prov
    BY <1>2, Zenon
  <2>2. prov'.state = mesh /\ prov'.draft = mesh
    BY <1>2, Zenon DEF ProvInv, Drafts
  <2>3. QED
    BY <1>1, <2>1, <2>2 DEF ProvInv, Drafts
<1>3. CASE prov' = ReadFailure
  <2>1. DOMAIN prov' = DOMAIN prov /\ prov'.state = prov.state /\ prov'.draft = prov.draft
    BY <1>3, Zenon DEF ReadFailure, ProvInv, Drafts
  <2>2. QED
    BY <1>1, <2>1, SameDrafts DEF ProvInv
<1>4. QED
  BY <1>2, <1>3 DEF AnswerMesh

LEMMA PanelKeeps ==
    ASSUME ProvInv, PanelActions
    PROVE  ProvInv'
<1>1. CASE SubmitToken \/ Reload
  <2>1. DOMAIN prov' = DOMAIN prov /\ prov'.state = prov.state /\ prov'.draft = prov.draft
    BY <1>1, Zenon DEF SubmitToken, Reload, ReadMesh, ProvInv, Drafts
  <2>2. mesh' = mesh /\ applies' = applies
    BY <1>1 DEF SubmitToken, Reload
  <2>3. QED
    BY <2>1, <2>2, SameDrafts DEF ProvInv
<1>2. CASE Edit
  <2>1. PICK draft \in DraftsOf(prov.draft) : prov' = [prov EXCEPT !.draft = draft]
    BY <1>2, Zenon DEF Edit
  <2>2. prov.draft # Unset /\ mesh' = mesh /\ applies' = applies
    BY <1>2, Zenon DEF Edit
  <2>3. IsMesh(draft)
    BY <2>2, EditsAreMeshes DEF ProvInv, Drafts
  <2>4. DOMAIN prov' = DOMAIN prov /\ prov'.state = prov.state /\ prov'.draft = draft
    BY <2>1 DEF ProvInv, Drafts
  <2>5. QED
    BY <2>2, <2>3, <2>4 DEF ProvInv, Drafts
<1>3. CASE Apply
  <2> DEFINE a0 == [view |-> prov.draft, preview |-> Diff, of |-> prov.state, mine |-> TRUE]
  <2>1. Diff # {} /\ mesh' = mesh /\ applies' = applies \cup {a0}
    BY <1>3, Zenon DEF Apply
  <2>2. prov'.state = prov.state /\ prov'.draft = prov.draft /\ DOMAIN prov' = DOMAIN prov
    BY <1>3, Zenon DEF Apply, ProvInv, Drafts
  <2>3. prov.state # Unset /\ prov.draft # Unset /\ Diff = diffMesh(prov.state, prov.draft)
    BY <2>1 DEF Diff
  <2>4. Asked(a0)
    BY <2>3 DEF Asked, ProvInv, Drafts
  <2> HIDE DEF a0
  <2>5. QED
    BY <2>1, <2>2, <2>4, SameDrafts DEF ProvInv
<1>4. CASE PollRollout
  BY <1>4, Zenon DEF PollRollout, ProvInv
<1>5. QED
  BY <1>1, <1>2, <1>3, <1>4 DEF PanelActions

LEMMA ApplyAnswered ==
    ASSUME ProvInv, NEW a \in applies, AnswerApply(a)
    PROVE  ProvInv'
<1>1. applies' = applies \ {a} /\ (mesh' = a.view \/ mesh' = mesh)
  BY Zenon DEF AnswerApply
<1>2. Drafts(prov')
  <2>1. CASE prov' = prov
    BY <2>1 DEF ProvInv
  <2>2. CASE prov' # prov
    <3>1. PICK ok \in BOOLEAN : prov' = [prov EXCEPT !.applying = FALSE, !.applied = @ \/ ok]
      BY <2>2, Zenon DEF AnswerApply
    <3>2. DOMAIN prov' = DOMAIN prov /\ prov'.state = prov.state /\ prov'.draft = prov.draft
      BY <3>1, Zenon DEF ProvInv, Drafts
    <3>3. QED
      BY <3>2, SameDrafts DEF ProvInv
  <2>3. QED
    BY <2>1, <2>2
<1>3. Asked(a)
  BY DEF ProvInv
<1>4. QED
  BY <1>1, <1>2, <1>3 DEF ProvInv, Asked

LEMMA RolloutAnswered ==
    ASSUME ProvInv, NEW k, AnswerRollout(k)
    PROVE  ProvInv'
<1>1. mesh' = mesh /\ applies' = applies
  BY DEF AnswerRollout
<1>2. DOMAIN prov' = DOMAIN prov /\ prov'.state = prov.state /\ prov'.draft = prov.draft
  BY Zenon DEF AnswerRollout, ProvInv, Drafts
<1>3. QED
  BY <1>1, <1>2, SameDrafts DEF ProvInv

LEMMA UnmountedKeeps ==
    ASSUME ProvInv, Unmounted
    PROVE  ProvInv'
<1>1. /\ mesh' = mesh /\ prov' = Blank
      /\ applies' = {[a EXCEPT !.mine = FALSE] : a \in applies}
  BY DEF Unmounted
<1>2. ASSUME NEW a, Asked(a)
      PROVE  Asked([a EXCEPT !.mine = FALSE])
  BY <1>2 DEF Asked
<1>3. Drafts(Blank)
  BY DEF Drafts, Blank
<1>4. QED
  BY <1>1, <1>2, <1>3 DEF ProvInv

LEMMA ProvStays == ASSUME ProvInv, UNCHANGED provVars PROVE ProvInv'
BY DEF ProvInv, provVars

LEMMA ProvNext == ProvInv /\ [Next]_vars => ProvInv'
<1> SUFFICES ASSUME ProvInv, [Next]_vars PROVE ProvInv'
  OBVIOUS
<1>1. CASE ClickEntry
  BY <1>1, UnmountedKeeps, ProvStays, Zenon DEF ClickEntry, Navigate
<1>2. CASE submit \/ select \/ AnswerChat
  <2>1. UNCHANGED provVars
    BY <1>2, Zenon DEF submit, select, AnswerChat, Answered, Failed, Finished
  <2>2. QED
    BY <2>1, ProvStays
<1>3. CASE Provision
  BY <1>3, PanelKeeps, Zenon DEF Provision
<1>4. CASE External
  <2>1. CASE Deploy
    BY <2>1, ProvStays, Zenon DEF Deploy
  <2>2. CASE Deployment
    <3>1. prov' = prov /\ applies' = applies /\ (mesh' = mesh \/ mesh' \in Others)
      BY <2>2, Zenon DEF Deployment
    <3>2. QED
      BY <3>1, MeshAssumption DEF ProvInv
  <2>3. QED
    BY <1>4, <2>1, <2>2, Zenon DEF External
<1>5. CASE AnswerRead
  BY <1>5, MeshRead, Zenon DEF AnswerRead
<1>6. CASE AnswerApplied
  BY <1>6, ApplyAnswered, Zenon DEF AnswerApplied
<1>7. CASE AnswerPoll
  BY <1>7, RolloutAnswered, Zenon DEF AnswerPoll
<1>8. CASE \E agent \in Watched(config) : (agent \in probes /\ AnswerProbe(agent)) \/ Reprobe(agent)
  BY <1>8, ProvStays, Zenon DEF AnswerProbe, Reprobe
<1>9. CASE UNCHANGED vars
  BY <1>9, ProvStays, Zenon DEF vars
<1>10. QED
  BY <1>1, <1>2, <1>3, <1>4, <1>5, <1>6, <1>7, <1>8, <1>9, Zenon DEF Next

LEMMA AppliesShown == ProvInv => AppliedWasPreviewed
<1> SUFFICES ASSUME ProvInv, NEW a \in applies,
                    a.of = mesh, Distinct(a.view.rags), Distinct(mesh.rags)
             PROVE  a.preview = Changes(mesh, a.view) \ Unlisted
  BY Zenon DEF AppliedWasPreviewed
<1>1. IsMesh(a.view) /\ IsMesh(a.of) /\ a.preview = diffMesh(a.of, a.view)
  BY Zenon DEF ProvInv, Asked
<1>2. QED
  BY <1>1, DiffIsChanges, Zenon

\* What an apply changes is exactly what the operator was shown, but for the chat and
\* the embedding model, which no preview lists: however late it is answered and whatever
\* is edited, read or left meanwhile, unless another changed the mesh or two units share
\* a name (provisioningApi.ts, diffMesh; ProvisioningPanel.tsx).
THEOREM AppliesAreAlwaysPreviewed == Spec => []AppliedWasPreviewed
<1>1. Spec => []ProvInv
  BY ProvInitially, ProvNext, PTL DEF Spec
<1>2. QED
  BY <1>1, AppliesShown, PTL

-----------------------------------------------------------------------------
(* Places.                                                                 *)

\* Of some places one is the first.
LEMMA FirstIsLeast ==
    ASSUME NEW S \in SUBSET Nat, S # {}
    PROVE  First(S) \in S /\ \A j \in S : First(S) <= j
<1> DEFINE less == {ss \in Nat \X Nat : ss[1] < ss[2]}
<1>1. IsWellFoundedOn(less, Nat)
  <2>1. less = OpToRel(<, Nat)
    BY Zenon DEF OpToRel
  <2> QED
    BY <2>1, NatLessThanWellFounded, Zenon
<1>2. PICK m \in S : \A i \in S : <<i, m>> \notin less
  <2> HIDE DEF less
  <2> QED
    BY <1>1, WFMin, Zenon
<1>3. ASSUME NEW i \in S PROVE m <= i
  <2>1. i \in Nat /\ m \in Nat /\ ~(i < m)
    BY <1>2
  <2> QED
    BY <2>1
<1> QED
  BY <1>3 DEF First

\* A finite set put in one line: each of its members is at one place.
Line(S, R) ==
    /\ IsFiniteSet(S)
    /\ \A i \in S : <<i, i>> \notin R
    /\ \A i, j \in S : i # j => <<i, j>> \in R \/ <<j, i>> \in R
    /\ \A i, j, k \in S : <<i, j>> \in R /\ <<j, k>> \in R => <<i, k>> \in R

LEMMA LaterHasMoreBefore ==
    ASSUME NEW S, NEW R, Line(S, R), NEW i \in S, NEW j \in S, <<i, j>> \in R
    PROVE  Cardinality({k \in S : <<k, i>> \in R}) < Cardinality({k \in S : <<k, j>> \in R})
<1> DEFINE a == {k \in S : <<k, i>> \in R}
           b == {k \in S : <<k, j>> \in R}
<1>1. a \in SUBSET (b \ {i}) /\ i \in b /\ b \in SUBSET S
  BY DEF Line
<1> HIDE DEF a, b
<1>2. IsFiniteSet(b) /\ Cardinality(b) \in Nat
  BY <1>1, FS_Subset, FS_CardinalityType DEF Line
<1>3. IsFiniteSet(b \ {i}) /\ Cardinality(b \ {i}) = Cardinality(b) - 1
  BY <1>1, <1>2, FS_RemoveElement
<1>4. IsFiniteSet(a) /\ Cardinality(a) <= Cardinality(b \ {i})
  BY <1>1, <1>3, FS_Subset
<1>5. Cardinality(a) \in Nat
  BY <1>4, FS_CardinalityType
<1> QED
  BY <1>2, <1>3, <1>4, <1>5 DEF a, b

LEMMA EachAtOnePlace ==
    ASSUME NEW S, NEW R, Line(S, R)
    PROVE  /\ Cardinality(S) \in Nat
           /\ DOMAIN Ordered(S, R) = 1 .. Cardinality(S)
           /\ \A k \in 1 .. Cardinality(S) : Ordered(S, R)[k] \in S
           /\ \A i \in S : \E k \in 1 .. Cardinality(S) : Ordered(S, R)[k] = i
<1> DEFINE n == Cardinality(S)
           before == [i \in S |-> Cardinality({j \in S : <<j, i>> \in R})]
           spot == [i \in S |-> before[i] + 1]
           place == Ordered(S, R)
<1>1. n \in Nat
  BY FS_CardinalityType DEF Line
<1>2. ASSUME NEW i \in S
      PROVE  before[i] \in Nat /\ before[i] < n
  <2> DEFINE a == {j \in S : <<j, i>> \in R}
  <2>1. a \in SUBSET (S \ {i}) /\ IsFiniteSet(S \ {i})
    BY FS_RemoveElement DEF Line
  <2>2. before[i] = Cardinality(a)
    OBVIOUS
  <2> HIDE DEF a
  <2>3. IsFiniteSet(a) /\ Cardinality(a) <= Cardinality(S \ {i})
    BY <2>1, FS_Subset
  <2>4. Cardinality(S \ {i}) = n - 1
    BY FS_RemoveElement DEF Line
  <2>5. Cardinality(a) \in Nat
    BY <2>3, FS_CardinalityType
  <2> HIDE DEF before, n
  <2> QED
    BY <1>1, <2>2, <2>3, <2>4, <2>5
<1>3. \A i, j \in S : <<i, j>> \in R => before[i] < before[j]
  BY LaterHasMoreBefore
<1>4. /\ DOMAIN place = 1 .. n
      /\ \A k \in 1 .. n : place[k] = CHOOSE i \in S : Cardinality({j \in S : <<j, i>> \in R}) = k - 1
  BY DEF Ordered
<1>5. \A i \in S : before[i] = Cardinality({j \in S : <<j, i>> \in R})
  OBVIOUS
<1> HIDE DEF before, place, n
<1>6. \A i, j \in S : before[i] = before[j] => i = j
  <2> SUFFICES ASSUME NEW i \in S, NEW j \in S, i # j PROVE before[i] # before[j]
    OBVIOUS
  <2>1. before[i] < before[j] \/ before[j] < before[i]
    BY <1>3 DEF Line
  <2> QED
    BY <1>2, <2>1
<1>7. spot \in [S -> 1 .. n] /\ \A i \in S : spot[i] = before[i] + 1
  BY <1>1, <1>2
<1> HIDE DEF spot
<1>8. \A i, j \in S : spot[i] = spot[j] => i = j
  BY <1>2, <1>6, <1>7
<1>9. spot \in Surjection(S, 1 .. n)
  <2>1. spot \in Injection(S, 1 .. n)
    BY <1>7, <1>8 DEF Injection, IsInjective
  <2>2. IsFiniteSet(1 .. n) /\ Cardinality(1 .. n) = Cardinality(S)
    BY <1>1, FS_Interval DEF n
  <2> QED
    BY <2>1, <2>2, FS_Injection
<1>10. \A k \in 1 .. n : \E i \in S : before[i] = k - 1
  <2> TAKE k \in 1 .. n
  <2>1. PICK i \in S : spot[i] = k
    BY <1>9 DEF Surjection
  <2> QED
    BY <1>1, <1>2, <1>7, <2>1
<1>11. \A k \in 1 .. n : place[k] \in S /\ before[place[k]] = k - 1
  <2> TAKE k \in 1 .. n
  <2>1. \E i \in S : Cardinality({j \in S : <<j, i>> \in R}) = k - 1
    BY <1>5, <1>10
  <2>2. place[k] \in S /\ Cardinality({j \in S : <<j, place[k]>> \in R}) = k - 1
    BY <1>4, <2>1
  <2> QED
    BY <1>5, <2>2
<1>12. ASSUME NEW i \in S
       PROVE  \E k \in 1 .. n : place[k] = i
  <2>1. spot[i] \in 1 .. n /\ spot[i] - 1 = before[i]
    BY <1>1, <1>2, <1>7
  <2>2. place[spot[i]] \in S /\ before[place[spot[i]]] = before[i]
    BY <1>11, <2>1
  <2> QED
    BY <1>6, <2>1, <2>2
<1> QED
  BY <1>1, <1>4, <1>11, <1>12 DEF n, place

\* All places of a sequence stand in their order as they are.
LEMMA AllPlaces ==
    ASSUME NEW n \in Nat
    PROVE  /\ DOMAIN Ordered(1 .. n, Earlier(1 .. n)) = 1 .. n
           /\ \A k \in 1 .. n : Ordered(1 .. n, Earlier(1 .. n))[k] = k
<1> DEFINE R == Earlier(1 .. n)
<1>1. IsFiniteSet(1 .. n) /\ Cardinality(1 .. n) = n
  BY FS_Interval
<1>2. ASSUME NEW i \in 1 .. n
      PROVE  Cardinality({j \in 1 .. n : <<j, i>> \in R}) = i - 1
  <2>1. {j \in 1 .. n : <<j, i>> \in R} = 1 .. i - 1
    BY DEF Earlier
  <2>2. Cardinality(1 .. i - 1) = i - 1
    BY FS_Interval
  <2> QED
    BY <2>1, <2>2
<1>3. /\ DOMAIN Ordered(1 .. n, R) = 1 .. n
      /\ \A k \in 1 .. n : Ordered(1 .. n, R)[k]
            = CHOOSE i \in 1 .. n : Cardinality({j \in 1 .. n : <<j, i>> \in R}) = k - 1
  BY <1>1, Zenon DEF Ordered
<1>4. ASSUME NEW k \in 1 .. n
      PROVE  (CHOOSE i \in 1 .. n : Cardinality({j \in 1 .. n : <<j, i>> \in R}) = k - 1) = k
  <2> DEFINE Fits(i) == Cardinality({j \in 1 .. n : <<j, i>> \in R}) = k - 1
  <2>1. \A i \in 1 .. n : Fits(i) => i = k
    <3> TAKE i \in 1 .. n
    <3>1. Cardinality({j \in 1 .. n : <<j, i>> \in R}) = i - 1
      BY <1>2
    <3> QED
      BY <3>1
  <2>2. Fits(k)
    BY <1>2
  <2> HIDE DEF Fits
  <2>3. (CHOOSE i \in 1 .. n : Fits(i)) = k
    BY <2>1, <2>2
  <2> QED
    BY <2>3 DEF Fits
<1> QED
  BY <1>3, <1>4, Zenon

-----------------------------------------------------------------------------
(* The shell's reading of a file that builds.                              *)

\* A list is a sequence of its own items.
LEMMA ListIsItsItems ==
    ASSUME NEW s, s \in Seq(Items(s))
    PROVE  Len(s) \in Nat /\ DOMAIN s = 1 .. Len(s) /\ s = [k \in 1 .. Len(s) |-> s[k]]
OBVIOUS

\* Two lists one after the other.
LEMMA OneListAfterOther ==
    ASSUME NEW n \in Nat, NEW m \in Nat, NEW s, NEW t,
           s = [k \in 1 .. n |-> s[k]], t = [k \in 1 .. m |-> t[k]]
    PROVE  /\ DOMAIN (s \o t) = 1 .. n + m
           /\ \A k \in 1 .. n + m : (s \o t)[k] = IF k <= n THEN s[k] ELSE t[k - n]
<1> DEFINE T == {s[k] : k \in 1 .. n} \cup {t[k] : k \in 1 .. m}
<1>1. s \in [1 .. n -> T] /\ t \in [1 .. m -> T]
  OBVIOUS
<1> HIDE DEF T
<1>2. s \in Seq(T) /\ t \in Seq(T) /\ Len(s) = n /\ Len(t) = m
  <2>1. s \in Seq(T) /\ t \in Seq(T)
    BY <1>1, SeqDef
  <2> QED
    BY <1>1, <2>1
<1>3. /\ s \o t \in Seq(T) /\ Len(s \o t) = n + m
      /\ \A k \in 1 .. n + m : (s \o t)[k] = IF k <= n THEN s[k] ELSE t[k - n]
  BY <1>2, ConcatProperties
<1>4. DOMAIN (s \o t) = 1 .. Len(s \o t)
  BY <1>3
<1> QED
  BY <1>3, <1>4

\* Where every entry is a mapping none is passed over.
LEMMA EntriesAreListed ==
    ASSUME NEW list, Listed(list) \in Seq(Items(Listed(list))),
           \A k \in DOMAIN Listed(list) : Listed(list)[k] # Ill
    PROVE  /\ DOMAIN Entries(list) = DOMAIN Listed(list)
           /\ \A k \in DOMAIN Listed(list) : Entries(list)[k] = Listed(list)[k]
<1> DEFINE s == Listed(list)
           places == {k \in DOMAIN s : s[k] # Ill}
<1>1. Len(s) \in Nat /\ DOMAIN s = 1 .. Len(s) /\ places = 1 .. Len(s)
  BY ListIsItsItems
<1>2. Entries(list) = At(s, places)
  BY DEF Entries
<1> HIDE DEF s, places
<1>3. /\ DOMAIN Ordered(places, Earlier(places)) = 1 .. Len(s)
      /\ \A k \in 1 .. Len(s) : Ordered(places, Earlier(places))[k] = k
  BY <1>1, AllPlaces
<1>4. /\ DOMAIN At(s, places) = 1 .. Len(s)
      /\ \A k \in 1 .. Len(s) : At(s, places)[k] = s[k]
  BY <1>3 DEF At
<1> QED
  BY <1>1, <1>2, <1>4 DEF s

\* Routes that can be told apart, by id and by path.
Apart(routes, n) ==
    /\ n \in Nat /\ DOMAIN routes = 1 .. n
    /\ \A i, j \in 1 .. n : routes[i].id = routes[j].id => i = j
    /\ \A i, j \in 1 .. n : routes[i].path = routes[j].path => i = j
    /\ \A i \in 1 .. n : routes[i].path # ""

LEMMA BuiltListsHoldMappings ==
    ASSUME NEW d, Builds(d), NEW list \in {"routes", "panels"},
           NEW k \in DOMAIN Listed(d[list])
    PROVE  Listed(d[list])[k] # Ill
<1> SUFFICES ASSUME Listed(d[list])[k] = Ill PROVE FALSE
  OBVIOUS
<1> DEFINE problem == <<"mapping", list, k>>
           Of(name) == UNION {EntryProblems(name, i, Listed(d[name])[i]) : i \in DOMAIN Listed(d[name])}
<1>1. problem \in EntryProblems(list, k, Listed(d[list])[k])
  BY DEF EntryProblems
<1> HIDE DEF problem
<1>2. problem \in Of(list)
  BY <1>1
<1>3. problem \in UNION {Of(name) : name \in {"routes", "panels", "agents", "groups"}}
  <2> HIDE DEF Of
  <2> QED
    BY <1>2
<1>4. problem \in structuralProblems(d)
  BY <1>3, Zenon DEF structuralProblems
<1>5. problem \in validateUIConfig(d)
  BY <1>4, Zenon DEF validateUIConfig
<1> QED
  BY <1>5 DEF Builds

\* Text that is there is what was written.
LEMMA TextIsWritten ==
    ASSUME NEW v, Text(v) # ""
    PROVE  Text(v) = v
BY DEF Text

\* What the checks of ids and paths leave: claims that can be told apart.
LEMMA ClaimsAreApart ==
    ASSUME NEW claims, NEW n \in Nat, DOMAIN claims = 1 .. n, ClaimProblems(claims) = {}
    PROVE  Apart(claims, n) /\ \A k \in 1 .. n : claims[k].id # ""
<1>1. \A k \in 1 .. n : claims[k].id # ""
  <2> SUFFICES ASSUME NEW k \in 1 .. n, claims[k].id = ""
               PROVE  <<"no id", k>> \in ClaimProblems(claims)
    OBVIOUS
  <2>1. <<"no id", k>> \in {<<"no id", i>> : i \in {j \in DOMAIN claims : claims[j].id = ""}}
    OBVIOUS
  <2> QED
    BY <2>1 DEF ClaimProblems
<1>2. \A k \in 1 .. n : claims[k].path \notin Malformed \cup {""}
  <2> SUFFICES ASSUME NEW k \in 1 .. n, claims[k].path \in Malformed \cup {""}
               PROVE  <<"path", k>> \in ClaimProblems(claims)
    OBVIOUS
  <2>1. <<"path", k>> \in {<<"path", i>> : i \in {j \in DOMAIN claims : claims[j].path \in Malformed \cup {""}}}
    OBVIOUS
  <2> QED
    BY <2>1 DEF ClaimProblems
<1>3. \A i, k \in 1 .. n : i < k => claims[i].id # claims[k].id
  <2> SUFFICES ASSUME NEW i \in 1 .. n, NEW k \in 1 .. n, i < k, claims[i].id = claims[k].id
               PROVE  <<"duplicate id", k>> \in ClaimProblems(claims)
    OBVIOUS
  <2>1. i \in 1 .. k - 1 /\ claims[i]["id"] = claims[k]["id"]
    OBVIOUS
  <2>2. <<"duplicate id", k>> \in {<<"duplicate id", l>> : l \in
           {m \in DOMAIN claims : claims[m].id # "" /\ \E j \in 1 .. m - 1 : claims[j]["id"] = claims[m]["id"]}}
    BY <1>1, <2>1
  <2> QED
    BY <2>2 DEF ClaimProblems
<1>4. \A i, k \in 1 .. n : i < k => claims[i].path # claims[k].path
  <2> SUFFICES ASSUME NEW i \in 1 .. n, NEW k \in 1 .. n, i < k, claims[i].path = claims[k].path
               PROVE  <<"collides", k>> \in ClaimProblems(claims)
    OBVIOUS
  <2>1. i \in 1 .. k - 1 /\ claims[i]["path"] = claims[k]["path"]
    OBVIOUS
  <2>2. <<"collides", k>> \in {<<"collides", l>> : l \in
           {m \in DOMAIN claims : /\ ~(claims[m].path \in Malformed \cup {""})
                                  /\ \E j \in 1 .. m - 1 : claims[j]["path"] = claims[m]["path"]}}
    BY <1>2, <2>1
  <2> QED
    BY <2>2 DEF ClaimProblems
<1>5. \A i, k \in 1 .. n : i # k => i < k \/ k < i
  OBVIOUS
<1> QED
  BY <1>1, <1>2, <1>3, <1>4, <1>5 DEF Apart

\* Of a file that builds the routes are those that were checked.
LEMMA RoutesAreApart ==
    ASSUME NEW d \in Docs, Builds(d)
    PROVE  /\ Len(Listed(d.routes)) \in Nat /\ Len(Listed(d.panels)) \in Nat
           /\ Apart(Routes(d), Len(Listed(d.routes)) + Len(Listed(d.panels)))
           /\ \A k \in 1 .. Len(Listed(d.routes)) :
                 Routes(d)[k].id = Listed(d.routes)[k].id
           /\ \A k \in 1 .. Len(Listed(d.panels)) :
                 Routes(d)[Len(Listed(d.routes)) + k].id = Listed(d.panels)[k].id
<1> DEFINE rs == Listed(d.routes)
           ps == Listed(d.panels)
           n == Len(rs)
           m == Len(ps)
           claimsR == [k \in DOMAIN Entries(d.routes) |->
               [id |-> Text(Entries(d.routes)[k].id), path |-> Text(Entries(d.routes)[k].path)]]
           claimsP == [k \in DOMAIN Entries(d.panels) |->
               [id |-> Text(Entries(d.panels)[k].id), path |-> Text(Entries(d.panels)[k].route)]]
           routesR == [k \in DOMAIN rs |->
               [id |-> d.routes[k].id, path |-> d.routes[k].path, hidden |-> FALSE,
                group |-> IF d.routes[k].id \in GroupIds(d) THEN d.routes[k].id ELSE None]]
           routesP == [k \in DOMAIN ps |->
               [id |-> d.panels[k].id, path |-> d.panels[k].route, hidden |-> d.panels[k].hidden,
                group |-> d.panels[k].group]]
<1>1. /\ n \in Nat /\ DOMAIN rs = 1 .. n /\ rs \in Seq(Items(rs))
      /\ m \in Nat /\ DOMAIN ps = 1 .. m /\ ps \in Seq(Items(ps))
  BY ShellAssumption, ListIsItsItems
<1>2. /\ DOMAIN Entries(d.routes) = 1 .. n /\ \A k \in 1 .. n : Entries(d.routes)[k] = rs[k]
      /\ DOMAIN Entries(d.panels) = 1 .. m /\ \A k \in 1 .. m : Entries(d.panels)[k] = ps[k]
  <2>1. /\ \A k \in DOMAIN Listed(d.routes) : Listed(d.routes)[k] # Ill
        /\ \A k \in DOMAIN Listed(d.panels) : Listed(d.panels)[k] # Ill
    BY BuiltListsHoldMappings
  <2> QED
    BY <1>1, <2>1, EntriesAreListed
<1>3. /\ \A k \in 1 .. n : d.routes[k] = rs[k]
      /\ \A k \in 1 .. m : d.panels[k] = ps[k]
  BY <1>1 DEF Listed
<1> HIDE DEF rs, ps, n, m
<1>4. /\ DOMAIN claimsR = 1 .. n /\ DOMAIN claimsP = 1 .. m
      /\ \A k \in 1 .. n : claimsR[k].id = Text(rs[k].id) /\ claimsR[k].path = Text(rs[k].path)
      /\ \A k \in 1 .. m : claimsP[k].id = Text(ps[k].id) /\ claimsP[k].path = Text(ps[k].route)
      /\ claimsR = [k \in 1 .. n |-> claimsR[k]] /\ claimsP = [k \in 1 .. m |-> claimsP[k]]
  BY <1>2
<1>5. /\ DOMAIN routesR = 1 .. n /\ DOMAIN routesP = 1 .. m
      /\ \A k \in 1 .. n : routesR[k].id = rs[k].id /\ routesR[k].path = rs[k].path
      /\ \A k \in 1 .. m : routesP[k].id = ps[k].id /\ routesP[k].path = ps[k].route
      /\ routesR = [k \in 1 .. n |-> routesR[k]] /\ routesP = [k \in 1 .. m |-> routesP[k]]
  BY <1>1, <1>3
<1>6. Claims(d) = claimsR \o claimsP
  BY Zenon DEF Claims
<1>7. Routes(d) = routesR \o routesP
  BY Zenon DEF Routes, rs, ps
<1> HIDE DEF claimsR, claimsP, routesR, routesP
<1>8. /\ DOMAIN Claims(d) = 1 .. n + m
      /\ \A k \in 1 .. n + m : Claims(d)[k] = IF k <= n THEN claimsR[k] ELSE claimsP[k - n]
  BY <1>1, <1>4, <1>6, OneListAfterOther
<1>9. /\ DOMAIN Routes(d) = 1 .. n + m
      /\ \A k \in 1 .. n + m : Routes(d)[k] = IF k <= n THEN routesR[k] ELSE routesP[k - n]
  BY <1>1, <1>5, <1>7, OneListAfterOther
<1>10. ClaimProblems(Claims(d)) = {}
  <2>1. ClaimProblems(Claims(d)) \subseteq validateUIConfig(d)
    BY Zenon DEF validateUIConfig
  <2> QED
    BY <2>1 DEF Builds
<1>11. Apart(Claims(d), n + m) /\ \A k \in 1 .. n + m : Claims(d)[k].id # ""
  <2>1. n + m \in Nat
    BY <1>1
  <2>2. DOMAIN Claims(d) = 1 .. n + m
    BY <1>8
  <2> QED
    BY <1>10, <2>1, <2>2, ClaimsAreApart, Zenon
<1>12. ASSUME NEW k \in 1 .. n + m
       PROVE  Routes(d)[k].id = Claims(d)[k].id /\ Routes(d)[k].path = Claims(d)[k].path
  <2>1. Claims(d)[k].id # "" /\ Claims(d)[k].path # ""
    BY <1>11 DEF Apart
  <2>2. CASE k <= n
    <3>1. k \in 1 .. n /\ Claims(d)[k] = claimsR[k] /\ Routes(d)[k] = routesR[k]
      BY <1>1, <1>8, <1>9, <2>2
    <3>2. Text(rs[k].id) = rs[k].id /\ Text(rs[k].path) = rs[k].path
      BY <1>4, <2>1, <3>1, TextIsWritten
    <3> QED
      BY <1>4, <1>5, <3>1, <3>2
  <2>3. CASE ~(k <= n)
    <3>1. k - n \in 1 .. m /\ Claims(d)[k] = claimsP[k - n] /\ Routes(d)[k] = routesP[k - n]
      BY <1>1, <1>8, <1>9, <2>3
    <3>2. Text(ps[k - n].id) = ps[k - n].id /\ Text(ps[k - n].route) = ps[k - n].route
      BY <1>4, <2>1, <3>1, TextIsWritten
    <3> QED
      BY <1>4, <1>5, <3>1, <3>2
  <2> QED
    BY <2>2, <2>3
<1>13. Apart(Routes(d), n + m)
  BY <1>9, <1>11, <1>12 DEF Apart
<1>14. ASSUME NEW k \in 1 .. n
       PROVE  Routes(d)[k].id = rs[k].id
  <2>1. k \in 1 .. n + m /\ k <= n
    BY <1>1
  <2>2. Routes(d)[k] = routesR[k]
    BY <1>9, <2>1
  <2> QED
    BY <1>5, <2>2
<1>15. ASSUME NEW k \in 1 .. m
       PROVE  Routes(d)[n + k].id = ps[k].id
  <2>1. n + k \in 1 .. n + m /\ ~(n + k <= n) /\ (n + k) - n = k
    BY <1>1
  <2>2. Routes(d)[n + k] = routesP[k]
    BY <1>9, <2>1
  <2> QED
    BY <1>5, <2>2
<1> QED
  BY <1>1, <1>13, <1>14, <1>15 DEF n, m, rs, ps

\* The sidebar's order is one line.
LEMMA GroupsAreCounted ==
    ASSUME NEW groups, groups \in Seq(Items(groups)), NEW route
    PROVE  GroupsAbove(route, groups) \in Nat
<1> DEFINE above == {g \in DOMAIN groups : \A own \in DOMAIN groups :
               groups[own].id = route.group =>
                   \/ groups[g].order < groups[own].order
                   \/ groups[g].order = groups[own].order /\ g < own}
<1>1. IsFiniteSet(DOMAIN groups)
  <2>1. Len(groups) \in Nat /\ DOMAIN groups = 1 .. Len(groups)
    OBVIOUS
  <2> QED
    BY <2>1, FS_Interval
<1>2. above \in SUBSET (DOMAIN groups)
  OBVIOUS
<1>3. GroupsAbove(route, groups) = Cardinality(above)
  BY Zenon DEF GroupsAbove
<1> HIDE DEF above
<1>4. IsFiniteSet(above)
  BY <1>1, <1>2, FS_Subset
<1> QED
  BY <1>3, <1>4, FS_CardinalityType

LEMMA SidebarIsOneLine ==
    ASSUME NEW routes, NEW n \in Nat, DOMAIN routes = 1 .. n,
           NEW groups, groups \in Seq(Items(groups))
    PROVE  Line(1 .. n, SidebarFirst(routes, groups))
<1> DEFINE above == [i \in 1 .. n |-> GroupsAbove(routes[i], groups)]
           first == SidebarFirst(routes, groups)
<1>1. \A i \in 1 .. n : above[i] \in Nat
  BY GroupsAreCounted
<1>2. \A i, j \in 1 .. n :
         <<i, j>> \in first <=> above[i] < above[j] \/ (above[i] = above[j] /\ i < j)
  BY DEF SidebarFirst
<1> HIDE DEF above, first
<1>3. IsFiniteSet(1 .. n)
  BY FS_Interval
<1>4. \A i \in 1 .. n : <<i, i>> \notin first
  BY <1>1, <1>2
<1>5. \A i, j \in 1 .. n : i # j => <<i, j>> \in first \/ <<j, i>> \in first
  BY <1>1, <1>2
<1>6. \A i, j, k \in 1 .. n : <<i, j>> \in first /\ <<j, k>> \in first => <<i, k>> \in first
  <2> TAKE i, j, k \in 1 .. n
  <2> HAVE <<i, j>> \in first /\ <<j, k>> \in first
  <2>1. above[i] < above[j] \/ (above[i] = above[j] /\ i < j)
    BY <1>2
  <2>2. above[j] < above[k] \/ (above[j] = above[k] /\ j < k)
    BY <1>2
  <2>3. above[i] < above[k] \/ (above[i] = above[k] /\ i < k)
    BY <1>1, <2>1, <2>2
  <2> QED
    BY <1>2, <2>3
<1> QED
  BY <1>3, <1>4, <1>5, <1>6 DEF Line, first

\* The sidebar has every route, and nothing else.
LEMMA SidebarHasRoutes ==
    ASSUME NEW routes, NEW n, Apart(routes, n), NEW groups, groups \in Seq(Items(groups))
    PROVE  /\ DOMAIN sidebarOrder(routes, groups) = 1 .. n
           /\ Len(sidebarOrder(routes, groups)) = n
           /\ Items(sidebarOrder(routes, groups)) = Items(routes)
           /\ Cardinality(Items(routes)) = n
<1> DEFINE first == SidebarFirst(routes, groups)
           place == Ordered(1 .. n, first)
           order == sidebarOrder(routes, groups)
           at == [k \in 1 .. n |-> routes[k]]
<1>1. n \in Nat /\ DOMAIN routes = 1 .. n /\ \A i, j \in 1 .. n : routes[i].id = routes[j].id => i = j
  BY DEF Apart
<1>2. IsFiniteSet(1 .. n) /\ Cardinality(1 .. n) = n
  BY <1>1, FS_Interval
<1>3. /\ DOMAIN place = 1 .. n
      /\ \A k \in 1 .. n : place[k] \in 1 .. n
      /\ \A i \in 1 .. n : \E k \in 1 .. n : place[k] = i
  <2>1. Line(1 .. n, first)
    BY <1>1, SidebarIsOneLine
  <2> QED
    BY <1>2, <2>1, EachAtOnePlace
<1>4. order = [k \in DOMAIN place |-> routes[place[k]]]
  BY <1>1 DEF sidebarOrder
<1> HIDE DEF first, place, order
<1>5. DOMAIN order = 1 .. n /\ \A k \in 1 .. n : order[k] = routes[place[k]]
  BY <1>3, <1>4
<1>6. Items(order) = Items(routes)
  <2>1. \A k \in DOMAIN order : \E i \in DOMAIN routes : order[k] = routes[i]
    BY <1>1, <1>3, <1>5
  <2>2. \A i \in DOMAIN routes : \E k \in DOMAIN order : order[k] = routes[i]
    BY <1>1, <1>3, <1>5
  <2> QED
    BY <2>1, <2>2 DEF Items
<1>7. Len(order) = n
  <2>1. order \in [1 .. n -> Items(order)]
    BY <1>3, <1>4, <1>5 DEF Items
  <2>2. order \in Seq(Items(order))
    BY <1>1, <2>1, SeqDef
  <2> QED
    BY <1>1, <1>5, <2>2
<1>8. Cardinality(Items(routes)) = n
  <2>1. at \in [1 .. n -> Items(routes)] /\ \A k \in 1 .. n : at[k] = routes[k]
    BY <1>1 DEF Items
  <2> HIDE DEF at
  <2>2. at \in Injection(1 .. n, Items(routes))
    BY <1>1, <2>1 DEF Injection, IsInjective
  <2>3. at \in Surjection(1 .. n, Items(routes))
    BY <1>1, <2>1 DEF Surjection, Items
  <2> QED
    BY <1>2, <2>2, <2>3, FS_Surjection
<1> QED
  BY <1>5, <1>6, <1>7, <1>8 DEF order

\* A segment after the mount is the panel slot.
LEMMA MountAppended ==
    ASSUME NEW x
    PROVE  BaseOf(Append(Mount, x)) = Mount /\ Last(Append(Mount, x)) = x
<1> DEFINE T == Items(Mount) \cup {x}
<1>1. Mount \in Seq(T) /\ x \in T
  <2>1. Mount \in Seq(Items(Mount))
    BY ShellAssumption
  <2> QED
    BY <2>1
<1> HIDE DEF T
<1>2. /\ Front(Append(Mount, x)) = SubSeq(Append(Mount, x), 1, Len(Append(Mount, x)) - 1)
      /\ Last(Append(Mount, x)) = Append(Mount, x)[Len(Append(Mount, x))]
  BY DEF Front, Last
<1>3. /\ Len(Mount) \in Nat /\ Len(Append(Mount, x)) = Len(Mount) + 1
      /\ Mount = [i \in 1 .. Len(Mount) |-> Mount[i]]
      /\ \A i \in 1 .. Len(Mount) : Append(Mount, x)[i] = Mount[i]
      /\ Append(Mount, x)[Len(Mount) + 1] = x
  BY <1>1
<1>4. SubSeq(Append(Mount, x), 1, Len(Mount)) = [i \in 1 .. Len(Mount) |-> Append(Mount, x)[i]]
  BY <1>1, <1>3
<1> QED
  BY <1>2, <1>3, <1>4 DEF BaseOf

\* Under the mount a link to a panel is its own path, which opens it.
LEMMA LinkOpens ==
    ASSUME NEW d \in Docs, Builds(d), NEW n, Apart(Routes(d), n), NEW k \in 1 .. n,
           BaseOf(path) = Mount
    PROVE  splitPanelPath(panelHref(path, d, Routes(d)[k].id), d) = Routes(d)[k].id
<1> DEFINE rs == Routes(d)
           href == panelHref(path, d, rs[k].id)
<1>1. /\ n \in Nat /\ DOMAIN rs = 1 .. n
      /\ \A i, j \in 1 .. n : rs[i].id = rs[j].id => i = j
      /\ \A i, j \in 1 .. n : rs[i].path = rs[j].path => i = j
  BY DEF Apart
<1>2. First({k}) = k
  BY FirstIsLeast
<1>3. href = Append(Mount, rs[k].path)
  <2>1. {i \in DOMAIN rs : rs[i].id = rs[k].id} = {k}
    BY <1>1
  <2> QED
    BY <1>2, <2>1 DEF panelHref
<1>4. Last(href) = rs[k].path
  BY <1>3, MountAppended
<1> HIDE DEF href
<1>5. {i \in DOMAIN rs : rs[i].path = Last(href)} = {k}
  BY <1>1, <1>4
<1> QED
  BY <1>2, <1>5, Zenon DEF splitPanelPath, rs, href

\* Every panel has a component, and every route that is not a panel is listed.
LEMMA PanelsAreMounted ==
    ASSUME NEW d \in Docs, Builds(d), NEW k \in DOMAIN Routes(d)
    PROVE  \/ mountFor(d, Routes(d)[k].id) # None
           \/ Routes(d)[k].id \in {q.id : q \in Items(Listed(d.routes))}
<1> DEFINE ps == Listed(d.panels)
           n == Len(Listed(d.routes))
           m == Len(ps)
           id == Routes(d)[k].id
<1>1. /\ n \in Nat /\ m \in Nat
      /\ DOMAIN Routes(d) = 1 .. n + m
      /\ \A i, j \in 1 .. n + m : Routes(d)[i].id = Routes(d)[j].id => i = j
      /\ \A i \in 1 .. n : Routes(d)[i].id = Listed(d.routes)[i].id
      /\ \A i \in 1 .. m : Routes(d)[n + i].id = ps[i].id
  BY RoutesAreApart DEF Apart
<1>2. DOMAIN Listed(d.routes) = 1 .. n /\ DOMAIN ps = 1 .. m
  BY ShellAssumption
<1>3. \A j \in DOMAIN ps :
         IF ps[j].package = Kit THEN ps[j].export \in DOMAIN KitPanels ELSE ps[j].id \in Registry
  <2> SUFFICES ASSUME NEW j \in DOMAIN ps,
                      IF ps[j].package = Kit THEN ps[j].export \notin DOMAIN KitPanels
                      ELSE ps[j].id \notin Registry
               PROVE  <<"mount", j>> \in compositionProblems(d)
    BY DEF Builds
  <2> QED
    BY DEF compositionProblems
<1> HIDE DEF ps, n, m
<1>4. CASE k \in 1 .. n
  <2>1. id = Listed(d.routes)[k].id /\ k \in DOMAIN Listed(d.routes)
    BY <1>1, <1>2, <1>4
  <2>2. Listed(d.routes)[k] \in Items(Listed(d.routes))
    BY <2>1 DEF Items
  <2> QED
    BY <2>1, <2>2
<1>5. CASE k \notin 1 .. n
  <2> DEFINE j == k - n
  <2>1. j \in 1 .. m /\ n + j = k
    BY <1>1, <1>5
  <2>2. id = ps[j].id
    BY <1>1, <2>1
  <2> HIDE DEF j, id
  <2>3. {i \in DOMAIN ps : ps[i].id = id} = {j}
    <3>1. ASSUME NEW i \in 1 .. m, ps[i].id = id PROVE i = j
      <4>1. Routes(d)[n + i].id = Routes(d)[n + j].id
        BY <1>1, <2>1, <2>2, <3>1
      <4>2. n + i \in 1 .. n + m /\ n + j \in 1 .. n + m
        BY <1>1, <2>1
      <4>3. n + i = n + j
        BY <1>1, <4>1, <4>2
      <4> QED
        BY <1>1, <2>1, <4>3
    <3> QED
      BY <1>2, <2>1, <2>2, <3>1
  <2>4. First({j}) = j
    <3>1. j \in Nat
      BY <1>1, <2>1
    <3> QED
      BY <3>1, FirstIsLeast
  <2>5. \/ id \in Registry
        \/ ps[j].package = Kit /\ ps[j].export \in DOMAIN KitPanels
    BY <1>2, <1>3, <2>1, <2>2
  <2>6. mountFor(d, id) \in {"local", "kit"}
    <3>1. {i \in DOMAIN Listed(d.panels) : Listed(d.panels)[i].id = id} = {j}
      BY <2>3 DEF ps
    <3> QED
      BY <2>4, <2>5, <3>1 DEF mountFor, ps
  <2>7. mountFor(d, id) # None
    BY <2>6, ShellAssumption
  <2> QED
    BY <2>7 DEF id
<1> QED
  BY <1>4, <1>5

\* Without a panel in the URL the first shown of the sidebar is opened.
LEMMA BarePathOpensFirst ==
    ASSUME NEW d \in Docs, Builds(d), NEW n, Apart(Routes(d), n),
           NEW r \in Items(Routes(d)), ~r.hidden
    PROVE  LET order == sidebarOrder(Routes(d), Listed(d.groups))
           IN \E k \in DOMAIN order :
                 /\ order[k].id = splitPanelPath(Append(Mount, ""), d)
                 /\ \A j \in 1 .. k - 1 : order[j].hidden
<1> DEFINE order == sidebarOrder(Routes(d), Listed(d.groups))
           shown == {k \in DOMAIN order : ~order[k].hidden}
<1>1. n \in Nat /\ DOMAIN order = 1 .. n /\ Items(order) = Items(Routes(d))
  <2>1. Listed(d.groups) \in Seq(Items(Listed(d.groups)))
    BY ShellAssumption
  <2> QED
    BY <2>1, SidebarHasRoutes DEF Apart
<1>2. DefaultPanel(d) = IF shown # {} THEN order[First(shown)].id
                        ELSE IF Routes(d) # <<>> THEN Routes(d)[1].id ELSE ""
  BY Zenon DEF DefaultPanel
<1>3. splitPanelPath(Append(Mount, ""), d) = DefaultPanel(d)
  <2>1. Last(Append(Mount, "")) = ""
    BY MountAppended
  <2>2. {k \in DOMAIN Routes(d) : Routes(d)[k].path = ""} = {}
    BY DEF Apart
  <2> QED
    BY <2>1, <2>2 DEF splitPanelPath
<1> HIDE DEF order
<1>4. shown # {} /\ shown \in SUBSET Nat
  BY <1>1 DEF Items
<1> DEFINE k == First(shown)
<1>5. k \in shown /\ \A j \in shown : k <= j
  BY <1>4, FirstIsLeast
<1>6. \A j \in 1 .. k - 1 : order[j].hidden
  <2> SUFFICES ASSUME NEW j \in 1 .. k - 1, ~order[j].hidden PROVE FALSE
    OBVIOUS
  <2> HIDE DEF k
  <2>1. k \in 1 .. n
    BY <1>1, <1>5
  <2>2. j \in shown /\ j < k /\ j \in Nat
    BY <1>1, <2>1
  <2> QED
    BY <1>1, <1>5, <2>1, <2>2
<1> HIDE DEF shown
<1>7. order[k].id = splitPanelPath(Append(Mount, ""), d)
  BY <1>2, <1>3, <1>4
<1>8. k \in DOMAIN order
  BY <1>5 DEF shown
<1> QED
  BY <1>6, <1>7, <1>8, Zenon DEF order

-----------------------------------------------------------------------------
(* The application keeps the file it was built from and its mount.         *)

ShellInv == config \in Docs /\ Builds(config) /\ BaseOf(path) = Mount

LEMMA ShellInit == Init => ShellInv
BY MountAppended DEF Init, ShellInv

LEMMA ShellNext == ShellInv /\ [Next]_vars => ShellInv'
<1> SUFFICES ASSUME ShellInv, [Next]_vars PROVE ShellInv'
  OBVIOUS
<1>1. ASSUME NEW panel, Navigate(panel) PROVE ShellInv'
  <2>1. config' = config /\ path' = panelHref(path, config, panel)
    BY <1>1 DEF Navigate
  <2>2. PICK x : path' = Append(BaseOf(path), x)
    BY <2>1 DEF panelHref
  <2> QED
    BY <2>1, <2>2, MountAppended DEF ShellInv
<1>2. ASSUME UNCHANGED <<config, path>> PROVE ShellInv'
  BY <1>2 DEF ShellInv, BaseOf
<1>3. ClickEntry => ShellInv'
  BY <1>1 DEF ClickEntry
<1>4. /\ submit \/ select \/ Provision \/ External => UNCHANGED <<config, path>>
      /\ AnswerChat \/ AnswerRead \/ AnswerApplied \/ AnswerPoll => UNCHANGED <<config, path>>
      /\ \A agent \in Watched(config) : AnswerProbe(agent) \/ Reprobe(agent) => UNCHANGED <<config, path>>
      /\ UNCHANGED vars => UNCHANGED <<config, path>>
  BY DEF submit, select, Provision, External, Deploy, AnswerChat, Answered, Failed, Finished,
         AnswerRead, AnswerApplied, AnswerPoll, AnswerProbe, Reprobe, shellVars, vars
<1> QED
  BY <1>2, <1>3, <1>4 DEF Next

LEMMA LinksOpen == ShellInv => LinksOpenTheirPanels
<1> SUFFICES ASSUME ShellInv PROVE LinksOpenTheirPanels
  OBVIOUS
<1> DEFINE n == Len(Listed(config.routes)) + Len(Listed(config.panels))
           order == sidebarOrder(Routes(config), Listed(config.groups))
<1>1. config \in Docs /\ Builds(config) /\ BaseOf(path) = Mount
  BY DEF ShellInv
<1>2. Apart(Routes(config), n)
  BY <1>1, RoutesAreApart
<1> HIDE DEF n
<1>3. DOMAIN Routes(config) = 1 .. n
  BY <1>2 DEF Apart
<1>4. ASSUME NEW r \in Items(Routes(config))
      PROVE  /\ splitPanelPath(panelHref(path, config, r.id), config) = r.id
             /\ mountFor(config, r.id) # None \/ r.id \in {q.id : q \in Items(Listed(config.routes))}
  <2>1. PICK k \in DOMAIN Routes(config) : r = Routes(config)[k]
    BY DEF Items
  <2>2. splitPanelPath(panelHref(path, config, r.id), config) = r.id
    BY <1>1, <1>2, <1>3, <2>1, LinkOpens
  <2>3. mountFor(config, r.id) # None \/ r.id \in {q.id : q \in Items(Listed(config.routes))}
    BY <1>1, <2>1, PanelsAreMounted
  <2> QED
    BY <2>2, <2>3
<1>5. Items(order) = Items(Routes(config)) /\ Len(order) = Cardinality(Items(Routes(config)))
  <2>1. Listed(config.groups) \in Seq(Items(Listed(config.groups)))
    BY <1>1, ShellAssumption
  <2> QED
    BY <1>2, <2>1, SidebarHasRoutes
<1>6. \A r \in Items(Routes(config)) : ~r.hidden =>
         \E k \in DOMAIN order : /\ order[k].id = splitPanelPath(Append(Mount, ""), config)
                                /\ \A j \in 1 .. k - 1 : order[j].hidden
  BY <1>1, <1>2, BarePathOpensFirst
<1> HIDE DEF order
<1> QED
  BY <1>1, <1>4, <1>5, <1>6, Zenon DEF LinksOpenTheirPanels, order

\* Of a file that builds, every entry of the sidebar opens the panel it names from
\* wherever the user is, every panel has a component, and a URL that names none opens
\* the first of the sidebar: whatever files the build is given (uiConfig.ts, paths.ts,
\* vite-plugin-ui-yaml.ts).
THEOREM LinksAlwaysOpen == Spec => []LinksOpenTheirPanels
<1>1. Spec => []ShellInv
  BY ShellInit, ShellNext, PTL DEF Spec
<1> QED
  BY <1>1, LinksOpen, PTL
=============================================================================
