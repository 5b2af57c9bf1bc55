--------------------------- MODULE DispatchProofs ---------------------------
(***************************************************************************)
(* Proofs about Dispatch, for either program, every limit on the           *)
(* retransmissions and whatever the machines of ALIVE start from.  That    *)
(* five machines can share one received message rests on the order in      *)
(* which they are called: a machine that is in the middle of handling a    *)
(* message is called first, and every machine called after it has nothing  *)
(* to do with that message.                                                *)
(***************************************************************************)
EXTENDS Dispatch, TLAPS

\* A machine in the middle of handling a message has it before it.
Well(p, machine) ==
    p.mess[machine] \in HandlingStates =>
        /\ IsFor(p, machine)
        /\ p.rcv.kind = IF Requests(machine) THEN "ACK" ELSE "SEND"

\* The machines that wait for an acknowledgement.
Waiters == {machine \in Machines : Requests(machine) /\ needsAcknowledge(machine)}

\* What holds whatever the machines of ALIVE start from.
Typed(p) ==
    /\ p \in Process
    /\ p.due \subseteq Waiters
    /\ \A machine \in Machines \ AliveMachines : p.mess[machine] \in StatesOf(machine)

\* The inductive invariant, as far as it is kept from call to call.
Sound(p) == \A machine \in Machines : Well(p, machine)

\* The inductive invariant.  That no machine is handling a message when there is
\* no session makes up for the message that KEP may leave pending.
IInv ==
    /\ TypeOK
    /\ settled => Sound(proc) /\ (proc.sys = "Idle" => Calm(proc))

-----------------------------------------------------------------------------
(* One call of one machine *)

\* What a call of a machine does to the process, whatever it finds: it leaves
\* the states of the others alone, keeps or uses up the message, and a message
\* that is not for it stays as it is.
Good(p, machine, q) ==
    /\ q \in Process
    /\ \A n \in Machines \ {machine} : q.mess[n] = p.mess[n]
    /\ q.rcv \in {p.rcv, Used}
    /\ q.sys \in {p.sys, "ClearSession"}
    /\ Well(p, machine) => Well(q, machine)
    /\ Well(p, machine) => IsFor(p, machine) \/ q.rcv = p.rcv
    /\ p.mess[machine] \in StatesOf(machine) => q.mess[machine] \in StatesOf(machine)
    /\ (p.mess[machine] \in StatesOf(machine) \/ machine \in AliveMachines)
         /\ p.due \subseteq Waiters => q.due \subseteq Waiters

\* The assignments the handlers are made of.
LEMMA GoesFacts ==
    ASSUME NEW p \in Process, NEW machine \in Machines, NEW s \in MessStates
    PROVE  /\ Goes(p, machine, s) \in Process
           /\ Goes(p, machine, s).mess = [p.mess EXCEPT ![machine] = s]
           /\ Goes(p, machine, s).due = p.due
           /\ Goes(p, machine, s).rcv = p.rcv
           /\ Goes(p, machine, s).sys = p.sys
BY DEF Goes, Process

LEMMA ConsumedFacts ==
    ASSUME NEW p \in Process
    PROVE  /\ Consumed(p) \in Process
           /\ Consumed(p).mess = p.mess /\ Consumed(p).due = p.due
           /\ Consumed(p).rcv = Used /\ Consumed(p).sys = p.sys
BY DEF Consumed, Process

LEMMA ExhaustedFacts ==
    ASSUME NEW p \in Process, NEW machine \in Machines
    PROVE  /\ Exhausted(p, machine) \in Process
           /\ Exhausted(p, machine).mess = [p.mess EXCEPT ![machine] = "MESS_idle"]
           /\ Exhausted(p, machine).due = p.due
           /\ Exhausted(p, machine).rcv = p.rcv
           /\ Exhausted(p, machine).sys = "ClearSession"
BY DEF Exhausted, Goes, Process, MessStates

\* A call that moves the machine to state s, possibly the one it is in.
MovesTo(p, machine, s, q) ==
    /\ q \in Process
    /\ q.mess = [p.mess EXCEPT ![machine] = s]
    /\ q.rcv \in {p.rcv, Used}
    /\ q.sys \in {p.sys, "ClearSession"}
    /\ s \in HandlingStates =>
         /\ q.rcv = p.rcv
         /\ Well(p, machine) =>
              /\ IsFor(p, machine)
              /\ p.rcv.kind = IF Requests(machine) THEN "ACK" ELSE "SEND"
    /\ q.rcv = p.rcv \/ IsFor(p, machine) \/ p.mess[machine] \in HandlingStates
    /\ p.mess[machine] \in StatesOf(machine) => s \in StatesOf(machine)
    /\ \/ q.due \subseteq p.due
       \/ /\ q.due \subseteq p.due \cup {machine}
          /\ p.mess[machine] \in StatesOf(machine) \/ machine \in AliveMachines =>
               machine \in Waiters

\* It is good if the machine may get to that state, and if it handles the
\* message there only if the message is there.
LEMMA GoodIf ==
    ASSUME NEW p \in Process, NEW machine \in Machines, NEW s, NEW q,
           MovesTo(p, machine, s, q)
    PROVE  Good(p, machine, q)
<1> USE DEF MovesTo
<1>1. /\ q.mess[machine] = s
      /\ \A n \in Machines \ {machine} : q.mess[n] = p.mess[n]
  BY DEF Process
<1>2. Well(p, machine) => Well(q, machine)
  BY <1>1 DEF Well, IsFor, Pending
<1>3. Well(p, machine) => IsFor(p, machine) \/ q.rcv = p.rcv
  BY DEF Well
<1>4. (p.mess[machine] \in StatesOf(machine) \/ machine \in AliveMachines)
         /\ p.due \subseteq Waiters => q.due \subseteq Waiters
  OBVIOUS
<1>5. QED
  BY <1>1, <1>2, <1>3, <1>4 DEF Good

\* The states a request machine, and a response machine, may get to.
LEMMA RequestStates ==
    ASSUME NEW machine \in Machines, Requests(machine)
    PROVE  /\ {"MESS_idle", "MESS_encrypt", "MESS_send"} \subseteq StatesOf(machine)
           /\ needsAcknowledge(machine) =>
                machine \in Waiters /\ {"MESS_wait", "MESS_verify"} \subseteq StatesOf(machine)
           /\ ~needsAcknowledge(machine) =>
                StatesOf(machine) = {"MESS_idle", "MESS_encrypt", "MESS_send"}
<1>1. CASE needsAcknowledge(machine)
  <2>1. StatesOf(machine) = {"MESS_idle"} \cup {"MESS_encrypt", "MESS_send", "MESS_wait", "MESS_verify"}
    BY <1>1 DEF StatesOf
  <2>2. QED
    BY <1>1, <2>1 DEF Waiters
<1>2. CASE ~needsAcknowledge(machine)
  <2>1. StatesOf(machine) = {"MESS_idle"} \cup {"MESS_encrypt", "MESS_send"}
    BY <1>2 DEF StatesOf
  <2>2. QED
    BY <1>2, <2>1
<1>3. QED
  BY <1>1, <1>2

LEMMA ResponseStates ==
    ASSUME NEW machine \in Machines, ~Requests(machine)
    PROVE  /\ {"MESS_idle", "MESS_verify", "MESS_react"} \subseteq StatesOf(machine)
           /\ needsAcknowledge(machine) =>
                {"MESS_ack", "MESS_nack", "MESS_send"} \subseteq StatesOf(machine)
           /\ ~needsAcknowledge(machine) =>
                StatesOf(machine) = {"MESS_idle", "MESS_verify", "MESS_react"}
<1>1. CASE needsAcknowledge(machine)
  <2>1. StatesOf(machine) = {"MESS_idle"} \cup
          {"MESS_verify", "MESS_react", "MESS_ack", "MESS_nack", "MESS_send"}
    BY <1>1 DEF StatesOf
  <2>2. QED
    BY <1>1, <2>1
<1>2. CASE ~needsAcknowledge(machine)
  <2>1. StatesOf(machine) = {"MESS_idle"} \cup {"MESS_verify", "MESS_react"}
    BY <1>2 DEF StatesOf
  <2>2. QED
    BY <1>2, <2>1
<1>3. QED
  BY <1>1, <1>2

\* Taking input changes the flags and the moment of the last check only.
LEMMA InputTaken ==
    ASSUME NEW p \in Process, NEW machine, Requests(machine),
           NEW q \in WithInput(p, machine)
    PROVE  /\ q \in Process /\ q.mess = p.mess /\ q.due = p.due /\ q.rcv = p.rcv
           /\ q.sys = p.sys
<1>1. /\ [p EXCEPT !.stat = FALSE] \in Process
      /\ [p EXCEPT !.stat = FALSE].mess = p.mess
      /\ [p EXCEPT !.stat = FALSE].due = p.due
      /\ [p EXCEPT !.stat = FALSE].rcv = p.rcv
      /\ [p EXCEPT !.stat = FALSE].sys = p.sys
      /\ [p EXCEPT !.lapsed = FALSE] \in Process
      /\ [p EXCEPT !.lapsed = FALSE].mess = p.mess
      /\ [p EXCEPT !.lapsed = FALSE].due = p.due
      /\ [p EXCEPT !.lapsed = FALSE].rcv = p.rcv
      /\ [p EXCEPT !.lapsed = FALSE].sys = p.sys
  BY DEF Process
<1>2. q \in {p, [p EXCEPT !.stat = FALSE], [p EXCEPT !.lapsed = FALSE]}
  <2>1. machine \in {"comm", "stat", "feed", "aliveReq"}
    BY DEF Requests
  <2>2. CASE machine = "aliveReq"
    BY <2>2 DEF WithInput, checkAliveInput
  <2>3. CASE machine # "aliveReq"
    BY <2>1, <2>3 DEF WithInput
  <2>4. QED
    BY <2>2, <2>3
<1>3. QED
  BY <1>1, <1>2

LEMMA RequestsWell ==
    ASSUME NEW p \in Process, NEW machine \in Machines, Requests(machine),
           NEW q \in messReqContinue(p, machine)
    PROVE  Good(p, machine, q)
<1> USE DispatchAssumption DEF HandlingStates
<1>s. /\ p.mess[machine] \in MessStates
      /\ MessStates = {"MESS_idle", "MESS_encrypt", "MESS_send", "MESS_wait",
                       "MESS_verify", "MESS_react", "MESS_ack", "MESS_nack"}
  BY DEF Process, MessStates
<1>m. /\ "MESS_idle" \in MessStates /\ "MESS_encrypt" \in MessStates
      /\ "MESS_send" \in MessStates /\ "MESS_wait" \in MessStates
      /\ "MESS_verify" \in MessStates
  BY DEF MessStates
<1>1. CASE p.mess[machine] = "MESS_idle"
  <2>1. q \in IdleReq(p, machine)
    BY <1>1 DEF messReqContinue
  <2>2. PICK r \in {p, Consumed(p)} :
          /\ r # p => IsFor(p, machine)
          /\ q = r \/ \E i \in WithInput(r, machine) : q = Goes(i, machine, "MESS_encrypt")
    BY <2>1 DEF IdleReq
  <2>3. /\ r \in Process /\ r.mess = p.mess /\ r.due = p.due /\ r.rcv \in {p.rcv, Used}
        /\ r.sys = p.sys
        /\ IsFor(p, machine) \/ r.rcv = p.rcv
    BY <2>2, ConsumedFacts
  <2>4. CASE q = r
    <3>1. q.mess = [p.mess EXCEPT ![machine] = "MESS_idle"]
      BY <1>1, <2>3, <2>4 DEF Process
    <3>2. MovesTo(p, machine, "MESS_idle", q)
      BY <2>3, <2>4, <3>1, RequestStates DEF MovesTo
    <3>3. QED
      BY <3>2, GoodIf
  <2>5. CASE \E i \in WithInput(r, machine) : q = Goes(i, machine, "MESS_encrypt")
    <3>1. PICK i \in WithInput(r, machine) : q = Goes(i, machine, "MESS_encrypt")
      BY <2>5
    <3>2. i \in Process /\ i.mess = p.mess /\ i.due = p.due /\ i.rcv = r.rcv
          /\ i.sys = p.sys
      BY <2>3, InputTaken
    <3>3. /\ q \in Process /\ q.mess = [p.mess EXCEPT ![machine] = "MESS_encrypt"]
          /\ q.due = p.due /\ q.rcv = r.rcv /\ q.sys = p.sys
      BY <1>m, <3>1, <3>2, GoesFacts
    <3>4. MovesTo(p, machine, "MESS_encrypt", q)
      BY <2>3, <3>3, RequestStates DEF MovesTo
    <3>5. QED
      BY <3>4, GoodIf
  <2>6. QED
    BY <2>2, <2>4, <2>5
<1>2. CASE p.mess[machine] = "MESS_encrypt"
  <2>1. q \in EncryptReq(p, machine)
    BY <1>2 DEF messReqContinue
  <2>2. /\ q \in Process /\ q.mess = [p.mess EXCEPT ![machine] = "MESS_send"]
        /\ q.due = p.due /\ q.rcv = p.rcv /\ q.sys \in {p.sys, "ClearSession"}
    <3>1. PICK g : g = Goes(p, machine, "MESS_send")
      OBVIOUS
    <3>2. /\ g \in Process /\ g.mess = [p.mess EXCEPT ![machine] = "MESS_send"]
          /\ g.due = p.due /\ g.rcv = p.rcv /\ g.sys = p.sys
      BY <1>m, <3>1, GoesFacts
    <3>3. q = [g EXCEPT !.ntx = IF machine = "aliveReq" THEN 0 ELSE @]
      BY <2>1, <3>1 DEF EncryptReq
    <3>4. QED
      BY <3>2, <3>3 DEF Process
  <2>3. MovesTo(p, machine, "MESS_send", q)
    BY <2>2, RequestStates DEF MovesTo
  <2>4. QED
    BY <2>3, GoodIf
<1>3. CASE p.mess[machine] = "MESS_send"
  <2>1. q \in SendReq(p, machine)
    BY <1>3 DEF messReqContinue
  <2>2. PICK w : w = [Goes(p, machine, "MESS_wait") EXCEPT !.due = @ \ {machine}]
    OBVIOUS
  <2>3. /\ w \in Process /\ w.mess = [p.mess EXCEPT ![machine] = "MESS_wait"]
        /\ w.due = p.due \ {machine} /\ w.rcv = p.rcv
        /\ w.sys = p.sys
    <3>1. PICK g : g = Goes(p, machine, "MESS_wait")
      OBVIOUS
    <3>2. /\ g \in Process /\ g.mess = [p.mess EXCEPT ![machine] = "MESS_wait"]
          /\ g.due = p.due /\ g.rcv = p.rcv /\ g.sys = p.sys
      BY <1>m, <3>1, GoesFacts
    <3>3. w = [g EXCEPT !.due = @ \ {machine}]
      BY <2>2, <3>1
    <3>4. QED
      BY <3>2, <3>3 DEF Process
  <2>4. CASE q = Goes(p, machine, "MESS_idle") \/ q = Exhausted(p, machine)
    <3>1. /\ q \in Process /\ q.mess = [p.mess EXCEPT ![machine] = "MESS_idle"]
          /\ q.due = p.due /\ q.rcv = p.rcv /\ q.sys \in {p.sys, "ClearSession"}
      BY <1>m, <2>4, GoesFacts, ExhaustedFacts
    <3>2. MovesTo(p, machine, "MESS_idle", q)
      BY <3>1, RequestStates DEF MovesTo
    <3>3. QED
      BY <3>2, GoodIf
  <2>5. CASE q = w /\ needsAcknowledge(machine)
    <3>1. MovesTo(p, machine, "MESS_wait", q)
      BY <2>3, <2>5, RequestStates DEF MovesTo
    <3>2. QED
      BY <3>1, GoodIf
  <2>6. CASE machine = "aliveReq" /\ q \in SendAlive(w)
    <3>1. needsAcknowledge(machine)
      BY <2>6 DEF needsAcknowledge
    <3>2. CASE q = [w EXCEPT !.ntx = @ + 1] /\ w.ntx < SESSION_MAX_RETRANSMISSIONS
      <4>1. w.ntx + 1 \in 0 .. SESSION_MAX_RETRANSMISSIONS
        BY <2>3, <3>2 DEF Process
      <4>2. /\ q \in Process /\ q.mess = w.mess /\ q.due = w.due /\ q.rcv = w.rcv
              /\ q.sys = w.sys
        BY <2>3, <3>2, <4>1 DEF Process
      <4>3. MovesTo(p, machine, "MESS_wait", q)
        BY <2>3, <3>1, <4>2, RequestStates DEF MovesTo
      <4>4. QED
        BY <4>3, GoodIf
    <3>3. CASE q = Exhausted(w, machine)
      <4>1. /\ q \in Process /\ q.mess = [w.mess EXCEPT ![machine] = "MESS_idle"]
            /\ q.due = w.due /\ q.rcv = p.rcv /\ q.sys = "ClearSession"
        BY <2>3, <3>3, ExhaustedFacts
      <4>2. q.mess = [p.mess EXCEPT ![machine] = "MESS_idle"]
        BY <2>3, <4>1 DEF Process
      <4>3. MovesTo(p, machine, "MESS_idle", q)
        BY <2>3, <4>1, <4>2, RequestStates DEF MovesTo
      <4>4. QED
        BY <4>3, GoodIf
    <3>4. QED
      BY <2>6, <3>2, <3>3 DEF SendAlive
  <2>7. QED
    BY <2>1, <2>2, <2>4, <2>5, <2>6 DEF SendReq
<1>4. CASE p.mess[machine] = "MESS_wait"
  <2>1. q \in WaitReq(p, machine)
    BY <1>4 DEF messReqContinue
  <2>2. PICK r \in {p, Consumed(p)} :
          /\ r # p => IsFor(p, machine)
          /\ \/ q = Goes(p, machine, "MESS_send")
             \/ q = Goes(r, machine, "MESS_send")
             \/ /\ q = Goes(p, machine, "MESS_verify")
                /\ IsFor(p, machine) /\ p.rcv.kind = "ACK"
             \/ q = r
             \/ q = [r EXCEPT !.due = @ \cup {machine}]
    BY <2>1 DEF WaitReq
  <2>3. /\ r \in Process /\ r.mess = p.mess /\ r.due = p.due /\ r.rcv \in {p.rcv, Used}
        /\ r.sys = p.sys
        /\ IsFor(p, machine) \/ r.rcv = p.rcv
    BY <2>2, ConsumedFacts
  <2>4. CASE q = Goes(p, machine, "MESS_send") \/ q = Goes(r, machine, "MESS_send")
    <3>1. /\ q \in Process /\ q.mess = [p.mess EXCEPT ![machine] = "MESS_send"]
          /\ q.due = p.due /\ q.rcv \in {p.rcv, r.rcv} /\ q.sys = p.sys
      BY <1>m, <2>3, <2>4, GoesFacts
    <3>2. MovesTo(p, machine, "MESS_send", q)
      BY <2>3, <3>1, RequestStates DEF MovesTo
    <3>3. QED
      BY <3>2, GoodIf
  <2>5. CASE /\ q = Goes(p, machine, "MESS_verify")
             /\ IsFor(p, machine) /\ p.rcv.kind = "ACK"
    <3>1. /\ q \in Process /\ q.mess = [p.mess EXCEPT ![machine] = "MESS_verify"]
          /\ q.due = p.due /\ q.rcv = p.rcv /\ q.sys \in {p.sys, "ClearSession"}
      BY <1>m, <2>5, GoesFacts
    <3>2. p.mess[machine] \in StatesOf(machine) => "MESS_verify" \in StatesOf(machine)
      BY <1>4, RequestStates
    <3>3. MovesTo(p, machine, "MESS_verify", q)
      <4>1. Requests(machine)
        OBVIOUS
      <4>2. QED
        BY <2>5, <3>1, <3>2, <4>1 DEF MovesTo
    <3>4. QED
      BY <3>3, GoodIf
  <2>6. CASE q = r \/ q = [r EXCEPT !.due = @ \cup {machine}]
    <3>1. /\ q \in Process /\ q.mess = r.mess /\ q.rcv = r.rcv /\ q.sys = r.sys
          /\ q.due \subseteq r.due \cup {machine}
      BY <2>3, <2>6 DEF Process
    <3>2. q.mess = [p.mess EXCEPT ![machine] = "MESS_wait"]
      BY <1>4, <2>3, <3>1 DEF Process
    <3>3. p.mess[machine] \in StatesOf(machine) \/ machine \in AliveMachines =>
            machine \in Waiters
      BY <1>4, RequestStates DEF AliveMachines, needsAcknowledge
    <3>4. MovesTo(p, machine, "MESS_wait", q)
      BY <1>4, <2>3, <3>1, <3>2, <3>3 DEF MovesTo
    <3>5. QED
      BY <3>4, GoodIf
  <2>7. QED
    BY <2>2, <2>4, <2>5, <2>6
<1>5. CASE p.mess[machine] = "MESS_verify"
  <2>1. PICK s \in {"MESS_wait", "MESS_idle"} : q = Goes(Consumed(p), machine, s)
    BY <1>5 DEF messReqContinue, VerifyReq
  <2>2. /\ q \in Process /\ q.mess = [p.mess EXCEPT ![machine] = s]
        /\ q.due = p.due /\ q.rcv = Used /\ q.sys = p.sys
    <3>1. /\ Consumed(p) \in Process /\ Consumed(p).mess = p.mess
          /\ Consumed(p).due = p.due /\ Consumed(p).rcv = Used
          /\ Consumed(p).sys = p.sys
      BY ConsumedFacts
    <3>2. QED
      BY <1>m, <2>1, <3>1, GoesFacts
  <2>3. p.mess[machine] \in StatesOf(machine) => s \in StatesOf(machine)
    BY <1>5, <2>1, RequestStates
  <2>4. MovesTo(p, machine, s, q)
    BY <1>5, <2>1, <2>2, <2>3 DEF MovesTo
  <2>5. QED
    BY <2>4, GoodIf
<1>6. CASE p.mess[machine] \in {"MESS_react", "MESS_ack", "MESS_nack"}
  <2>1. q = Goes(p, machine, "MESS_idle")
    BY <1>6 DEF messReqContinue
  <2>2. /\ q \in Process /\ q.mess = [p.mess EXCEPT ![machine] = "MESS_idle"]
        /\ q.due = p.due /\ q.rcv = p.rcv /\ q.sys \in {p.sys, "ClearSession"}
    BY <1>m, <2>1, GoesFacts
  <2>3. MovesTo(p, machine, "MESS_idle", q)
    BY <2>2, RequestStates DEF MovesTo
  <2>4. QED
    BY <2>3, GoodIf
<1>7. QED
  BY <1>s, <1>1, <1>2, <1>3, <1>4, <1>5, <1>6

LEMMA ResponsesWell ==
    ASSUME NEW p \in Process, NEW machine \in Machines, ~Requests(machine),
           NEW q \in messResContinue(p, machine)
    PROVE  Good(p, machine, q)
<1> USE DEF HandlingStates
<1>s. /\ p.mess[machine] \in MessStates
      /\ MessStates = {"MESS_idle", "MESS_encrypt", "MESS_send", "MESS_wait",
                       "MESS_verify", "MESS_react", "MESS_ack", "MESS_nack"}
  BY DEF Process, MessStates
<1>m. /\ "MESS_idle" \in MessStates /\ "MESS_verify" \in MessStates
      /\ "MESS_react" \in MessStates /\ "MESS_ack" \in MessStates
      /\ "MESS_nack" \in MessStates /\ "MESS_send" \in MessStates
  BY DEF MessStates
\* A call that assigns nothing but a state, and may use up the message.
<1>g. ASSUME NEW s \in MessStates, NEW r \in {p, Consumed(p)}, q = Goes(r, machine, s)
      PROVE  /\ q \in Process /\ q.mess = [p.mess EXCEPT ![machine] = s]
             /\ q.due = p.due /\ q.rcv = r.rcv /\ r.rcv \in {p.rcv, Used}
             /\ q.sys = p.sys
  <2>1. /\ r \in Process /\ r.mess = p.mess /\ r.due = p.due
        /\ r.rcv \in {p.rcv, Used} /\ r.sys = p.sys
    BY ConsumedFacts
  <2>2. QED
    BY <1>g, <2>1, GoesFacts
<1>c. Consumed(p).rcv = Used
  BY ConsumedFacts
<1>1. CASE p.mess[machine] = "MESS_idle"
  <2>1. q \in IdleRes(p, machine)
    BY <1>1 DEF messResContinue
  <2>2. CASE q = p
    <3>1. q.mess = [p.mess EXCEPT ![machine] = "MESS_idle"]
      BY <1>1, <2>2 DEF Process
    <3>2. MovesTo(p, machine, "MESS_idle", q)
      BY <2>2, <3>1, ResponseStates DEF MovesTo
    <3>3. QED
      BY <3>2, GoodIf
  <2>3. CASE q = Consumed(p) /\ IsFor(p, machine)
    <3>1. q \in Process /\ q.mess = p.mess /\ q.due = p.due /\ q.rcv = Used /\ q.sys = p.sys
      BY <2>3, ConsumedFacts
    <3>2. q.mess = [p.mess EXCEPT ![machine] = "MESS_idle"]
      BY <1>1, <3>1 DEF Process
    <3>3. MovesTo(p, machine, "MESS_idle", q)
      BY <2>3, <3>1, <3>2, ResponseStates DEF MovesTo
    <3>4. QED
      BY <3>3, GoodIf
  <2>4. CASE q = Goes(p, machine, "MESS_verify") /\ IsFor(p, machine) /\ p.rcv.kind = "SEND"
    <3>1. /\ q \in Process /\ q.mess = [p.mess EXCEPT ![machine] = "MESS_verify"]
          /\ q.due = p.due /\ q.rcv = p.rcv /\ q.sys \in {p.sys, "ClearSession"}
      BY <1>m, <2>4, GoesFacts
    <3>2. p.mess[machine] \in StatesOf(machine) => "MESS_verify" \in StatesOf(machine)
      BY ResponseStates
    <3>3. MovesTo(p, machine, "MESS_verify", q)
      BY <2>4, <3>1, <3>2 DEF MovesTo
    <3>4. QED
      BY <3>3, GoodIf
  <2>5. QED
    BY <2>1, <2>2, <2>3, <2>4 DEF IdleRes
<1>2. CASE p.mess[machine] = "MESS_verify"
  <2>1. q \in VerifyRes(p, machine)
    BY <1>2 DEF messResContinue
  <2>2. CASE q = Goes(Consumed(p), machine, "MESS_idle")
    <3>1. MovesTo(p, machine, "MESS_idle", q)
      BY <1>2, <1>m, <1>g, <1>c, <2>2, ResponseStates DEF MovesTo
    <3>2. QED
      BY <3>1, GoodIf
  <2>3. CASE /\ q \in {Goes(p, machine, "MESS_ack"), Goes(p, machine, "MESS_nack")}
             /\ needsAcknowledge(machine)
    <3>1. PICK s \in {"MESS_ack", "MESS_nack"} : q = Goes(p, machine, s)
      BY <2>3
    <3>2. /\ q \in Process /\ q.mess = [p.mess EXCEPT ![machine] = s]
          /\ q.due = p.due /\ q.rcv = p.rcv /\ q.sys \in {p.sys, "ClearSession"}
      BY <1>m, <3>1, GoesFacts
    <3>3. s \in StatesOf(machine)
      BY <2>3, <3>1, ResponseStates
    <3>4. MovesTo(p, machine, s, q)
      BY <1>2, <3>1, <3>2, <3>3 DEF MovesTo, Well
    <3>5. QED
      BY <3>4, GoodIf
  <2>4. CASE q = [Goes(p, machine, "MESS_react") EXCEPT !.lapsed = FALSE]
    <3>1. PICK g : g = Goes(p, machine, "MESS_react")
      OBVIOUS
    <3>2. /\ g \in Process /\ g.mess = [p.mess EXCEPT ![machine] = "MESS_react"]
          /\ g.due = p.due /\ g.rcv = p.rcv /\ g.sys = p.sys
      BY <1>m, <3>1, GoesFacts
    <3>3. /\ q \in Process /\ q.mess = [p.mess EXCEPT ![machine] = "MESS_react"]
          /\ q.due = p.due /\ q.rcv = p.rcv /\ q.sys \in {p.sys, "ClearSession"}
      BY <2>4, <3>1, <3>2 DEF Process
    <3>4. MovesTo(p, machine, "MESS_react", q)
      BY <1>2, <3>3, ResponseStates DEF MovesTo, Well
    <3>5. QED
      BY <3>4, GoodIf
  <2>5. QED
    BY <2>1, <2>2, <2>3, <2>4 DEF VerifyRes
<1>3. CASE p.mess[machine] = "MESS_react"
  <2>1. PICK s \in {"MESS_ack", "MESS_idle"}, r \in {p, Consumed(p)} : \E g :
          /\ g = Goes(r, machine, s)
          /\ s = "MESS_ack" => r = p /\ needsAcknowledge(machine)
          /\ q \in {g, [g EXCEPT !.stat = TRUE], [g EXCEPT !.feed = TRUE],
                    [g EXCEPT !.feed = FALSE]}
    BY <1>3 DEF messResContinue, ReactRes
  <2>2. /\ r \in Process /\ r.mess = p.mess /\ r.due = p.due /\ r.rcv \in {p.rcv, Used}
        /\ r.sys = p.sys
    BY ConsumedFacts
  <2>3. PICK g :
          /\ g = Goes(r, machine, s)
          /\ q \in {g, [g EXCEPT !.stat = TRUE], [g EXCEPT !.feed = TRUE],
                    [g EXCEPT !.feed = FALSE]}
    BY <2>1
  <2>4. /\ g \in Process /\ g.mess = [p.mess EXCEPT ![machine] = s]
        /\ g.due = p.due /\ g.rcv = r.rcv /\ g.sys = p.sys
    BY <1>m, <2>1, <2>2, <2>3, GoesFacts
  <2>5. q \in Process /\ q.mess = g.mess /\ q.due = g.due /\ q.rcv = g.rcv
        /\ q.sys = g.sys
    BY <2>3, <2>4 DEF Process
  <2>6. s \in StatesOf(machine)
    BY <2>1, ResponseStates
  <2>7. MovesTo(p, machine, s, q)
    BY <1>3, <2>1, <2>2, <2>3, <2>4, <2>5, <2>6 DEF MovesTo, Well
  <2>8. QED
    BY <2>7, GoodIf
<1>4. CASE p.mess[machine] \in {"MESS_ack", "MESS_nack"}
  <2>1. q = Goes(Consumed(p), machine, "MESS_send")
    BY <1>4 DEF messResContinue, AnswerRes
  <2>2. /\ q \in Process /\ q.mess = [p.mess EXCEPT ![machine] = "MESS_send"]
        /\ q.due = p.due /\ q.rcv = Used /\ q.sys = p.sys
    BY <1>m, <1>g, <1>c, <2>1
  <2>3. p.mess[machine] \in StatesOf(machine) => "MESS_send" \in StatesOf(machine)
    BY <1>4, ResponseStates
  <2>4. MovesTo(p, machine, "MESS_send", q)
    BY <1>4, <2>2, <2>3 DEF MovesTo
  <2>5. QED
    BY <2>4, GoodIf
<1>5. CASE p.mess[machine] \in {"MESS_send", "MESS_encrypt", "MESS_wait"}
  <2>1. q \in {Goes(p, machine, "MESS_idle"), Exhausted(p, machine)}
    BY <1>5 DEF messResContinue, SendRes
  <2>2. /\ q \in Process /\ q.mess = [p.mess EXCEPT ![machine] = "MESS_idle"]
        /\ q.due = p.due /\ q.rcv = p.rcv /\ q.sys \in {p.sys, "ClearSession"}
    <3>1. CASE q = Goes(p, machine, "MESS_idle")
      BY <1>m, <3>1, GoesFacts
    <3>2. CASE q = Exhausted(p, machine)
      BY <3>2, ExhaustedFacts
    <3>3. QED
      BY <2>1, <3>1, <3>2
  <2>3. MovesTo(p, machine, "MESS_idle", q)
    BY <2>2, ResponseStates DEF MovesTo
  <2>4. QED
    BY <2>3, GoodIf
<1>6. QED
  BY <1>s, <1>1, <1>2, <1>3, <1>4, <1>5

\* Whichever machine it is.
LEMMA HandledWell ==
    ASSUME NEW p \in Process, NEW machine \in Machines, NEW q \in Handled(p, machine)
    PROVE  Good(p, machine, q)
BY RequestsWell, ResponsesWell DEF Handled

-----------------------------------------------------------------------------
(* One iteration *)

\* What the calls made so far may have left, starting from p.
Left(p, q) ==
    /\ Typed(q) /\ (Sound(p) => Sound(q))
    /\ q.rcv \in {p.rcv, Used} /\ q.sys \in {p.sys, "ClearSession"}

\* One call keeps what does not depend on the message.
LEMMA CallTyped ==
    ASSUME NEW p, Typed(p), NEW machine \in Machines, NEW q, Good(p, machine, q)
    PROVE  Typed(q)
<1>1. CASE p.mess[machine] \in StatesOf(machine)
  BY <1>1 DEF Good, Typed
<1>2. CASE machine \in AliveMachines
  <2>1. \A n \in Machines \ AliveMachines : q.mess[n] = p.mess[n]
    BY <1>2 DEF Good
  <2>2. q.due \subseteq Waiters
    BY <1>2 DEF Good, Typed
  <2>3. QED
    BY <2>1, <2>2 DEF Good, Typed
<1>3. QED
  BY <1>1, <1>2 DEF Typed

\* The first call: no other machine is handling a message.
LEMMA FirstCall ==
    ASSUME NEW p, Typed(p), NEW machine \in Machines,
           Sound(p) => \A n \in Machines \ {machine} : p.mess[n] \notin HandlingStates
    PROVE  \A q \in Continue({p}, machine) : Left(p, q)
<1>1. SUFFICES ASSUME NEW q \in Handled(p, machine)
               PROVE  Left(p, q)
  BY DEF Continue
<1>2. p \in Process /\ Good(p, machine, q)
  BY <1>1, HandledWell DEF Typed
<1>3. Typed(q) /\ q.rcv \in {p.rcv, Used} /\ q.sys \in {p.sys, "ClearSession"}
  BY <1>2, CallTyped DEF Good
<1>4. ASSUME Sound(p)
      PROVE  Sound(q)
  <2>1. Well(q, machine)
    BY <1>2, <1>4 DEF Good, Sound
  <2>2. ASSUME NEW n \in Machines \ {machine}
        PROVE  Well(q, n)
    BY <1>2, <1>4 DEF Good, Well
  <2>3. QED
    BY <2>1, <2>2 DEF Sound
<1>5. QED
  BY <1>3, <1>4 DEF Left

\* Every later call: the message, if it is still there, is not for the machine.
LEMMA LaterCall ==
    ASSUME NEW p \in Process, NEW states, \A q \in states : Left(p, q),
           NEW machine \in Machines, ~IsFor(p, machine)
    PROVE  \A q \in Continue(states, machine) : Left(p, q)
<1>1. SUFFICES ASSUME NEW r \in states, NEW q \in Handled(r, machine)
               PROVE  Left(p, q)
  BY DEF Continue
<1>2. Typed(r) /\ Good(r, machine, q) /\ r.rcv \in {p.rcv, Used}
      /\ r.sys \in {p.sys, "ClearSession"}
  BY <1>1, HandledWell DEF Left, Typed
<1>3. Typed(q) /\ q.rcv \in {p.rcv, Used} /\ q.sys \in {p.sys, "ClearSession"}
  BY <1>2, CallTyped DEF Good
<1>4. ~IsFor(r, machine)
  BY <1>2 DEF IsFor, Pending
<1>5. ASSUME Sound(p)
      PROVE  Sound(q)
  <2>1. Sound(r)
    BY <1>5 DEF Left
  <2>2. Well(q, machine) /\ q.rcv = r.rcv
    BY <1>2, <1>4, <2>1 DEF Good, Sound
  <2>3. ASSUME NEW n \in Machines \ {machine}
        PROVE  Well(q, n)
    BY <1>2, <2>1, <2>2 DEF Good, Sound, Well, IsFor, Pending
  <2>4. QED
    BY <2>2, <2>3 DEF Sound
<1>6. QED
  BY <1>3, <1>5 DEF Left

\* The classes, and with them which machine a message is for.
LEMMA Classes ==
    /\ Machines = {"comm", "stat", "feed", "aliveReq", "aliveRes"}
    /\ Class("comm") = "comm" /\ Class("stat") = "stat" /\ Class("feed") = "feed"
    /\ Class("aliveReq") = "alive" /\ Class("aliveRes") = "alive"
    /\ Requests("aliveReq") /\ ~Requests("aliveRes")
BY DEF Machines, AliveMachines, Class, Requests

\* An iteration, whatever the message: the machine it is for comes first, so the
\* others can neither lose it nor find it.
LEMMA DispatchedWell ==
    ASSUME NEW p, Typed(p), NEW q \in Dispatched(p)
    PROVE  Left(p, q)
<1>p. /\ p \in Process
      /\ p.rcv.class \in {"none", "comm", "stat", "feed", "alive", "kep"}
  BY DEF Typed, Process, Arriving, Used
<1>f. \A n \in Machines : p.rcv.class # Class(n) => ~IsFor(p, n)
  BY DEF IsFor
<1>n. Sound(p) => \A n \in Machines :
        p.rcv.class # Class(n) => p.mess[n] \notin HandlingStates
  BY <1>f DEF Sound, Well
<1>1. CASE p.rcv.class = "kep"
  <2>1. q \in {Consumed(p), [Consumed(p) EXCEPT !.sys = "ClearSession"]}
    BY <1>1 DEF Dispatched, HandleKep
  <2>2. /\ Consumed(p) \in Process /\ Consumed(p).mess = p.mess
        /\ Consumed(p).due = p.due /\ Consumed(p).rcv = Used /\ Consumed(p).sys = p.sys
    BY <1>p, ConsumedFacts
  <2>3. /\ q \in Process /\ q.mess = p.mess /\ q.due = p.due
        /\ q.rcv = Used /\ q.sys \in {p.sys, "ClearSession"}
    BY <2>1, <2>2 DEF Process
  <2>4. \A n \in Machines : p.rcv.class # Class(n)
    BY <1>1, Classes
  <2>5. QED
    BY <1>n, <2>3, <2>4 DEF Left, Typed, Sound, Well
<1>2. CASE p.rcv.class = "alive"
  <2>1. PICK a \in {"aliveReq", "aliveRes"} :
          /\ a = IF p.rcv.kind = "SEND" THEN "aliveRes" ELSE "aliveReq"
          /\ q \in Continue(Continue(Continue(Continue({p}, a), "comm"), "stat"), "feed")
    <3>1. Order(p.rcv) = <<IF p.rcv.kind = "SEND" THEN "aliveRes" ELSE "aliveReq",
                           "comm", "stat", "feed">>
      BY <1>2 DEF Order
    <3>2. QED
      BY <1>2, <3>1 DEF Dispatched
  <2>2. Sound(p) => \A n \in Machines \ {a} : p.mess[n] \notin HandlingStates
    BY <1>2, <1>n, <2>1, Classes DEF Sound, Well
  <2>3. \A r \in Continue({p}, a) : Left(p, r)
    BY <2>2, FirstCall, Classes
  <2>4. ~IsFor(p, "comm") /\ ~IsFor(p, "stat") /\ ~IsFor(p, "feed")
    BY <1>2, <1>f, Classes
  <2>5. \A r \in Continue(Continue({p}, a), "comm") : Left(p, r)
    BY <1>p, <2>3, <2>4, LaterCall, Classes
  <2>6. \A r \in Continue(Continue(Continue({p}, a), "comm"), "stat") : Left(p, r)
    BY <1>p, <2>4, <2>5, LaterCall, Classes
  <2>7. \A r \in Continue(Continue(Continue(Continue({p}, a), "comm"), "stat"), "feed") :
          Left(p, r)
    BY <1>p, <2>4, <2>6, LaterCall, Classes
  <2>8. QED
    BY <2>1, <2>7
<1>3. CASE p.rcv.class \in {"none", "comm", "stat", "feed"}
  <2>1. PICK a \in Machines, b \in Machines, c \in Machines :
          /\ {a, b, c} = {"comm", "stat", "feed"} /\ a # b /\ a # c
          /\ p.rcv.class \in {Class(a), "none"}
          /\ Order(p.rcv) = <<a, b, c, "aliveReq", "aliveRes">>
    <3>1. CASE p.rcv.class \in {"comm", "none"}
      <4>1. Order(p.rcv) = <<"comm", "stat", "feed", "aliveReq", "aliveRes">>
        BY <3>1 DEF Order
      <4>2. QED
        BY <3>1, <4>1, Classes
    <3>2. CASE p.rcv.class = "stat"
      <4>1. Order(p.rcv) = <<"stat", "comm", "feed", "aliveReq", "aliveRes">>
        BY <3>2 DEF Order
      <4>2. QED
        BY <3>2, <4>1, Classes
    <3>3. CASE p.rcv.class = "feed"
      <4>1. Order(p.rcv) = <<"feed", "comm", "stat", "aliveReq", "aliveRes">>
        BY <3>3 DEF Order
      <4>2. QED
        BY <3>3, <4>1, Classes
    <3>4. QED
      BY <1>3, <3>1, <3>2, <3>3
  <2>2. q \in Continue(Continue(Continue(Continue(Continue({p}, a), b), c),
                                "aliveReq"), "aliveRes")
    BY <1>3, <2>1 DEF Dispatched
  <2>3. \A n \in Machines \ {a} : p.rcv.class # Class(n)
    BY <2>1, Classes
  <2>4. \A r \in Continue({p}, a) : Left(p, r)
    BY <1>n, <2>3, FirstCall
  <2>5. ~IsFor(p, b) /\ ~IsFor(p, c) /\ ~IsFor(p, "aliveReq") /\ ~IsFor(p, "aliveRes")
    BY <1>f, <2>1, <2>3, Classes
  <2>6. \A r \in Continue(Continue({p}, a), b) : Left(p, r)
    BY <1>p, <2>4, <2>5, LaterCall
  <2>7. \A r \in Continue(Continue(Continue({p}, a), b), c) : Left(p, r)
    BY <1>p, <2>5, <2>6, LaterCall
  <2>8. \A r \in Continue(Continue(Continue(Continue({p}, a), b), c), "aliveReq") :
          Left(p, r)
    BY <1>p, <2>5, <2>7, LaterCall, Classes
  <2>9. \A r \in Continue(Continue(Continue(Continue(Continue({p}, a), b), c),
                                   "aliveReq"), "aliveRes") : Left(p, r)
    BY <1>p, <2>5, <2>8, LaterCall, Classes
  <2>10. QED
    BY <2>2, <2>9
<1>4. QED
  BY <1>p, <1>1, <1>2, <1>3

-----------------------------------------------------------------------------
(* The invariant *)

LEMMA TypedIff ==
    ASSUME proc \in Process
    PROVE  Typed(proc) <=>
             /\ \A machine \in Machines \ AliveMachines : proc.mess[machine] \in StatesOf(machine)
             /\ \A machine \in proc.due : Requests(machine) /\ needsAcknowledge(machine)
<1>1. proc.due \subseteq Machines
  BY DEF Process
<1>2. proc.due \subseteq Waiters <=>
        \A machine \in proc.due : Requests(machine) /\ needsAcknowledge(machine)
  BY <1>1 DEF Waiters
<1>3. QED
  BY <1>2 DEF Typed

\* The two programs do not turn into one another.
LEMMA SideKept ==
    ASSUME side' = side, NEW q, Typed(q), proc' = q
    PROVE  /\ Typed(proc)'
           /\ Sound(q) => Sound(proc)'
           /\ Calm(q) => Calm(proc)'
<1>1. /\ \A machine \in Machines : Requests(machine)' <=> Requests(machine)
      /\ \A machine \in Machines : StatesOf(machine)' = StatesOf(machine)
  BY DEF Requests, StatesOf
<1>2. Waiters' = Waiters
  BY <1>1 DEF Waiters
<1>3. \A machine \in Machines : Well(q, machine) => Well(proc, machine)'
  BY <1>1 DEF Well, IsFor, Pending
<1>4. QED
  BY <1>1, <1>2, <1>3 DEF Typed, Sound, Calm

\* A process in which no machine handles a message is sound.
LEMMA CalmSound ==
    ASSUME NEW q, Calm(q)
    PROVE  Sound(q)
BY DEF Calm, Sound, Well

LEMMA Initially == Init => IInv
<1>1. SUFFICES ASSUME Init
               PROVE  IInv
  OBVIOUS
<1>2. /\ proc \in Process /\ proc.due \subseteq {"aliveReq"}
      /\ \A machine \in Machines \ AliveMachines : proc.mess[machine] = "MESS_idle"
  <2>1. proc \in [sys : {"Idle"}, mess : [Machines -> MessStates],
                  due : {{}, {"aliveReq"}},
                  stat : {FALSE}, feed : {FALSE}, lapsed : {FALSE}, ntx : {0},
                  rcv : {Used}]
    BY <1>1 DEF Init
  <2>2. 0 \in 0 .. SESSION_MAX_RETRANSMISSIONS
    BY DispatchAssumption
  <2>3. proc \in Process /\ proc.due \subseteq {"aliveReq"}
    BY <2>1, <2>2 DEF Process, Machines
  <2>4. QED
    BY <1>1, <2>3 DEF Init
<1>3. Typed(proc)
  <2>1. \A machine \in Machines : "MESS_idle" \in StatesOf(machine)
    BY RequestStates, ResponseStates
  <2>2. "aliveReq" \in Waiters
    BY Classes DEF Waiters, needsAcknowledge
  <2>3. QED
    BY <1>2, <2>1, <2>2 DEF Typed
<1>4. settled \in BOOLEAN /\ (settled => Calm(proc))
  BY <1>1 DEF Init, Calm
<1>5. QED
  BY <1>1, <1>2, <1>3, <1>4, TypedIff, CalmSound DEF Init, IInv, TypeOK

LEMMA Step ==
    ASSUME IInv, [Next]_vars
    PROVE  IInv'
<1> USE DispatchAssumption
<1>1. Typed(proc) /\ proc \in Process
  BY TypedIff DEF IInv, TypeOK
\* A step that leaves the process sound if it has settled, or is calm.
<1>2. ASSUME side' = side, peer' \in {"there", "gone"}, settled' \in BOOLEAN,
             NEW q, proc' = q, Typed(q),
             settled' => Sound(q) /\ (q.sys = "Idle" => Calm(q))
      PROVE  IInv'
  <2>1. /\ Typed(proc)' /\ proc' \in Process
        /\ Sound(q) => Sound(proc)'
        /\ Calm(q) => Calm(proc)'
    BY <1>2, SideKept DEF Typed
  <2>2. side' \in {"base", "drone"}
    BY <1>2 DEF IInv, TypeOK
  <2>3. TypeOK'
    BY <1>2, <2>1, <2>2 DEF Typed, Waiters, TypeOK
  <2>4. QED
    BY <1>2, <2>1, <2>3 DEF IInv
<1>3. CASE UNCHANGED vars
  BY <1>1, <1>2, <1>3 DEF vars, IInv, TypeOK
<1>4. CASE Iterate
  <2>1. PICK p \in Polled : IterateWith(p)
    BY <1>4 DEF Iterate
  <2>2. /\ proc.sys = "SessionReady" /\ proc' \in Dispatched(p)
        /\ settled' = (settled \/ Calm(proc'))
        /\ side' = side /\ peer' = peer
    BY <2>1 DEF IterateWith
  \* With nothing pending no machine is handling anything.
  <2>3. Typed(p) /\ (settled => Sound(p)) /\ p.sys = proc.sys
    <3>1. CASE p = proc
      BY <1>1, <3>1 DEF IInv
    <3>2. CASE ~Pending(proc) /\ \E m \in Arriving : p = [proc EXCEPT !.rcv = m]
      <4>1. p \in Process /\ p.mess = proc.mess /\ p.due = proc.due /\ p.sys = proc.sys
        BY <1>1, <3>2 DEF Process
      <4>2. settled => Calm(p)
        BY <3>2, <4>1 DEF IInv, Sound, Well, IsFor, Calm
      <4>3. QED
        BY <1>1, <4>1, <4>2, CalmSound DEF Typed
    <3>3. QED
      BY <3>1, <3>2 DEF Polled
  <2>4. PICK q : q = proc'
    OBVIOUS
  <2>5. /\ Typed(q) /\ q.sys # "Idle"
        /\ settled => Sound(q)
    BY <2>2, <2>3, <2>4, DispatchedWell DEF Left
  <2>6. Calm(q) => Sound(q)
    BY CalmSound
  <2>7. QED
    BY <1>2, <2>2, <2>4, <2>5, <2>6 DEF IInv, TypeOK, Calm
<1>5. CASE Quit
  <2>1. /\ proc' \in Process /\ proc'.mess = proc.mess /\ proc'.due = proc.due
        /\ proc'.rcv = proc.rcv /\ proc'.sys = "ClearSession"
        /\ side' = side /\ peer' = peer /\ settled' = settled
    BY <1>1, <1>5 DEF Quit, Process
  <2>2. Typed(proc') /\ (Sound(proc) => Sound(proc'))
    BY <1>1, <2>1 DEF Typed, Sound, Well, IsFor, Pending
  <2>3. QED
    BY <1>2, <2>1, <2>2 DEF IInv, TypeOK
<1>6. CASE ClearSession
  <2>1. /\ proc' \in Process /\ proc'.due = {}
        /\ \A machine \in Machines : proc'.mess[machine] = "MESS_idle"
        /\ side' = side /\ peer' = peer /\ settled' = TRUE
    <3>1. PICK idle : idle = [machine \in Machines |-> "MESS_idle"]
      OBVIOUS
    <3>2. /\ idle \in [Machines -> MessStates]
          /\ \A machine \in Machines : idle[machine] = "MESS_idle"
      BY <3>1 DEF MessStates
    <3>3. proc' = [proc EXCEPT !.sys = "Idle", !.due = {}, !.ntx = 0, !.mess = idle]
      BY <1>6, <3>1 DEF ClearSession
    <3>4. 0 \in 0 .. SESSION_MAX_RETRANSMISSIONS
      OBVIOUS
    <3>5. proc' \in Process /\ proc'.due = {} /\ proc'.mess = idle
      BY <1>1, <3>2, <3>3, <3>4 DEF Process
    <3>6. QED
      BY <1>6, <3>2, <3>5 DEF ClearSession
  <2>2. \A machine \in Machines : "MESS_idle" \in StatesOf(machine)
    BY RequestStates, ResponseStates
  <2>3. Typed(proc') /\ Calm(proc')
    BY <2>1, <2>2 DEF Typed, Calm, HandlingStates
  <2>4. Sound(proc')
    BY <2>3, CalmSound
  <2>5. QED
    BY <1>2, <2>1, <2>3, <2>4 DEF IInv, TypeOK
<1>7. CASE Establish
  <2>1. /\ proc' \in Process /\ proc'.mess = proc.mess /\ proc'.due = proc.due
        /\ proc'.sys = "SessionReady" /\ proc.sys = "Idle"
        /\ side' = side /\ peer' = "there" /\ settled' = settled
    BY <1>1, <1>7, ZenonT(60) DEF Establish, Process
  <2>2. Typed(proc') /\ (Calm(proc) => Calm(proc'))
    BY <1>1, <2>1 DEF Typed, Calm
  <2>3. settled' => Sound(proc')
    BY <2>1, <2>2, CalmSound DEF IInv
  <2>4. QED
    BY <1>2, <2>1, <2>2, <2>3 DEF IInv, TypeOK
<1>8. CASE Lapse
  <2>1. /\ proc' \in Process /\ proc'.mess = proc.mess /\ proc'.due = proc.due
        /\ proc'.rcv = proc.rcv /\ proc'.sys = "SessionReady"
        /\ side' = side /\ peer' = peer /\ settled' = settled
    BY <1>1, <1>8 DEF Lapse, Process
  <2>2. Typed(proc') /\ (Sound(proc) => Sound(proc'))
    BY <1>1, <2>1 DEF Typed, Sound, Well, IsFor, Pending
  <2>3. QED
    BY <1>2, <2>1, <2>2 DEF IInv, TypeOK
<1>9. CASE PeerGoes
  BY <1>1, <1>2, <1>9 DEF PeerGoes, IInv, TypeOK
<1>10. QED
  BY <1>3, <1>4, <1>5, <1>6, <1>7, <1>8, <1>9 DEF Next

LEMMA Invariance == Spec => []IInv
BY Initially, Step, PTL DEF Spec

-----------------------------------------------------------------------------
(* Results *)

\* The session loop keeps its types: the machines of COMM, STAT and the feed keep
\* to the states that are theirs, and only machines that wait for an
\* acknowledgement time out.
THEOREM Typing == Spec => []TypeOK
<1>1. IInv => TypeOK
  BY DEF IInv
<1>2. QED
  BY <1>1, Invariance, PTL

\* A machine that takes several iterations over a message finds that message in
\* every one of them, from the first moment after power-on at which no machine is
\* handling a message.
THEOREM MessageStays == Spec => []HandledMessageIsThere
<1>1. IInv => HandledMessageIsThere
  BY DEF IInv, Sound, Well, HandledMessageIsThere, Handling
<1>2. QED
  BY <1>1, Invariance, PTL

\* From that moment on no message is handled by two machines, not even ALIVE,
\* which is for either of two.
THEOREM HandledOnce == Spec => []OneMachineHandles
<1>1. HandledMessageIsThere => OneMachineHandles
  <2>1. SUFFICES ASSUME HandledMessageIsThere, settled,
                        NEW m \in Machines, NEW n \in Machines, Handling(m), Handling(n)
                 PROVE  m = n
    BY DEF OneMachineHandles
  <2>2. proc.rcv.class = Class(m) /\ proc.rcv.class = Class(n)
    BY <2>1 DEF HandledMessageIsThere, IsFor
  <2>3. /\ proc.rcv.kind = IF Requests(m) THEN "ACK" ELSE "SEND"
        /\ proc.rcv.kind = IF Requests(n) THEN "ACK" ELSE "SEND"
    BY <2>1 DEF HandledMessageIsThere
  <2>4. QED
    BY <2>2, <2>3, Classes
<1>2. QED
  BY <1>1, MessageStays, PTL
=============================================================================
