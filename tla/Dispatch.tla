------------------------------ MODULE Dispatch ------------------------------
(***************************************************************************)
(* The session loop of one process (stateMachineBaseStation and            *)
(* stateMachineDrone in the state SessionReady): five state machines share *)
(* one received message.  An iteration polls, unless a message is pending, *)
(* and gives control to every machine once, first to the one the message   *)
(* is for.  A machine handles a message in several iterations and relies   *)
(* on finding it untouched in the next one; the loop relies on somebody    *)
(* marking every message used, because it does not poll before that.       *)
(*                                                                         *)
(* The peer and the network may send anything at any time, so messages     *)
(* carry no contents: whether a MAC verifies, an acknowledged number fits, *)
(* or the retransmissions of COMM and STAT are used up is open.  Session   *)
(* has the contents.                                                       *)
(*                                                                         *)
(* When nothing new has come from the peer for MICRO_INTERVAL, a request   *)
(* ALIVE is made, and a peer that does not answer it ends the session.     *)
(* The peer may go, or clear its session, at any time; after that nothing  *)
(* new that arrives is authentic.                                          *)
(*                                                                         *)
(* Nothing gives the two machines for ALIVE a state at power-on, so that   *)
(* in the first session they may be found in any state, handling a message *)
(* that is not there.  A call that does so may also follow a null pointer  *)
(* and end the process, after which there is nothing left to claim.        *)
(***************************************************************************)
EXTENDS Naturals

CONSTANTS
    PowerOnStates,   \* what main's stack may hold where the states of ALIVE go
    SESSION_MAX_RETRANSMISSIONS   \* 10 in the code

MessStates == {"MESS_idle", "MESS_encrypt", "MESS_send", "MESS_wait",
               "MESS_verify", "MESS_react", "MESS_ack", "MESS_nack"}

\* A number that is none of these takes the default branch of the switch, as do
\* the states that only the other kind of machine has.
ASSUME DispatchAssumption ==
    /\ PowerOnStates \subseteq MessStates
    /\ SESSION_MAX_RETRANSMISSIONS \in Nat \ {0}

VARIABLES
    side,   \* which of the two programs the process runs: "base" or "drone"
    proc,   \* the process
    peer,   \* whether the other side of the session is "there" or "gone"
    settled \* ghost: whether no machine was handling a message, once since power-on

vars == <<side, proc, peer, settled>>

-----------------------------------------------------------------------------
Machines == {"comm", "stat", "feed", "aliveReq", "aliveRes"}

AliveMachines == {"aliveReq", "aliveRes"}

Requests(machine) ==
    machine = "aliveReq"
    \/ machine \in (IF side = "base" THEN {"comm"} ELSE {"stat", "feed"})

\* The family of types the machine deals with.
Class(machine) == IF machine \in AliveMachines THEN "alive" ELSE machine

needsAcknowledge(machine) == machine # "feed"

Used == [status |-> "Message_used", class |-> "none", kind |-> "none"]

Arriving ==
    [status : {"Message_valid"}, class : {"comm", "stat", "feed", "alive"},
     kind : {"SEND", "ACK", "NACK"}]
    \cup
    [status : {"Message_repeated"}, class : {"comm", "stat", "alive"}, kind : {"SEND"}]
    \cup
    [status : {"Message_valid", "Message_repeated"}, class : {"kep"}, kind : {"SEND"}]

Process ==
    [sys  : {"Idle", "SessionReady", "ClearSession"},  \* Idle includes KEP
     mess : [Machines -> MessStates],   \* state.commState, ...
     due  : SUBSET Machines,            \* whose retransmission timeout expired
     stat : BOOLEAN,                    \* STAT_ACTIVE
     feed : BOOLEAN,                    \* FEED_ACTIVE
     lapsed : BOOLEAN,                  \* more than MICRO_INTERVAL since LAST_CHECK
     ntx  : 0 .. SESSION_MAX_RETRANSMISSIONS,   \* aliveReq.numTransmissions
     rcv  : Arriving \cup {Used}]       \* receivedMessage

Pending(p) == p.rcv # Used

Goes(p, machine, state) == [p EXCEPT !.mess[machine] = state]

Consumed(p) == [p EXCEPT !.rcv = Used]

Exhausted(p, machine) == [Goes(p, machine, "MESS_idle") EXCEPT !.sys = "ClearSession"]

IsFor(p, machine) == Pending(p) /\ p.rcv.class = Class(machine)

\* The states of a machine that is in the middle of handling a message.
HandlingStates == {"MESS_verify", "MESS_react", "MESS_ack", "MESS_nack"}

Calm(p) == \A machine \in Machines : p.mess[machine] \notin HandlingStates

-----------------------------------------------------------------------------
(* The request machines: the states a handler may leave the process in. *)

checkAliveInput(p) == IF p.lapsed THEN {[p EXCEPT !.lapsed = FALSE]} ELSE {}

\* checkInputFunction: a key, a flag the response machine of COMM sets, feed
\* bytes while the feed is on, a lapse of time.
WithInput(p, machine) ==
    CASE machine = "stat" -> IF p.stat THEN {[p EXCEPT !.stat = FALSE]} ELSE {}
      [] machine = "feed" -> IF p.feed THEN {p} ELSE {}
      [] machine = "aliveReq" -> checkAliveInput(p)
      [] machine = "comm" -> {p}

\* Mutant: a message for the idle machine is not ignored but left alone.
IdleReqLeavesMessage(p, machine) ==
    {p} \cup {Goes(q, machine, "MESS_encrypt") : q \in WithInput(p, machine)}

\* Input is taken as soon as STAT_ACTIVE is set or the interval has lapsed,
\* otherwise sooner or later.
IdleReq(p, machine) ==
    LET q     == IF IsFor(p, machine) THEN Consumed(p) ELSE p
        input == {Goes(r, machine, "MESS_encrypt") : r \in WithInput(q, machine)}
        due   == (machine = "stat" /\ p.stat) \/ (machine = "aliveReq" /\ p.lapsed)
    IN  IF due THEN input ELSE {q} \cup input

EncryptReq(p, machine) ==
    {[Goes(p, machine, "MESS_send") EXCEPT !.ntx = IF machine = "aliveReq" THEN 0 ELSE @]}

\* Mutant: a machine that gets no acknowledgement waits for one.
SendReqAlwaysWaits(p, machine) ==
    {[Goes(p, machine, "MESS_wait") EXCEPT !.due = @ \ {machine}], Exhausted(p, machine)}

\* Mutant: the transmissions of ALIVE are not limited.
SendAliveForever(waiting) == {waiting}

SendAlive(waiting) ==
    IF waiting.ntx < SESSION_MAX_RETRANSMISSIONS
    THEN {[waiting EXCEPT !.ntx = @ + 1]} ELSE {Exhausted(waiting, "aliveReq")}

SendReq(p, machine) ==
    LET waiting == [Goes(p, machine, "MESS_wait") EXCEPT !.due = @ \ {machine}]
    IN  CASE machine = "aliveReq" -> SendAlive(waiting)
          [] ~needsAcknowledge(machine) -> {Goes(p, machine, "MESS_idle")}
          [] OTHER -> {waiting, Exhausted(p, machine)}

\* The timeout comes first.  It is longer than an iteration, so a machine that
\* has just sent handles what is pending before it expires again.
WaitReq(p, machine) ==
    LET mine == IsFor(p, machine)
        ack  == mine /\ p.rcv.status = "Message_valid" /\ p.rcv.kind = "ACK"
        nack == mine /\ p.rcv.status = "Message_valid" /\ p.rcv.kind = "NACK"
        q    == IF mine THEN Consumed(p) ELSE p
    IN  IF machine \in p.due THEN {Goes(p, machine, "MESS_send")}
        ELSE IF ack THEN {Goes(p, machine, "MESS_verify")}
        ELSE {q, [q EXCEPT !.due = @ \cup {machine}]}
             \cup (IF nack THEN {Goes(q, machine, "MESS_send")} ELSE {})

\* Only the peer can acknowledge a request.
VerifyReq(p, machine) ==
    {Goes(Consumed(p), machine, "MESS_wait")} \cup
    (IF peer = "there" THEN {Goes(Consumed(p), machine, "MESS_idle")} ELSE {})

messReqContinue(p, machine) ==
    CASE p.mess[machine] = "MESS_idle"    -> IdleReq(p, machine)
      [] p.mess[machine] = "MESS_encrypt" -> EncryptReq(p, machine)
      [] p.mess[machine] = "MESS_send"    -> SendReq(p, machine)
      [] p.mess[machine] = "MESS_wait"    -> WaitReq(p, machine)
      [] p.mess[machine] = "MESS_verify"  -> VerifyReq(p, machine)
      [] OTHER -> {Goes(p, machine, "MESS_idle")}

-----------------------------------------------------------------------------
(* The response machines *)

IdleRes(p, machine) ==
    {IF IsFor(p, machine)
     THEN IF p.rcv.kind = "SEND" THEN Goes(p, machine, "MESS_verify") ELSE Consumed(p)
     ELSE p}

\* A valid message that verifies is new and the peer's; it sets LAST_CHECK.
VerifyRes(p, machine) ==
    LET new     == p.rcv.status = "Message_valid"
        dropped == Goes(Consumed(p), machine, "MESS_idle")
        wrong == IF p.rcv.status = "Message_repeated" \/ ~needsAcknowledge(machine)
                 THEN dropped ELSE Goes(p, machine, "MESS_nack")
        right == IF new THEN [Goes(p, machine, "MESS_react") EXCEPT !.lapsed = FALSE]
                 ELSE IF needsAcknowledge(machine) THEN Goes(p, machine, "MESS_ack")
                 ELSE dropped
    IN  {wrong} \cup (IF ~new \/ peer = "there" THEN {right} ELSE {})

\* writeOutputFunction; a command changes the two flags.
ReactRes(p, machine) ==
    LET q == IF needsAcknowledge(machine) THEN Goes(p, machine, "MESS_ack")
                                          ELSE Goes(Consumed(p), machine, "MESS_idle")
    IN  {q} \cup (IF machine = "comm"
                  THEN {[q EXCEPT !.stat = TRUE], [q EXCEPT !.feed = TRUE],
                        [q EXCEPT !.feed = FALSE]} ELSE {})

AnswerRes(p, machine) == {Goes(Consumed(p), machine, "MESS_send")}

SendRes(p, machine) == {Goes(p, machine, "MESS_idle"), Exhausted(p, machine)}

messResContinue(p, machine) ==
    CASE p.mess[machine] = "MESS_idle"   -> IdleRes(p, machine)
      [] p.mess[machine] = "MESS_verify" -> VerifyRes(p, machine)
      [] p.mess[machine] = "MESS_react"  -> ReactRes(p, machine)
      [] p.mess[machine] \in {"MESS_ack", "MESS_nack"} -> AnswerRes(p, machine)
      [] p.mess[machine] = "MESS_send"   -> SendRes(p, machine)
      [] OTHER -> {Goes(p, machine, "MESS_idle")}

-----------------------------------------------------------------------------
(* The loop *)

\* Mutant: both ALIVE machines are called while a message for one is pending.
OrderBothAlive(rcv) ==
    IF rcv.class = "kep" THEN <<>>
    ELSE <<"aliveRes", "aliveReq", "comm", "stat", "feed">>

\* Which machines are called, and in which order.  The machines for ALIVE are
\* never both called while a message for one of them is pending.
Order(rcv) ==
    CASE rcv.class \in {"comm", "none"} -> <<"comm", "stat", "feed", "aliveReq", "aliveRes">>
      [] rcv.class = "stat" -> <<"stat", "comm", "feed", "aliveReq", "aliveRes">>
      [] rcv.class = "feed" -> <<"feed", "comm", "stat", "aliveReq", "aliveRes">>
      [] rcv.class = "alive" ->
           <<IF rcv.kind = "SEND" THEN "aliveRes" ELSE "aliveReq", "comm", "stat", "feed">>
      [] rcv.class = "kep" -> <<>>

\* A message of KEP is dropped by the base station; the drone may answer it, as
\* long as it has transmissions left.
HandleKep(p) ==
    {Consumed(p)} \cup
    (IF side = "drone" THEN {[Consumed(p) EXCEPT !.sys = "ClearSession"]} ELSE {})

\* What a call of a machine may leave the process in.
Handled(p, machine) ==
    IF Requests(machine) THEN messReqContinue(p, machine)
                         ELSE messResContinue(p, machine)

Continue(states, machine) == UNION {Handled(p, machine) : p \in states}

\* The calls, one after the other; with ALIVE there are four of them.
Dispatched(p) ==
    LET order == Order(p.rcv)
        four  == Continue(Continue(Continue(Continue({p}, order[1]), order[2]),
                                   order[3]), order[4])
    IN  CASE p.rcv.class = "kep" -> HandleKep(p)
          [] p.rcv.class = "alive" -> four
          [] OTHER -> Continue(four, order[5])

Polled == IF Pending(proc) THEN {proc}
          ELSE {proc} \cup {[proc EXCEPT !.rcv = m] : m \in Arriving}

IterateWith(p) ==
    /\ proc.sys = "SessionReady"
    /\ proc' \in Dispatched(p)
    /\ settled' = (settled \/ Calm(proc'))
    /\ UNCHANGED <<side, peer>>

Iterate == \E p \in Polled : IterateWith(p)

Quit ==
    /\ proc.sys = "SessionReady"
    /\ proc' = [proc EXCEPT !.sys = "ClearSession"]
    /\ UNCHANGED <<side, peer, settled>>

\* The flags and the received message are not part of what is cleared.
ClearSession ==
    /\ proc.sys = "ClearSession"
    /\ proc' = [proc EXCEPT !.sys = "Idle", !.due = {}, !.ntx = 0,
                            !.mess = [machine \in Machines |-> "MESS_idle"]]
    /\ settled' = TRUE
    /\ UNCHANGED <<side, peer>>

\* KEP succeeds, with a peer, and sets LAST_CHECK.  It has used up what was
\* pending; the drone's last step has polled and may have found another message.
Establish ==
    /\ proc.sys = "Idle"
    /\ \E m \in {Used} \cup (IF side = "drone" THEN Arriving ELSE {}) :
         proc' = [proc EXCEPT !.sys = "SessionReady", !.rcv = m, !.lapsed = FALSE]
    /\ peer' = "there"
    /\ UNCHANGED <<side, settled>>

\* MICRO_INTERVAL passes without LAST_CHECK being set.
Lapse ==
    /\ proc.sys = "SessionReady"
    /\ ~proc.lapsed
    /\ proc' = [proc EXCEPT !.lapsed = TRUE]
    /\ UNCHANGED <<side, peer, settled>>

\* The peer loses power or its connection, or clears its session.
PeerGoes ==
    /\ peer = "there"
    /\ peer' = "gone"
    /\ UNCHANGED <<side, proc, settled>>

\* initialize...Session leaves the states of the two ALIVE machines alone.  A
\* request that waits was transmitted at time 0, long ago.
Init ==
    /\ side \in {"base", "drone"}
    /\ proc \in [sys : {"Idle"}, mess : [Machines -> MessStates], due : {{}, {"aliveReq"}},
                 stat : {FALSE}, feed : {FALSE}, lapsed : {FALSE}, ntx : {0},
                 rcv : {Used}]
    /\ \A machine \in Machines :
         IF machine \in AliveMachines THEN proc.mess[machine] \in PowerOnStates
                                      ELSE proc.mess[machine] = "MESS_idle"
    /\ "aliveReq" \in proc.due <=> proc.mess["aliveReq"] = "MESS_wait"
    /\ peer = "there"
    /\ settled = Calm(proc)

Next == Iterate \/ Quit \/ ClearSession \/ Establish \/ Lapse \/ PeerGoes

Spec == Init /\ [][Next]_vars

\* An iteration that goes on with the message that is pending.
Busy == Pending(proc) /\ IterateWith(proc)

\* An iteration in which nothing is received.
Quiet == ~Pending(proc) /\ IterateWith(proc)

\* One in which the request ALIVE turns out to be past its timeout.
AliveTimesOut ==
    /\ proc.mess["aliveReq"] = "MESS_wait"
    /\ "aliveReq" \notin proc.due
    /\ Quiet
    /\ "aliveReq" \in proc'.due

\* The loop runs forever and time passes: a request that waits again and again,
\* for whatever reason, is eventually past its timeout when it does.  The loop
\* does not wait for anything, so between messages it finds nothing to receive.
FairSpec ==
    /\ Spec
    /\ WF_vars(Busy) /\ WF_vars(Lapse)
    /\ SF_vars(Quiet) /\ SF_vars(AliveTimesOut)

-----------------------------------------------------------------------------
(* Properties *)

\* The states each machine can get to.
StatesOf(machine) ==
    {"MESS_idle"} \cup
    CASE Requests(machine) /\ needsAcknowledge(machine) ->
           {"MESS_encrypt", "MESS_send", "MESS_wait", "MESS_verify"}
      [] Requests(machine) /\ ~needsAcknowledge(machine) ->
           {"MESS_encrypt", "MESS_send"}
      [] ~Requests(machine) /\ needsAcknowledge(machine) ->
           {"MESS_verify", "MESS_react", "MESS_ack", "MESS_nack", "MESS_send"}
      [] ~Requests(machine) /\ ~needsAcknowledge(machine) ->
           {"MESS_verify", "MESS_react"}

\* Types; and, though the machines of COMM, STAT and the feed share their code
\* with the others, none gets to a state that is not its own: the feed never
\* answers nor waits for an answer, and a timeout is one of a machine that waits
\* or retransmits (session_req_sm.c:54, session_res_sm.c:21).
TypeOK ==
    /\ side \in {"base", "drone"}
    /\ proc \in Process
    /\ peer \in {"there", "gone"}
    /\ settled \in BOOLEAN
    /\ \A machine \in Machines \ AliveMachines : proc.mess[machine] \in StatesOf(machine)
    /\ \A machine \in proc.due : Requests(machine) /\ needsAcknowledge(machine)

\* A machine in the middle of handling a message.
Handling(machine) == proc.sys = "SessionReady" /\ proc.mess[machine] \in HandlingStates

\* From the first moment after power-on at which no machine is handling a message,
\* at the latest when the first session is cleared, a machine in the middle of
\* handling a message has that message before it: no other machine and no poll has
\* replaced it or marked it used.
HandledMessageIsThere ==
    settled => \A machine \in Machines : Handling(machine) =>
        /\ IsFor(proc, machine)
        /\ proc.rcv.kind = IF Requests(machine) THEN "ACK" ELSE "SEND"

\* From then on no message is handled by two machines: ALIVE is for either of two
\* machines ("Never call both simultaneously!", main_base_station.c:164).
OneMachineHandles ==
    settled => \A m, n \in Machines : Handling(m) /\ Handling(n) => m = n

\* Whatever arrives is marked used in the end, so the loop never stops polling.
PendingIsUsed == Pending(proc) /\ proc.sys = "SessionReady" ~>
                 ~Pending(proc) \/ proc.sys # "SessionReady"

\* A session is not kept up by one side alone: once the peer is gone, however it
\* went and whatever else arrives (copies of what it sent, messages of strangers
\* that provoke answers), the request ALIVE is made, stays without answer and
\* ends the session (check_input.c:182, session_req_sm.c:61).
HalfOpenSessionEnds == peer = "gone" /\ proc.sys = "SessionReady" ~>
                       proc.sys # "SessionReady"
=============================================================================
