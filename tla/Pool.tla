-------------------------------- MODULE Pool --------------------------------
(***************************************************************************)
(* pooledConnection (core/src/Connection.ts:32-53) under timeoutConnection *)
(* (core/src/Redis.ts:551-574), over the clients that the adapters build   *)
(* (ioredis/src/index.ts:46-173, bun/src/index.ts:38-91, :118-125).        *)
(*                                                                         *)
(* A caller takes a connection, sends a command or a pipeline on it, and   *)
(* gives it back. A connection is a client of its own: a queue of promises *)
(* that its replies settle in order, and a socket. A caller that gives up  *)
(* leaves its promises, and its commands, where they are.                  *)
(***************************************************************************)
EXTENDS Integers, Sequences

CONSTANTS
    Callers,    \* fibers that send commands
    Slots,      \* the places of the pool: `size` of them
    Sizes,      \* how many commands a call sends: 1, or the length of a pipeline
    MaxCalls,   \* bound: calls, which are numbered
    MaxFaults   \* bound: drops, hangs, refused connections and interrupts

Nobody == "nobody"
Nothing == "nothing"
Adapters == { "ioredis", "bun" }

ASSUME PoolAssumption ==
    /\ Nobody \notin Callers
    /\ Sizes \subseteq Nat \ {0} /\ \E n \in Sizes : \A m \in Sizes : m <= n
    /\ MaxCalls \in Nat /\ MaxFaults \in Nat

VARIABLES
    adapter,    \* the adapter
    deadline,   \* whether a commandTimeout is configured
    link,       \* the connection in a slot of the pool
    user,       \* who holds the slot, or Nobody
    promises,   \* the commands that wait for a reply in the client of the slot
    sent,       \* those on the socket that Redis has not run
    replies,    \* those that Redis has run, with a reply on the socket
    pc,         \* what each caller does
    call,       \* its current call, or 0
    calls,      \* how many calls there were
    left,       \* the commands of that call without a reply
    outcome,    \* history: how each call ended
    runs,       \* history: how often Redis ran each command
    failed,     \* history: whether the connection has failed a call
    faults      \* faults so far

config == << adapter, deadline >>
wire == << promises, sent, replies >>
caller == << pc, call, calls, left, outcome >>
vars == << adapter, deadline, link, user, promises, sent, replies,
           pc, call, calls, left, outcome, runs, failed, faults >>

\* none: the slot waits for a connection. refused: it holds the failure to get
\* one. hung: the peer is gone, and the client does not know. down: ioredis is
\* reconnecting. closed: every command is rejected.
Links == { "none", "refused", "up", "hung", "down", "closed" }
Outcomes == { Nothing, "ok", "command", "connection", "abandoned" }

MaxSize == CHOOSE n \in Sizes : \A m \in Sizes : m <= n

\* A command is its call and its place in it.
Commands == (1..MaxCalls) \X (1..MaxSize)

Init ==
    /\ adapter \in Adapters
    /\ deadline \in BOOLEAN
    /\ link = [s \in Slots |-> "none"]
    /\ user = [s \in Slots |-> Nobody]
    /\ promises = [s \in Slots |-> << >>]
    /\ sent = [s \in Slots |-> << >>]
    /\ replies = [s \in Slots |-> << >>]
    /\ pc = [c \in Callers |-> "idle"]
    /\ call = [c \in Callers |-> 0]
    /\ calls = 0
    /\ left = [c \in Callers |-> 0]
    /\ outcome = [n \in 1..MaxCalls |-> Nothing]
    /\ runs = [x \in Commands |-> 0]
    /\ failed = [s \in Slots |-> FALSE]
    /\ faults = 0

Fault ==
    /\ faults < MaxFaults
    /\ faults' = faults + 1

(***************************************************************************)
(* The pool.                                                               *)
(***************************************************************************)
\* Effect's Pool fills a slot in the background: makeClient connects, or fails.
Connect(s) ==
    /\ link[s] = "none"
    /\ \/ link' = [link EXCEPT ![s] = "up"] /\ UNCHANGED faults
       \/ link' = [link EXCEPT ![s] = "refused"] /\ Fault
    /\ promises' = [promises EXCEPT ![s] = << >>]
    /\ sent' = [sent EXCEPT ![s] = << >>]
    /\ replies' = [replies EXCEPT ![s] = << >>]
    /\ failed' = [failed EXCEPT ![s] = FALSE]
    /\ UNCHANGED << config, user, caller, runs >>

\* send, or pipeline: the call asks the pool for a connection.
Begin(c) ==
    /\ pc[c] = "idle" /\ calls < MaxCalls
    /\ pc' = [pc EXCEPT ![c] = "wait"]
    /\ calls' = calls + 1
    /\ call' = [call EXCEPT ![c] = calls + 1]
    /\ \E n \in Sizes : left' = [left EXCEPT ![c] = n]
    /\ UNCHANGED << config, link, user, wire, outcome, runs, failed, faults >>

\* The call ends, and its scope gives back what it holds.
End(c, how) ==
    /\ pc' = [pc EXCEPT ![c] = "idle"]
    /\ call' = [call EXCEPT ![c] = 0]
    /\ left' = [left EXCEPT ![c] = 0]
    /\ outcome' = [outcome EXCEPT ![call[c]] = how]
    /\ UNCHANGED calls

Release(c) == user' = [s \in Slots |-> IF user[s] = c THEN Nobody ELSE user[s]]

CommandsFromZero(c) ==              \* mutant: off by one
    [i \in 1..left[c] |-> << call[c], i - 1 >>]

CommandsOf(c) == [i \in 1..left[c] |-> << call[c], i >>]

\* The commands are written to the client, which queues them when it is down.
Take(c, s) ==
    /\ pc[c] = "wait"
    /\ user[s] = Nobody /\ link[s] \notin { "none", "refused" }
    /\ promises' = [promises EXCEPT ![s] = @ \o CommandsOf(c)]
    /\ sent' = IF link[s] \in { "up", "hung" }
               THEN [sent EXCEPT ![s] = @ \o CommandsOf(c)] ELSE sent
    /\ user' = [user EXCEPT ![s] = c]
    /\ pc' = [pc EXCEPT ![c] = "use"]
    /\ UNCHANGED << config, link, replies, call, calls, left, outcome, runs, failed, faults >>

\* The connection of the slot was refused: the call fails, and the slot is free.
TakeRefused(c, s) ==
    /\ pc[c] = "wait"
    /\ user[s] = Nobody /\ link[s] = "refused"
    /\ link' = [link EXCEPT ![s] = "none"]
    /\ End(c, "connection")
    /\ UNCHANGED << config, user, wire, runs, failed, faults >>

(***************************************************************************)
(* Redis and the client.                                                   *)
(***************************************************************************)
\* Redis runs a command, which succeeds or answers an error.
Run(s) ==
    /\ link[s] = "up" /\ sent[s] # << >>
    /\ runs' = [runs EXCEPT ![Head(sent[s])] = @ + 1]
    /\ \E ok \in BOOLEAN : replies' = [replies EXCEPT ![s] = Append(@, << Head(sent[s]), ok >>)]
    /\ sent' = [sent EXCEPT ![s] = Tail(@)]
    /\ UNCHANGED << config, link, user, promises, caller, failed, faults >>

\* Whether the user of the slot waits for this command.
Awaited(s, x) == user[s] # Nobody /\ call[user[s]] = x[1]

\* One reply fewer; the call ends with the last one, or when `fast` with the
\* first error.
Count(c, ok, fast) ==
    LET bad == ~ok \/ outcome[call[c]] = "command"
    IN  IF left[c] = 1 \/ (fast /\ ~ok)
        THEN End(c, IF bad THEN "command" ELSE "ok") /\ Release(c)
        ELSE /\ left' = [left EXCEPT ![c] = @ - 1]
             /\ outcome' = IF bad THEN [outcome EXCEPT ![call[c]] = "command"] ELSE outcome
             /\ UNCHANGED << pc, call, calls, user >>

\* bun's pipeline is Promise.all, which fails with the first error.
FailsAtOnce == adapter = "bun"

FailFast(s, x, ok) ==               \* mutant: every pipeline ends at its first error
    IF Awaited(s, x) THEN Count(user[s], ok, TRUE) ELSE UNCHANGED << caller, user >>

\* A reply settles its promise, which an abandoned call ignores. ioredis's
\* pipeline has all its replies before it looks for an error.
Settle(s, x, ok) ==
    IF Awaited(s, x) THEN Count(user[s], ok, FailsAtOnce) ELSE UNCHANGED << caller, user >>

\* The first reply on the socket settles the first promise of the client.
Receive(s) ==
    /\ link[s] = "up" /\ replies[s] # << >>
    /\ Settle(s, Head(promises[s]), Head(replies[s])[2])
    /\ promises' = [promises EXCEPT ![s] = Tail(@)]
    /\ replies' = [replies EXCEPT ![s] = Tail(@)]
    /\ UNCHANGED << config, link, sent, runs, failed, faults >>

ReconnectAlways(s) ==               \* mutant: autoReconnect is left on
    /\ link' = [link EXCEPT ![s] = "down"]
    /\ sent' = [sent EXCEPT ![s] = << >>]
    /\ replies' = [replies EXCEPT ![s] = << >>]
    /\ UNCHANGED << config, user, promises, caller, runs, failed >>

\* The socket closes, with what is on it. bun's client of a pool does not
\* reconnect, ioredis's does.
SocketCloses(s) ==
    /\ link' = [link EXCEPT ![s] = IF adapter = "bun" THEN "closed" ELSE "down"]
    /\ sent' = [sent EXCEPT ![s] = << >>]
    /\ replies' = [replies EXCEPT ![s] = << >>]
    /\ UNCHANGED << config, user, promises, caller, runs, failed >>

Drop(s) == link[s] = "up" /\ SocketCloses(s) /\ Fault

\* The peer is gone and says nothing, until a keepalive tells.
Hang(s) ==
    /\ link[s] = "up"
    /\ link' = [link EXCEPT ![s] = "hung"]
    /\ Fault
    /\ UNCHANGED << config, user, wire, caller, runs, failed >>

Detect(s) == link[s] = "hung" /\ SocketCloses(s) /\ UNCHANGED faults

\* The replies of a pipeline have begun to come, and the rest have not.
Incomplete(s) == promises[s] # << >> /\ Head(promises[s])[2] > 1

\* ioredis connects again and sends the commands without a reply once more.
Reconnect(s) ==
    /\ link[s] = "down" /\ ~Incomplete(s)
    /\ link' = [link EXCEPT ![s] = "up"]
    /\ sent' = [sent EXCEPT ![s] = promises[s]]
    /\ UNCHANGED << config, user, promises, replies, caller, runs, failed, faults >>

KeepConnection(c, s) ==             \* mutant: a ConnectionError is like any other
    /\ End(c, "connection")
    /\ failed' = [failed EXCEPT ![s] = TRUE]
    /\ UNCHANGED link

\* A ConnectionError takes the connection out of the pool.
Invalidate(c, s) ==
    /\ End(c, "connection")
    /\ failed' = [failed EXCEPT ![s] = TRUE]
    /\ link' = [link EXCEPT ![s] = "none"]

\* The client rejects the commands of its user, and what others left. A pipeline
\* of ioredis fails with its first error, which may be that of an earlier reply.
RejectCalls(s) ==
    LET c == user[s]
    IN  /\ user' = [user EXCEPT ![s] = Nobody]
        /\ CASE c = Nobody -> UNCHANGED << caller, link, failed >>
             [] c # Nobody /\ outcome[call[c]] = "command" ->
                   End(c, "command") /\ UNCHANGED << link, failed >>
             [] OTHER -> Invalidate(c, s)

\* A closed client rejects what it has, and so does ioredis when it has failed
\* to reconnect a few times.
Reject(s) ==
    /\ link[s] \in { "down", "closed" } /\ promises[s] # << >>
    /\ promises' = [promises EXCEPT ![s] = << >>]
    /\ RejectCalls(s)
    /\ UNCHANGED << config, sent, replies, runs, faults >>

\* ioredis does not send the rest of a pipeline again.
AbortPipeline(s) ==
    /\ link[s] = "down" /\ Incomplete(s)
    /\ LET head == Head(promises[s])
       IN  /\ \E n \in DOMAIN promises[s] :
                 /\ \A i \in DOMAIN promises[s] : i <= n <=> promises[s][i][1] = head[1]
                 /\ promises' = [promises EXCEPT ![s] = SubSeq(@, n + 1, Len(@))]
           /\ IF Awaited(s, head) THEN RejectCalls(s)
                                  ELSE UNCHANGED << caller, user, link, failed >>
    /\ UNCHANGED << config, sent, replies, runs, faults >>

\* ioredis stops reconnecting.
GiveUp(s) ==
    /\ link[s] = "down" /\ ~Incomplete(s)
    /\ link' = [link EXCEPT ![s] = "closed"]
    /\ UNCHANGED << config, user, wire, caller, runs, failed, faults >>

(***************************************************************************)
(* Giving up: the promises stay.                                           *)
(***************************************************************************)
LeaveHolding(c) ==                  \* mutant: the connection is not given back
    pc[c] # "idle" /\ End(c, "abandoned") /\ UNCHANGED << user, promises >>

LeaveForgotten(c) ==                \* mutant: the promises go, and the replies come
    /\ pc[c] # "idle"
    /\ End(c, "abandoned")
    /\ Release(c)
    /\ promises' = [s \in Slots |-> SelectSeq(promises[s], LAMBDA x : x[1] # call[c])]

Leave(c) ==
    /\ pc[c] # "idle"
    /\ End(c, "abandoned")
    /\ Release(c)
    /\ UNCHANGED promises

TimeoutSend(c) ==                   \* mutant: the deadline does not wrap pipelines
    /\ deadline /\ left[c] = 1
    /\ Leave(c)
    /\ UNCHANGED << config, link, sent, replies, runs, failed, faults >>

\* commandTimeout covers the wait for a connection too.
Timeout(c) ==
    /\ deadline
    /\ Leave(c)
    /\ UNCHANGED << config, link, sent, replies, runs, failed, faults >>

Interrupt(c) ==
    /\ Leave(c)
    /\ Fault
    /\ UNCHANGED << config, link, sent, replies, runs, failed >>

CallOf(c) ==
    \/ Begin(c) \/ Timeout(c) \/ Interrupt(c)
    \/ \E s \in Slots : Take(c, s) \/ TakeRefused(c, s)

Client(s) == Connect(s) \/ Receive(s) \/ Reconnect(s) \/ AbortPipeline(s) \/ Reject(s) \/ GiveUp(s)
World(s) == Run(s) \/ Drop(s) \/ Hang(s) \/ Detect(s)

Next ==
    \/ \E c \in Callers : CallOf(c)
    \/ \E s \in Slots : Client(s) \/ World(s)

Spec == Init /\ [][Next]_vars

\* The pool hands its connections out in the order of the requests, Redis and
\* the clients make progress, deadlines pass, and ioredis's keepAlive tells a
\* peer that is gone.
FairSpec ==
    /\ Spec
    /\ \A c \in Callers : /\ SF_vars(\E s \in Slots : Take(c, s) \/ TakeRefused(c, s))
                          /\ WF_vars(Timeout(c))
    /\ \A s \in Slots : /\ WF_vars(Client(s))
                        /\ WF_vars(Run(s))
                        /\ WF_vars(adapter = "ioredis" /\ Detect(s))

(***************************************************************************)
(* Properties.                                                             *)
(***************************************************************************)

TypeOK ==
    /\ adapter \in Adapters /\ deadline \in BOOLEAN
    /\ link \in [Slots -> Links]
    /\ user \in [Slots -> Callers \cup {Nobody}]
    /\ promises \in [Slots -> Seq(Commands)]
    /\ sent \in [Slots -> Seq(Commands)]
    /\ replies \in [Slots -> Seq(Commands \X BOOLEAN)]
    /\ pc \in [Callers -> { "idle", "wait", "use" }]
    /\ call \in [Callers -> 0..MaxCalls]
    /\ calls \in 0..MaxCalls
    /\ left \in [Callers -> 0..MaxSize]
    /\ outcome \in [1..MaxCalls -> Outcomes]
    /\ runs \in [Commands -> Nat]
    /\ failed \in [Slots -> BOOLEAN]
    /\ faults \in 0..MaxFaults

\* A connection is handed out again after a deadline or an interrupt left its
\* commands on it, and after a pipeline of bun failed early: each reply still
\* settles the command it answers, and no call gets the answer of another
\* (Connection.ts:40-45, Redis.ts:555-571).
AnswersAreOwn ==
    \A s \in Slots : link[s] \in { "up", "hung" } =>
        promises[s] = [i \in DOMAIN replies[s] |-> replies[s][i][1]] \o sent[s]

\* However a call ends, it gives back the connection it holds, and a connection
\* has one user: the pool loses no slot.
SlotsBalance ==
    /\ \A s \in Slots : user[s] # Nobody => pc[user[s]] = "use"
    /\ \A c \in Callers : pc[c] = "use" =>
          \E s \in Slots : \A t \in Slots : user[t] = c <=> t = s

\* A connection that failed a call with a ConnectionError is never used again
\* (Connection.ts:31, :44). One that hangs is: a TimeoutError removes nothing.
BrokenIsRemoved ==
    \A s \in Slots : failed[s] => link[s] = "none" /\ user[s] = Nobody

\* What waits on a connection is of its user, or was left by a call that gave up,
\* or by a pipeline of bun that failed: a call that ends otherwise leaves
\* nothing behind (ioredis/src/index.ts:158-173, bun/src/index.ts:81-91).
LeftoversAreExplained ==
    \A s \in Slots : link[s] # "none" => \A i \in DOMAIN promises[s] :
        LET x == promises[s][i]
        IN  \/ Awaited(s, x)
            \/ outcome[x[1]] = "abandoned"
            \/ outcome[x[1]] = "command" /\ adapter = "bun"

\* A command runs twice only where the client of ioredis reconnects and sends it
\* again: a pool of bun's, which does not reconnect, runs none twice, whatever
\* its caller is told (ioredis/src/index.ts:46-52, bun/src/index.ts:118-123). Of a
\* call that succeeds only the first command is looked at: it ran.
RunsAreBounded ==
    \A x \in Commands :
        /\ runs[x] <= 1 + IF adapter = "bun" THEN 0 ELSE faults
        /\ x[2] = 1 /\ outcome[x[1]] = "ok" => runs[x] >= 1

\* Every call ends, unless bun waits without a deadline for a peer that is gone.
\* A deadline is taken to end its command; in an uninterruptible region of the
\* caller, such as that of Cache.ts:132-136, the command may go on past it.
SendEnds ==
    \A c \in Callers :
        pc[c] # "idle" ~>
            \/ pc[c] = "idle"
            \/ adapter = "bun" /\ ~deadline /\ \E s \in Slots : link[s] = "hung"
=============================================================================
