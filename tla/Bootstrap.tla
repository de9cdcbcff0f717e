----------------------------- MODULE Bootstrap ------------------------------
(***************************************************************************)
(* The bring-up of the UCX backend (ucx_backend/bootstrap.rs): the process *)
(* launched with rank 0 listens on a TCP port, the others connect with     *)
(* retries and send it rank and worker address, and it answers each with   *)
(* the table of all addresses, from which every process builds endpoints.  *)
(*                                                                         *)
(* The ranks and sizes come from the environment of each process and need  *)
(* not fit together.  A process may crash, and be started again with a new *)
(* worker, hence a new address.                                            *)
(*                                                                         *)
(* TCP (external): a connection is made by the kernel as soon as there is  *)
(* a listener; what was written before a close can still be read, then     *)
(* comes the end of the stream; a write to a peer that is gone succeeds or *)
(* fails.                                                                  *)
(*                                                                         *)
(* BackendProofs extends this module together with the others of the       *)
(* backend; so its specification, vars and type invariant carry its name.  *)
(***************************************************************************)
EXTENDS Naturals, Sequences, FiniteSets

CONSTANTS
    Procs,       \* processes
    Launches,    \* what they may be launched with: functions to [rank, size]
    MaxRetries,  \* connection attempts (the code's 200)
    MaxFaults,   \* bound: crashes
    NoProc       \* no process, connection or address

ASSUME BootstrapAssumption ==
    /\ Launches \subseteq [Procs -> [rank : Nat, size : Nat]]
    /\ MaxRetries \in Nat \ {0}
    /\ MaxFaults \in Nat
    /\ NoProc \notin Procs \cup (Procs \X Nat)

(* The incarnations of a process.  One stands for its worker address, and  *)
(* for the connection it makes, for it makes one at most.                  *)
Workers == Procs \X (0 .. MaxFaults)

VARIABLES
    launch,     \* BootstrapConfig of each process
    pc,         \* where it is, or how it ended
    lives,      \* which incarnation it is in
    faults,     \* crashes so far
    retries,    \* connection attempts it has made
    table,      \* what its exchange_addresses returned
    socket,     \* of a connection: [peer, root, sent, reply]
    listener,   \* the process that has the port
    backlog,    \* connections it has not accepted yet
    conns,      \* its HashMap from ranks to connections
    addresses,  \* its Vec of addresses
    tcp_stream, \* the connection it is reading from
    turn        \* the index of its loop over 1 .. size - 1

bootstrapVars == <<launch, pc, lives, faults, retries, table, socket, listener, backlog,
                   conns, addresses, tcp_stream, turn>>
local == <<conns, addresses, tcp_stream, turn>>

rank(p) == launch[p].rank
size(p) == launch[p].size
Me(p) == <<p, lives[p]>>

BootstrapInit ==
    /\ launch \in Launches
    /\ pc = [p \in Procs |-> "start"]
    /\ lives = [p \in Procs |-> 0]
    /\ faults = 0
    /\ retries = [p \in Procs |-> 0]
    /\ table = [p \in Procs |-> <<>>]
    /\ socket = [c \in Workers |-> [peer |-> "none", root |-> "none", sent |-> 0, reply |-> <<>>]]
    /\ listener = NoProc
    /\ backlog = <<>>
    /\ conns = <<>> /\ addresses = <<>> /\ tcp_stream = NoProc /\ turn = 0

-----------------------------------------------------------------------------
(* The sockets of p are closed, s being the sockets otherwise: the one to  *)
(* rank 0, or the listener, its backlog and all it accepted.               *)
Closed(s, p) ==
    [c \in Workers |-> [s[c] EXCEPT
        !.peer = IF c = Me(p) /\ @ = "open" THEN "closed" ELSE @,
        !.root = IF listener = p /\ @ = "open" THEN "closed" ELSE @]]

(* exchange_addresses returns (or unwinds) and drops what it has.          *)
Leave(p, s, outcome) ==
    /\ pc' = [pc EXCEPT ![p] = outcome]
    /\ faults' = IF outcome = "crashed" THEN faults + 1 ELSE faults
    /\ socket' = Closed(s, p)
    /\ IF listener = p
       THEN /\ listener' = NoProc /\ backlog' = <<>>
            /\ conns' = <<>> /\ addresses' = <<>> /\ tcp_stream' = NoProc /\ turn' = 0
       ELSE UNCHANGED <<listener, backlog, local>>
    /\ UNCHANGED <<launch, lives, retries>>

-----------------------------------------------------------------------------
(* Rank 0.  (A definition whose name says what is wrong with it is a slip  *)
(* that the checks must catch.)                                            *)

Bind(p) ==
    /\ pc[p] = "start" /\ rank(p) = 0 /\ listener = NoProc
    /\ listener' = p
    /\ addresses' = [r \in 0 .. size(p) - 1 |-> IF r = 0 THEN Me(p) ELSE NoProc]
    /\ conns' = [r \in 1 .. size(p) - 1 |-> NoProc]
    /\ turn' = 1
    /\ pc' = [pc EXCEPT ![p] = "accept"]
    /\ UNCHANGED <<launch, lives, faults, retries, table, socket, backlog, tcp_stream>>

(* Another process has the port.                                           *)
BindFails(p) ==
    /\ pc[p] = "start" /\ rank(p) = 0 /\ listener # NoProc
    /\ Leave(p, socket, "err")
    /\ UNCHANGED table

(* There is nobody to wait for, or no entry for rank 0 itself.             *)
Alone(p) ==
    /\ pc[p] = "accept"
    /\ \/ /\ size(p) = 1
          /\ table' = [table EXCEPT ![p] = addresses]
          /\ Leave(p, socket, "connect")
       \/ /\ size(p) = 0
          /\ Leave(p, socket, "panic")
          /\ UNCHANGED table

Accept(p) ==
    /\ pc[p] = "accept" /\ size(p) > 1 /\ backlog # <<>>
    /\ tcp_stream' = Head(backlog)
    /\ backlog' = Tail(backlog)
    /\ pc' = [pc EXCEPT ![p] = "read"]
    /\ UNCHANGED <<launch, lives, faults, retries, table, socket, listener, conns, addresses,
                   turn>>

(* HashMap::insert: the stream that was there is dropped.                  *)
Insert_if_vacant(map, r, c) == IF map[r] = NoProc THEN [map EXCEPT ![r] = c] ELSE map

Insert(map, r, c) == [map EXCEPT ![r] = c]

(* The loop over 1 .. size - 1 has reached its end.                        *)
LastPeer_plus_one(p) == turn = size(p)

LastPeer(p) == turn = size(p) - 1

(* The rank and the address of the accepted peer.                          *)
ReadPeer(p) ==
    LET r == rank(tcp_stream[1])
        old == conns[r]
    IN  /\ pc[p] = "read" /\ socket[tcp_stream].sent = 2 /\ r < size(p)
        /\ addresses' = [addresses EXCEPT ![r] = tcp_stream]
        /\ conns' = Insert(conns, r, tcp_stream)
        /\ socket' = [c \in Workers |->
              IF c \in {old, tcp_stream} /\ c # conns'[r] THEN [socket[c] EXCEPT !.root = "closed"]
                                                       ELSE socket[c]]
        /\ pc' = [pc EXCEPT ![p] = IF LastPeer(p) THEN "reply" ELSE "accept"]
        /\ turn' = IF LastPeer(p) THEN 1 ELSE turn + 1
        /\ tcp_stream' = NoProc
        /\ UNCHANGED <<launch, lives, faults, retries, table, listener, backlog>>

(* The peer has gone before it said everything; or its rank is no index.   *)
ReadPeerFails(p) ==
    /\ pc[p] = "read"
    /\ \/ /\ socket[tcp_stream].peer = "closed" /\ socket[tcp_stream].sent < 2
          /\ Leave(p, socket, "err")
       \/ /\ socket[tcp_stream].sent = 2 /\ rank(tcp_stream[1]) >= size(p)
          /\ Leave(p, socket, "panic")
    /\ UNCHANGED table

(* One turn of the loop that sends the table and closes.                   *)
Reply(p) ==
    LET c == conns[turn]
        s == [socket EXCEPT ![c].reply = addresses, ![c].root = "closed"]
    IN  /\ pc[p] = "reply" /\ c # NoProc
        /\ IF turn = size(p) - 1
           THEN /\ table' = [table EXCEPT ![p] = addresses]
                /\ Leave(p, s, "connect")
           ELSE /\ socket' = s
                /\ conns' = [conns EXCEPT ![turn] = NoProc]
                /\ turn' = turn + 1
                /\ UNCHANGED <<launch, pc, lives, faults, retries, table, listener, backlog,
                               addresses, tcp_stream>>

(* The peer is gone; or no peer had this rank: expect("missing             *)
(* connection").                                                           *)
ReplyFails(p) ==
    /\ pc[p] = "reply"
    /\ \/ /\ conns[turn] # NoProc /\ socket[conns[turn]].peer = "closed"
          /\ Leave(p, socket, "err")
       \/ /\ conns[turn] = NoProc
          /\ Leave(p, socket, "panic")
    /\ UNCHANGED table

-----------------------------------------------------------------------------
(* The other ranks.                                                        *)

RetriesLeft_always(n) == TRUE

RetriesLeft(n) == n < MaxRetries

Connect(p) ==
    /\ pc[p] = "start" /\ rank(p) # 0 /\ RetriesLeft(retries[p]) /\ listener # NoProc
    /\ socket' = [socket EXCEPT ![Me(p)].peer = "open", ![Me(p)].root = "open"]
    /\ backlog' = Append(backlog, Me(p))
    /\ pc' = [pc EXCEPT ![p] = "send"]
    /\ UNCHANGED <<launch, lives, faults, retries, table, listener, local>>

(* Refused: sleep and try again.                                           *)
Retry(p) ==
    /\ pc[p] = "start" /\ rank(p) # 0 /\ RetriesLeft(retries[p]) /\ listener = NoProc
    /\ retries' = [retries EXCEPT ![p] = IF @ < MaxRetries THEN @ + 1 ELSE @]
    /\ UNCHANGED <<launch, pc, lives, faults, table, socket, listener, backlog, local>>

GiveUp(p) ==
    /\ pc[p] = "start" /\ rank(p) # 0 /\ ~RetriesLeft(retries[p])
    /\ Leave(p, socket, "timeout")
    /\ UNCHANGED table

(* The rank, then the address, is written.                                 *)
Send(p) ==
    /\ pc[p] = "send"
    /\ socket' = [socket EXCEPT ![Me(p)].sent = @ + 1]
    /\ pc' = [pc EXCEPT ![p] = IF socket[Me(p)].sent = 1 THEN "receive" ELSE "send"]
    /\ UNCHANGED <<launch, lives, faults, retries, table, listener, backlog, local>>

SendFails(p) ==
    /\ pc[p] = "send" /\ socket[Me(p)].root = "closed"
    /\ Leave(p, socket, "err")
    /\ UNCHANGED table

Receive(p) ==
    LET reply == socket[Me(p)].reply
    IN  /\ pc[p] = "receive" /\ reply # <<>> /\ Cardinality(DOMAIN reply) = size(p)
        /\ table' = [table EXCEPT ![p] = reply]
        /\ Leave(p, socket, "connect")

(* The end of the stream, or a count that is not the size.                 *)
ReceiveFails(p) ==
    LET reply == socket[Me(p)].reply
    IN  /\ pc[p] = "receive"
        /\ \/ reply = <<>> /\ socket[Me(p)].root = "closed"
           \/ reply # <<>> /\ Cardinality(DOMAIN reply) # size(p)
        /\ Leave(p, socket, "err")
        /\ UNCHANGED table

-----------------------------------------------------------------------------
(* bootstrap_communicator, after the exchange: Worker::connect_addr        *)
(* (external) makes the endpoints, or refuses one.                         *)
ConnectAddr(p) ==
    /\ pc[p] = "connect"
    /\ \E outcome \in {"ok", "unreachable"} : pc' = [pc EXCEPT ![p] = outcome]
    /\ UNCHANGED <<launch, lives, faults, retries, table, socket, listener, backlog, local>>

Ended(p) == pc[p] \in {"ok", "unreachable", "err", "timeout", "panic", "crashed"}

(* A process dies, or ends before it began: no worker address, no          *)
(* configuration.                                                          *)
Crash(p) ==
    /\ faults < MaxFaults /\ ~Ended(p)
    /\ table' = [table EXCEPT ![p] = <<>>]
    /\ Leave(p, socket, "crashed")

Restart(p) ==
    /\ pc[p] = "crashed"
    /\ pc' = [pc EXCEPT ![p] = "start"]
    /\ lives' = [lives EXCEPT ![p] = @ + 1]
    /\ retries' = [retries EXCEPT ![p] = 0]
    /\ UNCHANGED <<launch, faults, table, socket, listener, backlog, local>>

Step(p) ==
    \/ Bind(p) \/ BindFails(p) \/ Alone(p) \/ Accept(p) \/ ReadPeer(p) \/ ReadPeerFails(p)
    \/ Reply(p) \/ ReplyFails(p)
    \/ Connect(p) \/ Retry(p) \/ GiveUp(p) \/ Send(p) \/ SendFails(p)
    \/ Receive(p) \/ ReceiveFails(p)
    \/ ConnectAddr(p)

BootstrapNext == \E p \in Procs : Step(p) \/ Crash(p) \/ Restart(p)

BootstrapSpec == BootstrapInit /\ [][BootstrapNext]_bootstrapVars

-----------------------------------------------------------------------------
(* Types.                                                                  *)
BootstrapTypeOK ==
    /\ launch \in Launches
    /\ pc \in [Procs -> {"start", "accept", "read", "reply", "send", "receive", "connect", "ok",
                         "unreachable", "err", "timeout", "panic", "crashed"}]
    /\ lives \in [Procs -> 0 .. MaxFaults]
    /\ faults \in 0 .. MaxFaults
    /\ retries \in [Procs -> 0 .. MaxRetries]
    /\ \A c \in Workers : /\ socket[c].peer \in {"none", "open", "closed"}
                          /\ socket[c].root \in {"none", "open", "closed"}
                          /\ socket[c].sent \in 0 .. 2
    /\ listener \in Procs \cup {NoProc}
    /\ backlog \in Seq(Workers)
    /\ tcp_stream \in Workers \cup {NoProc}

HasTable(p) == table[p] # <<>>

(* The tables can be used together, whatever the processes were launched   *)
(* with and whichever rank connected twice: a process has an entry for     *)
(* each of its ranks, is itself the worker at its own rank, finds at a     *)
(* rank only a worker launched with it, and has the table of every other   *)
(* process that was answered by the same rank 0; and when rank 0 itself    *)
(* has the table, none of its entries is empty.                            *)
TablesUsable ==
    \A p \in {q \in Procs : HasTable(q)} :
        /\ DOMAIN table[p] = 0 .. size(p) - 1
        /\ table[p][rank(p)] = Me(p)
        /\ \A r \in DOMAIN table[p] : table[p][r] # NoProc => rank(table[p][r][1]) = r
        /\ \A q \in {o \in Procs : HasTable(o) /\ table[o][0] = table[p][0]} :
              /\ table[p] = table[q]
              /\ rank(q) = 0 => \A r \in DOMAIN table[p] : table[p][r] # NoProc

-----------------------------------------------------------------------------
(* Every process goes on when it can; crashes and restarts owe nothing.    *)
BootstrapFairSpec == BootstrapSpec /\ \A p \in Procs : WF_bootstrapVars(Step(p))

(* One process of each rank, and all of the same size.                     *)
WellFormed ==
    /\ \A p \in Procs : size(p) = Cardinality(Procs) /\ rank(p) < size(p)
    /\ \A p, q \in Procs : rank(p) = rank(q) => p = q

(* A proper launch succeeds: every process gets the table, unless one has  *)
(* crashed, or has used up its attempts before rank 0 listened.            *)
Established ==
    WellFormed => <>(\/ \A p \in Procs : pc[p] \in {"ok", "unreachable"}
                     \/ faults > 0
                     \/ \E p \in Procs : pc[p] = "timeout")

(* Nobody hangs but behind rank 0: in the end every process has returned,  *)
(* with endpoints or an error, or rank 0 waits in accept for a peer that   *)
(* does not come (it has no timeout).                                      *)
NobodyHangs ==
    <>[](\/ \A p \in Procs : Ended(p)
         \/ listener # NoProc /\ pc[listener] = "accept" /\ backlog = <<>>)
=============================================================================
