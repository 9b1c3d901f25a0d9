----------------------------- MODULE HttpServer -----------------------------
(***************************************************************************)
(* The web process (src/src/web/http_server.cpp, started by main of        *)
(* src/apps/ethercat_diag_web.cpp): one thread that accepts a connection,  *)
(* reads a request from it, answers and closes it, and looks between two   *)
(* connections whether a signal has asked it to stop.                      *)
(*                                                                         *)
(* Clients send nothing, a piece at a time, or all at once, and can be     *)
(* gone at any time.  What is answered is left out: every request that is  *)
(* read to its end, or given up, gets an answer and is closed.             *)
(***************************************************************************)
EXTENDS Naturals, Sequences

CONSTANTS
    Client,
    Backlog,    \* connections that wait for accept, 16 in the code
    MaxSize     \* max_request_size, in the pieces that recv returns

ASSUME ServerAssumption == Backlog \in Nat \ {0} /\ MaxSize \in Nat \ {0}

VARIABLES
    at,         \* where run stands, or how it ended
    stop,       \* stop_requested
    queue,      \* connections that have not been accepted, in order
    conn,       \* the state of each client's connection
    received,   \* the size of the request being read
    whole       \* the end of its header has been received

request == <<received, whole>>
serverVars == <<at, stop, queue, conn, request>>

Loop == {"check", "armed", "select", "accept", "recv", "send"}

ServerInit ==
    /\ at = "start" /\ stop = FALSE
    /\ queue = << >>
    /\ conn = [c \in Client |-> "away"]
    /\ received = 0 /\ whole = FALSE

-----------------------------------------------------------------------------
(* The server                                                              *)

(* Socket, address, bind: run fails with any of them.                      *)
Bind ==
    /\ at = "start"
    /\ at' = "bound"
    /\ UNCHANGED <<stop, queue, conn, request>>

Listen ==
    /\ at = "bound"
    /\ at' = "check"
    /\ UNCHANGED <<stop, queue, conn, request>>

(* The listening socket is closed, and with it what waits there.           *)
Shut(how) ==
    /\ at' = how
    /\ queue' = << >>
    /\ conn' = [c \in Client |-> "away"]
    /\ UNCHANGED <<stop, request>>

Fail == at \in {"start", "bound", "select", "accept"} /\ Shut("failed")

End == at = "check" /\ stop /\ Shut("ended")

(* should_stop has returned false, but select is not entered yet.          *)
GoOn ==
    /\ at = "check" /\ ~stop
    /\ at' = "armed"
    /\ UNCHANGED <<stop, queue, conn, request>>

EnterSelect ==
    /\ at = "armed"
    /\ at' = "select"
    /\ UNCHANGED <<stop, queue, conn, request>>

Ready ==
    /\ at = "select" /\ queue # << >>
    /\ at' = "accept"
    /\ UNCHANGED <<stop, queue, conn, request>>

(* Faulty variant, for mutation checks only: select has no timeout.        *)
SelectBlocks == FALSE

(* After 200 ms without a connection.                                      *)
SelectTimesOut ==
    /\ at = "select" /\ queue = << >>
    /\ at' = "check"
    /\ UNCHANGED <<stop, queue, conn, request>>

Accept ==
    /\ at = "accept"
    /\ conn' = [conn EXCEPT ![Head(queue)] = "served"]
    /\ queue' = Tail(queue)
    /\ received' = 0 /\ whole' = FALSE
    /\ at' = "recv"
    /\ UNCHANGED stop

Reads == ~whole /\ received < MaxSize

(* Faulty variant, for mutation checks only: a piece, of one size or the   *)
(* other, replaces those before it.                                        *)
ReceiveLast ==
    /\ at = "recv" /\ Reads
    /\ received' \in 1..2
    /\ whole' \in BOOLEAN
    /\ UNCHANGED <<at, stop, queue, conn>>

Receive ==
    /\ at = "recv" /\ Reads
    /\ received' = received + 1
    /\ whole' \in BOOLEAN
    /\ UNCHANGED <<at, stop, queue, conn>>

(* The request is whole or too long, the client has closed the connection  *)
(* or sent nothing for two seconds: it is answered what fits.              *)
StopReceiving ==
    /\ at = "recv"
    /\ at' = "send"
    /\ UNCHANGED <<stop, queue, conn, request>>

(* Faulty variant, for mutation checks only: the client is not closed.     *)
RespondOnly ==
    /\ at = "send"
    /\ at' = "check"
    /\ UNCHANGED <<stop, queue, conn, request>>

(* sendAll, which gives up on a client that does not read, and close.      *)
Respond ==
    /\ at = "send"
    /\ conn' = [c \in Client |-> IF conn[c] = "served" THEN "away" ELSE conn[c]]
    /\ at' = "check"
    /\ UNCHANGED <<stop, queue, request>>

-----------------------------------------------------------------------------
(* The environment                                                         *)

(* Without a socket that listens, or with a full queue, a connection is    *)
(* refused or has to wait: nothing happens.                                *)
Connect(c) ==
    /\ at \in Loop
    /\ conn[c] = "away" /\ Len(queue) < Backlog
    /\ conn' = [conn EXCEPT ![c] = "queued"]
    /\ queue' = Append(queue, c)
    /\ UNCHANGED <<at, stop, request>>

(* A signal; it interrupts select (EINTR) if it finds the process there.   *)
Signal ==
    /\ at \notin {"ended", "failed"} /\ ~stop
    /\ stop' = TRUE
    /\ at' = IF at = "select" THEN "check" ELSE at
    /\ UNCHANGED <<queue, conn, request>>

(* systemd starts the process again if it failed and was not stopped.      *)
RestartServer ==
    /\ at = "failed" /\ ~stop
    /\ at' = "start"
    /\ UNCHANGED <<stop, queue, conn, request>>

Run ==
    \/ Bind \/ Listen \/ End \/ GoOn \/ EnterSelect \/ Ready
    \/ SelectTimesOut \/ Accept \/ Receive \/ StopReceiving \/ Respond

ServerNext ==
    Run \/ Fail \/ (\E c \in Client : Connect(c)) \/ Signal \/ RestartServer

ServerSpec == ServerInit /\ [][ServerNext]_serverVars

(* The process is scheduled; select, recv and send end because they have   *)
(* timeouts.  Nothing is assumed about clients.                            *)
FairServerSpec == ServerSpec /\ WF_serverVars(Run)

-----------------------------------------------------------------------------

Elements == { queue[i] : i \in DOMAIN queue }

(* Every variable has the type of what it models; the queue has each       *)
(* waiting connection once, and one connection is open while it is served. *)
ServerTypeOK ==
    /\ at \in Loop \union {"start", "bound", "ended", "failed"}
    /\ stop \in BOOLEAN
    /\ queue \in Seq(Client) /\ Len(queue) <= Backlog
    /\ conn \in [Client -> {"away", "queued", "served"}]
    /\ received \in 0..MaxSize /\ whole \in BOOLEAN
    /\ at = "accept" => queue # << >>
    /\ Elements = { c \in Client : conn[c] = "queued" }
    /\ \A i, j \in DOMAIN queue : queue[i] = queue[j] => i = j
    /\ \A c, d \in Client : conn[c] = "served" /\ conn[d] = "served" => c = d
    /\ (\E c \in Client : conn[c] = "served") <=> at \in {"recv", "send"}

(* Whatever the clients before it do, one that is silent, one that sends   *)
(* a byte at a time, or one that comes again and again, a client that      *)
(* waits is served, unless the server ends (serveClient's timeouts and     *)
(* max_request_size, and the order of accept).                             *)
WaitingIsServed ==
    \A c \in Client : conn[c] = "queued" ~> conn[c] # "queued"

(* A signal ends the process, also when no client comes any more and the   *)
(* signal arrives between should_stop and select.                          *)
StopIsHeeded == stop ~> at \in {"ended", "failed"}

=============================================================================
