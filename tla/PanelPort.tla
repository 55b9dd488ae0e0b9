------------------------------ MODULE PanelPort ------------------------------
(***************************************************************************)
(* The panel's port: the listener that tells HTTP from TLS by the first    *)
(* byte of a connection, http.Server.Serve, which takes the TLS ones from  *)
(* its channel, and the login handler with its limiter of failures.        *)
(*                                                                         *)
(* acceptLoop starts a goroutine for each connection; these and the loop   *)
(* itself send on one unbuffered channel, which the loop closes after the  *)
(* first error of Accept.  Panel and VPN server are one process: the end   *)
(* of Serve, and a panic, end it, and systemd starts it again.             *)
(*                                                                         *)
(* Abstractions: all clients have one address for the limiter; a failure   *)
(* grows old by itself (Expire), whenever that is; a client's bytes are    *)
(* only what decides where it goes; a connection that is closed is away    *)
(* and may come again.                                                     *)
(***************************************************************************)
EXTENDS Integers, FiniteSets

CONSTANTS
    Conns,        \* connections there may be at one time
    MaxFailures   \* loginMaxFailures

ASSUME PortAssumption == IsFiniteSet(Conns) /\ MaxFailures \in Nat \ {0}

VARIABLES
    up,      \* the process runs
    conn,    \* where each connection is
    loop,    \* acceptLoop
    serve,   \* http.Server.Serve
    fails    \* failures of the address within the window

vars == <<up, conn, loop, serve, fails>>

\* away, in the kernel's queue, having its first byte awaited, redirected to HTTPS,
\* sending on the channel, with a handler, having its password compared
Places == {"away", "backlog", "peek", "redirect", "send", "served", "check"}
At(S) == {c \in Conns : conn[c] \in S}

Init ==
    /\ up = TRUE
    /\ conn = [c \in Conns |-> "away"]
    /\ loop = "accept" /\ serve = "wait"
    /\ fails = 0

Die == up' = FALSE /\ conn' = [c \in Conns |-> "away"] /\ UNCHANGED <<loop, serve, fails>>
Move(c, p) == conn' = [conn EXCEPT ![c] = p] /\ UNCHANGED <<up, loop, serve>>

-----------------------------------------------------------------------------
(***************************************************************************)
(* muxListener                                                             *)
(***************************************************************************)
Dial(c) ==
    /\ up /\ conn[c] = "away"
    /\ Move(c, "backlog") /\ UNCHANGED fails

\* Mutant: the loop handles a connection before it accepts another.
Accept_Inline(c) ==
    /\ up /\ loop = "accept" /\ conn[c] = "backlog"
    /\ At({"peek", "redirect"}) = {}
    /\ Move(c, "peek") /\ UNCHANGED fails

Accept(c) ==
    /\ up /\ loop = "accept" /\ conn[c] = "backlog"
    /\ Move(c, "peek") /\ UNCHANGED fails

AcceptFails ==
    /\ up /\ loop = "accept"
    /\ loop' = "error"
    /\ UNCHANGED <<up, conn, serve, fails>>

\* handleConn, until the client has sent a byte, has gone or the deadline has passed.
\* A TLS connection goes to the channel; a send on the closed channel panics.
Peek(c) ==
    /\ up /\ conn[c] = "peek"
    /\ \/ Move(c, "away") /\ UNCHANGED fails
       \/ Move(c, "redirect") /\ UNCHANGED fails
       \/ IF loop = "over" THEN Die ELSE Move(c, "send") /\ UNCHANGED fails

\* redirectHTTP: the request is read without a deadline, and the connection closed.
Redirect(c) ==
    /\ up /\ conn[c] = "redirect"
    /\ Move(c, "away") /\ UNCHANGED fails

\* The error is one that Serve retries, after a pause, or one that ends it.
SendError ==
    /\ up /\ loop = "error" /\ serve = "wait"
    /\ loop' = "return"
    /\ serve' \in {"pause", "over"}
    /\ UNCHANGED <<up, conn, fails>>

\* Mutant: the channel stays open.
Close_Never ==
    /\ up /\ loop = "return"
    /\ loop' = "gone"
    /\ UNCHANGED <<up, conn, serve, fails>>

\* The deferred close: whoever is waiting to send panics.
Close ==
    /\ up /\ loop = "return"
    /\ IF At({"send"}) # {} THEN Die
       ELSE loop' = "over" /\ UNCHANGED <<up, conn, serve, fails>>

-----------------------------------------------------------------------------
(***************************************************************************)
(* http.Server.Serve and the process                                       *)
(***************************************************************************)
HandOver(c) ==
    /\ up /\ serve = "wait" /\ conn[c] = "send"
    /\ Move(c, "served") /\ UNCHANGED fails

Resume ==
    /\ up /\ serve = "pause"
    /\ serve' = "wait"
    /\ UNCHANGED <<up, conn, loop, fails>>

\* Accept on the closed channel returns net.ErrClosed.
ServeClosed ==
    /\ up /\ serve = "wait" /\ loop = "over"
    /\ serve' = "over"
    /\ UNCHANGED <<up, conn, loop, fails>>

\* log.Fatalf in the goroutine that runs the panel.
Exit == up /\ serve = "over" /\ Die

Boot ==
    /\ ~up /\ up' = TRUE
    /\ loop' = "accept" /\ serve' = "wait" /\ fails' = 0
    /\ UNCHANGED conn

-----------------------------------------------------------------------------
(***************************************************************************)
(* handleLogin and the limiter                                             *)
(***************************************************************************)
Hangup(c) ==
    /\ up /\ conn[c] \in {"backlog", "served"}
    /\ Move(c, "away") /\ UNCHANGED fails

\* Mutant: an attempt that is refused counts as a failure.
Login_CountsRefused(c) ==
    /\ up /\ conn[c] = "served"
    /\ IF fails < MaxFailures
       THEN Move(c, "check") /\ UNCHANGED fails
       ELSE Move(c, "served") /\ fails' = IF fails < MaxFailures + Cardinality(Conns)
                                          THEN fails + 1 ELSE fails

\* Mutant: one attempt too many.
Login_OffByOne(c) ==
    /\ up /\ conn[c] = "served"
    /\ fails <= MaxFailures
    /\ Move(c, "check") /\ UNCHANGED fails

\* allow; a refused attempt changes nothing.
Login(c) ==
    /\ up /\ conn[c] = "served"
    /\ fails < MaxFailures
    /\ Move(c, "check") /\ UNCHANGED fails

\* The form is empty; the password is wrong (recordFail); it is right (reset).
Compared(c) ==
    /\ up /\ conn[c] = "check"
    /\ Move(c, "served")
    /\ fails' \in {fails, fails + 1, 0}

\* A failure leaves the window.
Expire ==
    /\ up /\ fails > 0
    /\ fails' = fails - 1
    /\ UNCHANGED <<up, conn, loop, serve>>

-----------------------------------------------------------------------------
Next ==
    \/ \E c \in Conns : \/ Dial(c) \/ Accept(c) \/ Peek(c) \/ Redirect(c) \/ HandOver(c)
                        \/ Hangup(c) \/ Login(c) \/ Compared(c)
    \/ AcceptFails \/ SendError \/ Close \/ Resume \/ ServeClosed \/ Exit \/ Boot \/ Expire

(***************************************************************************)
(* Goroutines that can run do, a sender on the channel is taken in turn,    *)
(* the deadline of the first byte passes, time goes by and systemd starts   *)
(* what has ended.  Clients promise nothing, and errors need not come.      *)
(***************************************************************************)
Fairness ==
    /\ \A c \in Conns : WF_vars(Accept(c)) /\ WF_vars(Peek(c)) /\ WF_vars(HandOver(c))
    /\ WF_vars(SendError) /\ WF_vars(Close) /\ WF_vars(Resume)
    /\ WF_vars(ServeClosed) /\ WF_vars(Exit) /\ WF_vars(Boot) /\ WF_vars(Expire)

Spec == Init /\ [][Next]_vars /\ Fairness

-----------------------------------------------------------------------------
(***************************************************************************)
(* Properties                                                              *)
(***************************************************************************)
\* A connection is accepted, and one that speaks TLS is handed to the server, whatever
\* other connections do: mux_listener_test.go tries one that sends nothing.
NotBlocked ==
    \A c \in Conns : /\ conn[c] = "backlog" ~> conn[c] # "backlog"
                     /\ conn[c] = "send" ~> conn[c] # "send"

\* Once the accept loop has gone, whatever the error, the process does not stay without
\* anyone to accept: it ends, and the next one accepts again.
NeverDeaf == loop # "accept" ~> up /\ loop = "accept"

\* The limiter checks and records in two steps: attempts that were let in together may
\* fail together, but no more than those.
AttemptBound == fails + Cardinality(At({"check"})) <= MaxFailures - 1 + Cardinality(Conns)

\* A locked address is let in again, however often it tries meanwhile.
LockOpens == fails >= MaxFailures ~> fails < MaxFailures
=============================================================================
