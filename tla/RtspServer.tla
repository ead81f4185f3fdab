----------------------------- MODULE RtspServer -----------------------------
(***************************************************************************)
(* nxnet/rtsp/rtsp_server.cpp: the listener of the RTSP server.            *)
(*                                                                         *)
(* start() opens the acceptor and spawns accept_loop(), which makes a      *)
(* session of every connection; stop() closes the acceptor and every       *)
(* session of m_sessions.  Sessions are those of SessionLife, which        *)
(* RtspServerSession implements.  The io_context has one thread: start(),  *)
(* stop() and a turn of accept_loop() run without a break, but between the *)
(* completion of async_accept and the turn it resumes others may run.      *)
(***************************************************************************)
EXTENDS Naturals

CONSTANTS Clients,    \* one for each connection ever made
          MaxStarts,  \* bound: calls of start() that succeed
          MaxErrors   \* bound: failing accepts

ASSUME ServerAssumption ==
    /\ MaxStarts \in Nat
    /\ MaxErrors \in Nat

VARIABLES
    m_running,
    acceptor,  \* m_acceptor: "closed", "open" or "listening"
    sessions,  \* m_sessions
    lives,     \* the life of the session of each client, or "none"
    loops,     \* the accept_loop() of each start, and the connection it holds
    starts,    \* calls of start() that succeeded
    backlog,   \* connections the system holds for the acceptor
    came,      \* clients that have connected
    errors,    \* accepts that failed
    late       \* history: the clients of which the accept_loop() of each start
               \* has made a session of a stopped server

memberVars == <<m_running, acceptor, sessions, starts>>
serverVars == <<memberVars, lives, loops, backlog, came, errors, late>>

Session(c) == INSTANCE SessionLife WITH life <- lives[c]

\* Where an accept_loop() is, and the connection it was given.
At(p) == [at |-> p, got |-> {}]
Taken(c) == [at |-> "taken", got |-> {c}]
Waiting(n) == loops[n].at = "waiting"

ServerInit ==
    /\ m_running = FALSE
    /\ acceptor = "closed"
    /\ sessions = {}
    /\ lives = [c \in Clients |-> "none"]
    /\ loops = [n \in 1..MaxStarts |-> At("none")]
    /\ starts = 0
    /\ backlog = {}
    /\ came = {}
    /\ errors = 0
    /\ late = [n \in 1..MaxStarts |-> {}]

-----------------------------------------------------------------------------
(***************************************************************************)
(* Mutated forms, for the check that every property can fail.              *)
(***************************************************************************)
CloseNothing(c) == lives[c]
BreakLoop == "ended"

(***************************************************************************)
(* start() and stop().                                                     *)
(***************************************************************************)
Start ==
    /\ ~m_running
    /\ acceptor = "closed"
    /\ starts < MaxStarts
    /\ acceptor' = "listening"
    /\ m_running' = TRUE
    /\ starts' = starts + 1
    /\ loops' = [loops EXCEPT ![starts + 1] = At("spawned")]
    /\ UNCHANGED <<sessions, lives, backlog, came, errors, late>>

\* bind() or listen() fails, the acceptor stays open; no start() succeeds
\* after that, for open() refuses an open acceptor.
StartFails ==
    /\ ~m_running
    /\ acceptor = "closed"
    /\ acceptor' = "open"
    /\ UNCHANGED <<m_running, sessions, starts, lives, loops, backlog, came, errors, late>>

CloseSession(c) == Session(c)!Closed[lives[c]]

Stop ==
    /\ m_running
    /\ m_running' = FALSE
    /\ acceptor' = "closed"
    /\ sessions' = {}
    /\ lives' = [c \in Clients |-> IF c \in sessions THEN CloseSession(c) ELSE lives[c]]
    /\ loops' = [n \in 1..MaxStarts |-> IF Waiting(n) THEN At("aborted") ELSE loops[n]]
    /\ backlog' = {}
    /\ UNCHANGED <<starts, came, errors, late>>

-----------------------------------------------------------------------------
(***************************************************************************)
(* accept_loop().                                                          *)
(***************************************************************************)
Turn(n) == loops' = [loops EXCEPT ![n] = At(IF m_running THEN "waiting" ELSE "ended")]

EnterLoop(n) ==
    /\ loops[n].at = "spawned"
    /\ Turn(n)
    /\ UNCHANGED <<memberVars, lives, backlog, came, errors, late>>

\* cleanup_sessions() forgets whom nobody else refers to, not even a
\* read_loop(); the destructor closes them.
Referenced(c) == lives[c] \in {"running", "closing"}
Kept == {c \in sessions : Referenced(c)}
Forgotten == {c \in sessions \ Kept : ~Referenced(c)}
StartSession == "running"

Resume(n) ==
    /\ loops[n].at = "taken"
    /\ \E c \in loops[n].got :
         /\ sessions' = Kept \cup {c}
         /\ lives' = [d \in Clients |-> IF d = c THEN StartSession
                                        ELSE IF d \in Forgotten THEN CloseSession(d)
                                        ELSE lives[d]]
         /\ late' = IF m_running THEN late ELSE [late EXCEPT ![n] = @ \cup {c}]
    /\ Turn(n)
    /\ UNCHANGED <<m_running, acceptor, starts, backlog, came, errors>>

AfterError == IF m_running THEN "waiting" ELSE "ended"

ResumeFailed(n) ==
    /\ loops[n].at = "failed"
    /\ loops' = [loops EXCEPT ![n] = At(AfterError)]
    /\ UNCHANGED <<memberVars, lives, backlog, came, errors, late>>

ResumeAborted(n) ==
    /\ loops[n].at = "aborted"
    /\ loops' = [loops EXCEPT ![n] = At("ended")]
    /\ UNCHANGED <<memberVars, lives, backlog, came, errors, late>>

-----------------------------------------------------------------------------
(***************************************************************************)
(* The surroundings: connections, the completion of async_accept, and what *)
(* the sessions do by themselves.                                          *)
(***************************************************************************)
Connect(c) ==
    /\ c \notin came
    /\ acceptor = "listening"
    /\ came' = came \cup {c}
    /\ backlog' = backlog \cup {c}
    /\ UNCHANGED <<memberVars, lives, loops, errors, late>>

Accept(n, c) ==
    /\ Waiting(n)
    /\ c \in backlog
    /\ loops' = [loops EXCEPT ![n] = Taken(c)]
    /\ backlog' = backlog \ {c}
    /\ UNCHANGED <<memberVars, lives, came, errors, late>>

AcceptFails(n) ==
    /\ Waiting(n)
    /\ errors < MaxErrors
    /\ loops' = [loops EXCEPT ![n] = At("failed")]
    /\ errors' = errors + 1
    /\ UNCHANGED <<memberVars, lives, backlog, came, late>>

OwnSteps(c) == Session(c)!OwnSteps[lives[c]]

SessionStep(c) ==
    /\ lives[c] # "none"
    /\ \E l \in OwnSteps(c) : lives' = [lives EXCEPT ![c] = l]
    /\ UNCHANGED <<memberVars, loops, backlog, came, errors, late>>

-----------------------------------------------------------------------------
Loop(n) == EnterLoop(n) \/ Resume(n) \/ ResumeFailed(n) \/ ResumeAborted(n)

ServerNext ==
    \/ Start \/ StartFails \/ Stop
    \/ \E n \in 1..MaxStarts : Loop(n) \/ AcceptFails(n) \/ \E c \in Clients : Accept(n, c)
    \/ \E c \in Clients : Connect(c) \/ SessionStep(c)

ServerSpec == ServerInit /\ [][ServerNext]_serverVars

(***************************************************************************)
(* The io_context resumes what is ready, the system hands out connections, *)
(* and a session that is closed ends, as RtspServerSession's do.           *)
(***************************************************************************)
ClosedEnds(c) == lives[c] = "closing" /\ SessionStep(c)

ServerFairness ==
    /\ \A n \in 1..MaxStarts : /\ WF_serverVars(Loop(n))
                               /\ WF_serverVars(\E c \in Clients : Accept(n, c))
    /\ \A c \in Clients : WF_serverVars(ClosedEnds(c))
ServerFairSpec == ServerSpec /\ ServerFairness

-----------------------------------------------------------------------------
ServerTypeOK ==
    /\ m_running \in BOOLEAN
    /\ acceptor \in {"closed", "open", "listening"}
    /\ sessions \subseteq Clients
    /\ \A c \in Clients : lives[c] \in Session(c)!Lives \cup {"none"}
    /\ \A n \in 1..MaxStarts :
         /\ loops[n].at \in {"none", "spawned", "waiting", "taken", "failed", "aborted", "ended"}
         /\ loops[n].got \subseteq came
         /\ loops[n].at = "taken" <=> loops[n].got # {}
    /\ starts \in 0..MaxStarts
    /\ backlog \subseteq came
    /\ came \subseteq Clients
    /\ errors \in 0..MaxErrors
    /\ late \in [1..MaxStarts -> SUBSET Clients]

(***************************************************************************)
(* rtsp_server.h, stop(): "stops the server (ends all sessions)".  It does *)
(* not end a session that is made of a connection accepted before it, when *)
(* the accept_loop() resumes behind it (lines 124-137): no more than one   *)
(* for each loop, and it is in m_sessions for the next stop().             *)
(***************************************************************************)
NotClosed(c) == lives[c] \in {"running", "stranded"}

StopEndsAll ==
    /\ ~m_running => \A c \in Clients : NotClosed(c) => \E n \in 1..MaxStarts : late[n] = {c}
    /\ \A c \in Clients : NotClosed(c) => c \in sessions

\* Without the exception.
StopEndsEverySession == ~m_running => \A c \in Clients : ~NotClosed(c)

(***************************************************************************)
(* rtsp_server.h, client_count(): "the number of active clients".          *)
(***************************************************************************)
CountIsActive == \A c \in sessions : lives[c] \in {"running", "closing"}

\* A client that connects is served, failing accepts or not, or the server
\* is stopped.
ClientsServed == \A c \in Clients : c \in backlog ~> (lives[c] # "none" \/ ~m_running)

=============================================================================
