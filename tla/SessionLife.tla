---------------------------- MODULE SessionLife ----------------------------
(***************************************************************************)
(* What RtspServer relies on in a session it has started: close() and the  *)
(* end of read_loop(), in any order, are all that can happen to it, and a  *)
(* session that has ended by itself has been closed.                       *)
(*                                                                         *)
(*   running    m_running, and read_loop() is there                        *)
(*   closing    close() has run, read_loop() has yet to notice             *)
(*   stranded   an exception has left read_loop(), nothing was closed      *)
(*   over       closed, and read_loop() is gone                            *)
(***************************************************************************)
VARIABLE life

Lives == {"running", "closing", "stranded", "over"}

Successors == [running  |-> {"closing", "stranded", "over"},
               closing  |-> {"over"},
               stranded |-> {"over"},
               over     |-> {}]

Init == life = "running"
Next == life' \in Successors[life]
Spec == Init /\ [][Next]_life

\* The steps of the session itself, and what close() makes of it.
OwnSteps == [Successors EXCEPT !["stranded"] = {}]
Closed == [running |-> "closing", closing |-> "closing", stranded |-> "over", over |-> "over"]
=============================================================================
