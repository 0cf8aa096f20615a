------------------------------ MODULE MCSerial ------------------------------
(***************************************************************************)
(* Two threads, two devices and two settings.                              *)
(***************************************************************************)
EXTENDS SerialPort, TLC

CONSTANTS t1, t2, c1, c2, tty1, tty2, slow, fast, odd

MCThread  == {t1, t2}
MCCtx     == {c1, c2}
MCDevice  == {tty1, tty2}
MCSetting == {slow, fast, odd}
MCInvalid == {odd}
MCFd      == {3, 4}

(* Agreeing requests, and requests that differ in each respect.            *)
Ask(d, s, sh) == [device |-> d, setting |-> s, shared |-> sh]
MCRequest == {Ask(tty1, slow, TRUE), Ask(tty1, fast, TRUE), Ask(tty2, slow, FALSE),
              Ask(tty2, odd, FALSE)}

Swap == Permutations(MCThread) \cup Permutations(MCCtx)

(* Opening may fail; the threads share a port, but not its opening. *)
Careful == {"open_fail"}
Races   == {"open_race"}

=============================================================================
