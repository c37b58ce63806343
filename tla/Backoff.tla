-------------------------------- MODULE Backoff --------------------------------
(***************************************************************************)
(* How long common/client_conn.go waits after a dial that failed, in       *)
(* milliseconds: the code's durations are whole numbers of them, what the  *)
(* clock adds is rounded.  failure is the number of failures in a row.     *)
(***************************************************************************)
EXTENDS Integers

Second == 1000

\* What is less than a second stays.
FloorToSecond(d) == IF d < Second THEN d ELSE (d \div Second) * Second

GetBackOff(failure) ==
    CASE failure < 10 -> 0
      [] failure >= 10 /\ failure < 20 -> FloorToSecond(10 * failure)
      [] OTHER -> FloorToSecond(50 * failure)

\* How long Loop waits when spent has passed since dialOnce computed nextDial:
\* what is left is rounded a second time, and if nothing is, the timer fires
\* at once.
Wait(failure, spent) ==
    IF spent >= GetBackOff(failure) THEN 0
    ELSE FloorToSecond(GetBackOff(failure) - spent)

=============================================================================
